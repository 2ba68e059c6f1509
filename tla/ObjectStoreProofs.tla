-------------------------- MODULE ObjectStoreProofs --------------------------
(***************************************************************************)
(* TypeOK, IndexAgrees, CoordinatorStaysUp and ReadsReturnTheValue of       *)
(* ObjectStore, for any clients, keys, proxies and workloads.               *)
(*                                                                          *)
(* The argument is about numbers.  As long as sets do not overlap and aborts *)
(* take back what they made, every stripe number and every block number     *)
(* belongs to one set, or to the object that the set became.  So a stripe   *)
(* answers for one object (IndexAgrees), the last stripe is that of the set *)
(* that asks for it (CoordinatorStaysUp), and what lies under a block       *)
(* number was stored by one set, and stays (ReadsReturnTheValue).           *)
(*                                                                          *)
(* First what each action does (the Effect lemmas), then the five parts of the *)
(* invariant, each with a lemma for every action: types (TypeInv), numbers   *)
(* (NumbersInv), the two tables (IndexInv), what lies where (ValuesInv) and  *)
(* that it lies there (WholeInv).                                            *)
(***************************************************************************)
EXTENDS ObjectStore, SequenceTheorems, TLAPS

Without(S) == trouble \cap S = {}

----------------------------------------------------------------------------
(* Types. *)

Stages == {"called", "checked", "numbering", "entered", "answered", "stored"}
Listing == {"entered", "answered", "stored"}

SetRecord ==
  [key : Keys, stage : Stages, ids : Seq(Int), id : Int, listed : Seq(Int),
   parts : Seq(Nat \X Proxies), proxy : SUBSET Proxies]

\* A set lists the first stripe it makes, and has a part for each; the answer names one
\* proxy.
SetOK(s) ==
  /\ s \in SetRecord
  /\ Len(s.parts) = Len(s.ids) /\ Len(s.ids) <= size
  /\ s.stage = "called" => s.ids = <<>>
  /\ s.stage = "numbering" => Len(s.ids) < size
  /\ s.stage \in Listing => Len(s.ids) = size
  /\ s.stage = "answered" => \A p, q \in s.proxy : p = q
  /\ s.listed = IF s.ids = <<>> THEN <<>> ELSE <<s.ids[1]>>

Setting(c)  == client[c].state \in {"set", "sent"}
Holding(c)  == client[c].state \in {"listed", "deleting", "erased"}
Removing(c) == client[c].state \in {"deleting", "erased"}

\* What a client holds in each of its states.
ClientOK(x) ==
  \/ x = Idle \/ x = Stuck
  \/ x \in [state : {"set", "sent"}, set : DOMAIN sets]
  \/ /\ x.state = "get" /\ DOMAIN x = {"state", "want", "parts"}
     /\ x.want \in Nat /\ Len(x.parts) = 1 /\ x.parts = <<x.parts[1]>>
  \/ x.state = "got" /\ DOMAIN x = {"state", "want", "got"}
  \/ x \in [state : {"listed"}, ids : SUBSET Int]
  \/ x \in [state : {"deleting", "erased"}, ids : SUBSET Int, keys : SUBSET Keys]

One(s) == \E id \in Int : s = <<id>>

NumbersOK ==
  /\ up \in BOOLEAN /\ left \in [Kinds -> Nat] /\ size \in Nat \ {0}
  /\ nextStripe \in Int /\ nextBlock \in Nat
StripesOK ==
  /\ DOMAIN stripes \subseteq Int
  /\ \A id \in DOMAIN stripes :
       stripes[id] \in [block : 0 .. nextBlock, at : Proxies, objects : SUBSET Keys]
TablesOK ==
  /\ DOMAIN updating \subseteq Keys /\ \A k \in DOMAIN updating : One(updating[k])
  /\ DOMAIN committed \subseteq Keys /\ \A k \in DOMAIN committed : One(committed[k])
  /\ DOMAIN current = DOMAIN committed /\ \A k \in DOMAIN current : current[k] \in Nat
  /\ DOMAIN initial \subseteq Int /\ \A id \in DOMAIN initial : initial[id] \in Proxies
SetsOK == \A n \in DOMAIN sets : n \in Nat /\ left.set < n /\ SetOK(sets[n])
ClientsOK == DOMAIN client = Clients /\ \A c \in Clients : ClientOK(client[c])
\* Two clients never wait for one set.
ClientsApart ==
  \A c, d \in Clients : Setting(c) /\ Setting(d) /\ client[c].set = client[d].set => c = d
ThreadOK(t) ==
  /\ DOMAIN t = {"proxy", "set", "parts"} /\ t.proxy \in Proxies
  /\ t.set \in Nat /\ Len(t.parts) = size /\ t.parts \in Seq(Nat \X Proxies)
StoringOK == \A t \in storing : ThreadOK(t)
\* A connection is that of a client that has sent its value and is not answered.
Sent(n) == \E c \in Clients : client[c].state = "sent" /\ client[c].set = n
ConnsOK ==
  \A k \in conns :
    /\ k \in [proxy : Proxies, set : DOMAIN sets]
    /\ sets[k.set].stage = "answered" /\ k.proxy \in sets[k.set].proxy /\ Sent(k.set)
StoredOK == \A n \in DOMAIN sets : sets[n].stage = "stored" => Sent(n)

TypeInv ==
  /\ NumbersOK /\ StripesOK /\ TablesOK /\ SetsOK /\ ClientsOK /\ ClientsApart
  /\ StoringOK /\ ConnsOK /\ StoredOK

----------------------------------------------------------------------------
(* The operators of the model. *)

\* A function with one more argument, or one argument changed.
LEMMA WithFacts ==
  ASSUME NEW f, NEW x, NEW v
  PROVE  /\ DOMAIN With(f, x, v) = DOMAIN f \cup {x}
         /\ With(f, x, v)[x] = v
         /\ \A y \in DOMAIN f : y # x => With(f, x, v)[y] = f[y]
BY DEF With

\* A function without some of its arguments.
LEMMA DropFacts ==
  ASSUME NEW f, NEW S
  PROVE  /\ DOMAIN Drop(f, S) = DOMAIN f \ S
         /\ \A y \in DOMAIN f \ S : Drop(f, S)[y] = f[y]
BY DEF Drop, Restrict

\* Flattening a sequence of one sequence gives that sequence.
LEMMA FlattenOne ==
  ASSUME NEW s PROVE FlattenSeq(<<s>>) = s
<1>1. \A i \in 1 .. Len(<<s>>) : i = 1
  OBVIOUS
<1>2. Len(<<s>>) = 1 /\ <<s>>[1] = s
  OBVIOUS
<1> DEFINE P(f) == f = [i \in 1 .. Len(<<s>>) |->
                          IF i = 1 THEN <<s>>[i] ELSE f[i - 1] \o <<s>>[i]]
           g == [i \in 1 .. Len(<<s>>) |-> s]
           h == CHOOSE f : P(f)
<1>3. P(g)
  BY <1>1, <1>2
<1>4. P(h)
  <2> HIDE DEF P
  <2> QED BY <1>3
<1>5. h[Len(<<s>>)] = s
  <2>1. 1 \in 1 .. Len(<<s>>)
    BY <1>2
  <2> HIDE DEF h
  <2> QED BY <1>4, <1>2, <2>1
<1>6. FlattenSeq(<<s>>) = h[Len(<<s>>)]
  <2>1. Len(<<s>>) # 0
    BY <1>2
  <2> QED BY <2>1 DEF FlattenSeq
<1> QED BY <1>5, <1>6

\* A call of some kind is used up, the others stay.
LEMMA UseFacts ==
  ASSUME NumbersOK, NEW kind \in Kinds, Use(kind)
  PROVE  /\ left' \in [Kinds -> Nat] /\ left[kind] > 0
         /\ left'[kind] = left[kind] - 1
         /\ \A k \in Kinds \ {kind} : left'[k] = left[k]
BY DEF NumbersOK, Use

\* Trouble is never forgotten.
LEMMA TroubleGrows ==
  ASSUME [Next]_vars PROVE trouble \subseteq trouble'
BY DEF Next, vars, history, tables, work, Check, Number, MakeStripe, Enter, Dispatch,
       TablesBreak, EraseBreaks, Store, StoreFails, Stores, Set, Get, GiveUp, Connect, Commit,
       Abort, Read, ReadTorn, ReadsCross, List, DeleteBlocks, EraseStripes, ForgetObjects, Reset,
       Snapshot, Revert, Repair, Lose, Suffer

----------------------------------------------------------------------------
(* What the actions do, said of each set and of each client. *)

\* Set n goes to stage s and keeps its key and what it has made.
Moved(n, s) ==
  /\ DOMAIN sets' = DOMAIN sets
  /\ sets'[n] \in SetRecord /\ sets'[n].stage = s
  /\ sets'[n].key = sets[n].key /\ sets'[n].ids = sets[n].ids
  /\ sets'[n].listed = sets[n].listed /\ sets'[n].parts = sets[n].parts
  /\ \A m \in DOMAIN sets \ {n} : sets'[m] = sets[m]

\* Client c goes to state x.
Becomes(c, x) ==
  /\ DOMAIN client' = Clients /\ client'[c] = x
  /\ \A d \in Clients \ {c} : client'[d] = client[d]

\* Set n is forgotten.
Forgets(n) == DOMAIN sets' = DOMAIN sets \ {n} /\ \A m \in DOMAIN sets \ {n} : sets'[m] = sets[m]

\* A set that is changed in one place is changed there only.
LEMMA StageChange ==
  ASSUME SetsOK, NEW n \in DOMAIN sets, NEW s \in Stages,
         sets' = [sets EXCEPT ![n].stage = s]
  PROVE  Moved(n, s) /\ sets'[n].id = sets[n].id /\ sets'[n].proxy = sets[n].proxy
<1>1. sets[n] \in SetRecord
  BY DEF SetsOK, SetOK
<1>2. sets'[n] = [sets[n] EXCEPT !.stage = s]
  OBVIOUS
<1> QED BY <1>1, <1>2 DEF Moved, SetRecord

\* A client that is changed is changed alone.
LEMMA ClientChange ==
  ASSUME ClientsOK, NEW c \in Clients, NEW x, client' = [client EXCEPT ![c] = x]
  PROVE  Becomes(c, x)
BY DEF ClientsOK, Becomes

\* What a client in each of its states holds.
LEMMA ClientShapes ==
  ASSUME ClientsOK, NEW c \in Clients
  PROVE  /\ Setting(c) => client[c] \in [state : {"set", "sent"}, set : DOMAIN sets]
         /\ client[c].state = "get" =>
              /\ DOMAIN client[c] = {"state", "want", "parts"} /\ client[c].want \in Nat
              /\ client[c].parts = <<client[c].parts[1]>>
         /\ client[c].state = "listed" => client[c] \in [state : {"listed"}, ids : SUBSET Int]
         /\ Removing(c) =>
              client[c] \in [state : {"deleting", "erased"}, ids : SUBSET Int,
                             keys : SUBSET Keys]
BY DEF ClientsOK, ClientOK, Setting, Removing, Idle, Stuck

\* Gets are answered, or never will be; other clients stay.
GetsEnd ==
  /\ DOMAIN client' = Clients
  /\ \A d \in Clients :
       \/ client'[d] = client[d]
       \/ /\ client[d].state = "get"
          /\ \/ client'[d] = Stuck
             \/ client'[d].state = "got" /\ DOMAIN client'[d] = {"state", "want", "got"}

\* A get may have been left without an answer.
Hangs ==
  /\ DOMAIN client' = Clients
  /\ \A d \in Clients : \/ client'[d] = client[d]
                        \/ client[d].state = "get" /\ client'[d] = Stuck

\* Set makes a set that is called and has nothing yet.
LEMMA SetEffect ==
  ASSUME TypeInv, NEW c \in Clients, NEW k \in Keys, Set(c, k), NEW n, n = left.set
  PROVE  /\ up /\ client[c].state \in {"idle", "got"}
         /\ n \in Nat /\ n \notin DOMAIN sets
         /\ left' \in [Kinds -> Nat] /\ left'.set = n - 1
         /\ Becomes(c, [state |-> "set", set |-> n])
         /\ DOMAIN sets' = DOMAIN sets \cup {n} /\ \A m \in DOMAIN sets : sets'[m] = sets[m]
         /\ sets'[n] = [key |-> k, stage |-> "called", ids |-> <<>>, id |-> 0,
                        listed |-> <<>>, parts |-> <<>>, proxy |-> {}]
         /\ UNCHANGED <<up, size, nextStripe, nextBlock, stripes, updating, committed, initial,
                        storing, conns, disk, current, fresh, trouble>>
<1>1. /\ left' \in [Kinds -> Nat] /\ left.set > 0 /\ left'.set = left.set - 1
  BY UseFacts DEF TypeInv, Set, Kinds
<1>2. left.set \in Nat /\ left.set \notin DOMAIN sets
  BY DEF TypeInv, NumbersOK, SetsOK, Kinds
<1>3. Becomes(c, [state |-> "set", set |-> n])
  BY ClientChange DEF TypeInv, Set
<1>4. /\ DOMAIN sets' = DOMAIN sets \cup {n} /\ \A m \in DOMAIN sets : sets'[m] = sets[m]
      /\ sets'[n] = [key |-> k, stage |-> "called", ids |-> <<>>, id |-> 0,
                     listed |-> <<>>, parts |-> <<>>, proxy |-> {}]
  BY <1>2 DEF Set, With
<1> QED BY <1>1, <1>2, <1>3, <1>4 DEF Set, Free, tables, history

\* Check lets a set on, or ends the coordinator on a key that is committed.
LEMMA CheckEffect ==
  ASSUME TypeInv, NEW n \in DOMAIN sets, Check(n)
  PROVE  /\ up /\ sets[n].stage = "called"
         /\ \/ sets[n].key \in DOMAIN committed /\ up' = FALSE /\ sets' = sets
            \/ sets[n].key \notin DOMAIN committed /\ up' = up /\ Moved(n, "checked")
         /\ sets[n].key \in DOMAIN committed => "same_key" \in trouble'
         /\ \A m \in Waiting \ {n} : sets[m].key = sets[n].key => "same_key" \in trouble'
         /\ Unlocked # {} => "overlap" \in trouble'
         /\ trouble \subseteq trouble'
         /\ UNCHANGED <<size, nextStripe, nextBlock, stripes, updating, committed, initial,
                        client, storing, conns, disk, left, current, fresh>>
<1>1. CASE sets[n].key \in DOMAIN committed
  BY <1>1 DEF Check, Ends, Suffer, tables
<1>2. CASE sets[n].key \notin DOMAIN committed
  <2>1. sets' = [sets EXCEPT ![n].stage = "checked"]
    BY <1>2 DEF Check
  <2>2. Moved(n, "checked")
    BY <2>1, StageChange DEF TypeInv, Stages
  <2> QED BY <1>2, <2>2 DEF Check, Suffer, tables
<1> QED BY <1>1, <1>2

\* Number takes the next stripe number and does not count it on.
LEMMA NumberEffect ==
  ASSUME TypeInv, NEW n \in DOMAIN sets, Number(n)
  PROVE  /\ up /\ sets[n].stage = "checked" /\ Len(sets[n].ids) < size
         /\ Moved(n, "numbering") /\ sets'[n].id = nextStripe
         /\ UNCHANGED <<up, size, nextStripe, nextBlock, stripes, updating, committed, initial,
                        client, storing, conns, disk, left, current, fresh, trouble>>
<1>1. sets[n] \in SetRecord /\ nextStripe \in Int
  BY DEF TypeInv, NumbersOK, SetsOK, SetOK
<1>2. sets'[n] = [sets[n] EXCEPT !.stage = "numbering", !.id = nextStripe]
  BY DEF Number
<1>3. Moved(n, "numbering") /\ sets'[n].id = nextStripe
  BY <1>1, <1>2 DEF Number, Moved, SetRecord, Stages
<1> QED BY <1>3 DEF Number, tables, history

\* Set n makes stripe id at place p.
Makes(n, id, p) ==
  /\ up /\ sets[n].stage = "numbering" /\ id \in Int
  /\ DOMAIN stripes' = DOMAIN stripes \cup {id}
  /\ stripes'[id] = [block |-> nextBlock, at |-> p,
                     objects |-> IF sets[n].ids = <<>> THEN {sets[n].key} ELSE {}]
  /\ \A jd \in DOMAIN stripes : jd # id => stripes'[jd] = stripes[jd]
  /\ DOMAIN sets' = DOMAIN sets /\ \A m \in DOMAIN sets \ {n} : sets'[m] = sets[m]
  /\ sets'[n] \in SetRecord
  /\ sets'[n].key = sets[n].key /\ sets'[n].stage = "checked"
  /\ sets'[n].ids = Append(sets[n].ids, id)
  /\ sets'[n].parts = Append(sets[n].parts, <<nextBlock, p>>)
  /\ sets'[n].listed = IF sets[n].ids = <<>> THEN Append(sets[n].listed, id)
                                             ELSE sets[n].listed
  /\ nextStripe' = id + 1 /\ nextBlock' = nextBlock + 1
  /\ UNCHANGED <<up, size, updating, committed, initial, client, storing, conns, disk, left,
                 current, fresh, trouble>>

\* MakeStripe adds one stripe and one block to the tables and to the set.
LEMMA MakeStripeEffect ==
  ASSUME TypeInv, NEW n \in DOMAIN sets, MakeStripe(n), NEW id, id = sets[n].id
  PROVE  \E p \in Proxies : Makes(n, id, p)
<1>1. PICK p \in Proxies :
        /\ stripes' = With(stripes, sets[n].id,
                           [block |-> nextBlock, at |-> p,
                            objects |-> IF Listed(n) THEN {sets[n].key} ELSE {}])
        /\ sets' = [sets EXCEPT ![n].stage = "checked",
                                ![n].ids = Append(@, sets[n].id),
                                ![n].listed = IF Listed(n) THEN Append(@, sets[n].id) ELSE @,
                                ![n].parts = Append(@, <<nextBlock, p>>)]
  BY DEF MakeStripe
<1>2. sets[n] \in SetRecord /\ nextBlock \in Nat
  BY DEF TypeInv, NumbersOK, SetsOK, SetOK
<1>3. /\ DOMAIN stripes' = DOMAIN stripes \cup {id}
      /\ stripes'[id] = [block |-> nextBlock, at |-> p,
                         objects |-> IF sets[n].ids = <<>> THEN {sets[n].key} ELSE {}]
      /\ \A jd \in DOMAIN stripes : jd # id => stripes'[jd] = stripes[jd]
  BY <1>1 DEF Listed, With
<1>4. sets'[n] = [sets[n] EXCEPT !.stage = "checked",
                                 !.ids = Append(@, id),
                                 !.listed = IF sets[n].ids = <<>> THEN Append(@, id) ELSE @,
                                 !.parts = Append(@, <<nextBlock, p>>)]
  BY <1>1 DEF Listed
<1>5. /\ sets'[n] \in SetRecord
      /\ sets'[n].key = sets[n].key /\ sets'[n].stage = "checked"
      /\ sets'[n].ids = Append(sets[n].ids, id)
      /\ sets'[n].parts = Append(sets[n].parts, <<nextBlock, p>>)
      /\ sets'[n].listed = IF sets[n].ids = <<>> THEN Append(sets[n].listed, id)
                                                 ELSE sets[n].listed
  <2> DEFINE s == sets[n]
  <2>1. s.ids \in Seq(Int) /\ s.listed \in Seq(Int) /\ s.parts \in Seq(Nat \X Proxies)
    BY <1>2 DEF SetRecord
  <2>2. Append(s.ids, id) \in Seq(Int) /\ Append(s.listed, id) \in Seq(Int)
    BY <1>2, <2>1 DEF SetRecord
  <2>3. Append(s.parts, <<nextBlock, p>>) \in Seq(Nat \X Proxies)
    BY <1>2, <2>1
  <2> QED BY <1>2, <1>4, <2>2, <2>3 DEF SetRecord, Stages
<1>6. DOMAIN sets' = DOMAIN sets /\ \A m \in DOMAIN sets \ {n} : sets'[m] = sets[m]
  BY <1>1
<1>7. id \in Int
  BY <1>2 DEF SetRecord
<1> QED BY <1>3, <1>5, <1>6, <1>7 DEF Makes, MakeStripe, BlockAfter, history

\* Enter lists the set's first stripe for its key.
LEMMA EnterEffect ==
  ASSUME TypeInv, NEW n \in DOMAIN sets, Enter(n)
  PROVE  /\ up /\ sets[n].stage = "checked" /\ Len(sets[n].ids) = size
         /\ DOMAIN updating' = DOMAIN updating \cup {sets[n].key}
         /\ updating'[sets[n].key] = sets[n].listed
         /\ \A k \in DOMAIN updating : k # sets[n].key => updating'[k] = updating[k]
         /\ Moved(n, "entered")
         /\ UNCHANGED <<up, size, nextStripe, nextBlock, stripes, committed, initial, client,
                        storing, conns, disk, left, current, fresh, trouble>>
<1>1. Moved(n, "entered")
  BY StageChange DEF Enter, TypeInv, Stages
<1> QED BY <1>1 DEF Enter, With, history

\* Dispatch starts a thread at the proxy of the last stripe, or ends the coordinator.
LEMMA DispatchEffect ==
  ASSUME TypeInv, NEW n \in DOMAIN sets, Dispatch(n)
  PROVE  /\ up /\ sets[n].stage = "entered"
         /\ \/ /\ LastStripe \in DOMAIN stripes /\ up' = up
               /\ Moved(n, "answered") /\ sets'[n].proxy = {stripes[LastStripe].at}
               /\ storing' = storing \cup {[proxy |-> stripes[LastStripe].at, set |-> n,
                                            parts |-> sets[n].parts]}
               /\ (\E t \in storing : t.proxy = stripes[LastStripe].at) =>
                    "shared_proxy" \in trouble'
            \/ LastStripe \notin DOMAIN stripes /\ up' = FALSE /\ UNCHANGED <<storing, sets>>
         /\ trouble \subseteq trouble'
         /\ UNCHANGED <<size, nextStripe, nextBlock, stripes, updating, committed, initial,
                        client, conns, disk, left, current, fresh>>
<1>1. CASE LastStripe \notin DOMAIN stripes
  BY <1>1 DEF Dispatch, Ends, tables
<1>2. CASE LastStripe \in DOMAIN stripes
  <2> DEFINE p == stripes[LastStripe].at
  <2>1. /\ storing' = storing \cup {[proxy |-> p, set |-> n, parts |-> sets[n].parts]}
        /\ sets' = [sets EXCEPT ![n].stage = "answered", ![n].proxy = {p}]
        /\ Suffer(IF \E t \in storing : t.proxy = p THEN {"shared_proxy"} ELSE {})
    BY <1>2 DEF Dispatch
  <2>2. sets[n] \in SetRecord /\ p \in Proxies
    BY <1>2 DEF TypeInv, SetsOK, SetOK, StripesOK
  <2>3. sets'[n] = [sets[n] EXCEPT !.stage = "answered", !.proxy = {p}]
    BY <2>1
  <2>4. Moved(n, "answered") /\ sets'[n].proxy = {p}
    BY <2>1, <2>2, <2>3 DEF Moved, SetRecord, Stages
  <2> QED BY <1>2, <2>1, <2>4 DEF Dispatch, Suffer, tables
<1> QED BY <1>1, <1>2

\* A data race in the stripe table ends the coordinator and changes nothing else.
LEMMA BreakEffect ==
  ASSUME TablesBreak \/ EraseBreaks
  PROVE  /\ up /\ up' = FALSE /\ trouble \subseteq trouble'
         /\ "overlap" \in trouble' \/ "erased_in_use" \in trouble'
         /\ UNCHANGED <<size, nextStripe, nextBlock, stripes, updating, committed, initial, sets,
                        client, storing, conns, disk, left, current, fresh>>
BY DEF TablesBreak, EraseBreaks, Ends, Suffer, tables, work

\* GiveUp leaves the set to itself.
LEMMA GiveUpEffect ==
  ASSUME TypeInv, NEW c \in Clients, GiveUp(c)
  PROVE  /\ up /\ client[c].state = "set"
         /\ Becomes(c, Idle)
         /\ left' \in [Kinds -> Nat] /\ left'.set = left.set
         /\ UNCHANGED <<up, size, nextStripe, nextBlock, stripes, updating, committed, initial,
                        sets, storing, conns, disk, current, fresh, trouble>>
<1>1. left' \in [Kinds -> Nat] /\ left'.set = left.set
  BY UseFacts DEF TypeInv, GiveUp, Kinds
<1>2. Becomes(c, Idle)
  BY ClientChange DEF TypeInv, GiveUp
<1> QED BY <1>1, <1>2 DEF GiveUp, tables, history

\* Client c connects to p for set n.
Connects(c, n, p) ==
  /\ up /\ client[c].state = "set" /\ n \in DOMAIN sets /\ sets[n].stage = "answered"
  /\ p \in sets[n].proxy
  /\ conns' = conns \cup {[proxy |-> p, set |-> n]}
  /\ Becomes(c, [state |-> "sent", set |-> n])
  /\ UNCHANGED <<up, size, nextStripe, nextBlock, stripes, updating, committed, initial, sets,
                 storing, disk, left, current, fresh, trouble>>

\* Connect adds one connection, to the proxy of the answer.
LEMMA ConnectEffect ==
  ASSUME TypeInv, NEW c \in Clients, Connect(c), NEW n, n = client[c].set
  PROVE  \E p \in Proxies : Connects(c, n, p)
<1>1. client[c] \in [state : {"set", "sent"}, set : DOMAIN sets]
  BY ClientShapes DEF TypeInv, Connect, Setting
<1>2. [client[c] EXCEPT !.state = "sent"] = [state |-> "sent", set |-> n]
  BY <1>1
<1>3. client' = [client EXCEPT ![c] = [client[c] EXCEPT !.state = "sent"]]
  BY DEF Connect
<1>4. Becomes(c, [state |-> "sent", set |-> n])
  BY <1>2, <1>3, ClientChange DEF TypeInv
<1>5. sets[n].proxy \subseteq Proxies
  BY <1>1 DEF TypeInv, SetsOK, SetOK, SetRecord
<1> QED BY <1>1, <1>4, <1>5 DEF Connects, Connect, tables, history

\* The thread is over: it has written its parts, or some of them.
Finishes(t, k) ==
  /\ up /\ t.proxy = k.proxy
  /\ DOMAIN disk \subseteq DOMAIN disk' /\ DOMAIN disk' \subseteq DOMAIN disk \cup ToSet(t.parts)
  /\ "old_kept" \notin trouble' =>
       \A spot \in ToSet(t.parts) \cap DOMAIN disk' : disk'[spot] = Content(t, k, spot)
  /\ "lost" \notin trouble' => client' = client /\ DOMAIN disk' = DOMAIN disk \cup ToSet(t.parts)
  /\ \A spot \in DOMAIN disk \ ToSet(t.parts) : disk'[spot] = disk[spot]
  /\ storing' = storing \ {t} /\ conns' = conns \ {k}
  /\ k.set \in DOMAIN sets /\ sets[k.set].stage = "answered" /\ Moved(k.set, "stored")
  /\ left' \in [Kinds -> Nat] /\ left'.set = left.set
  /\ Hangs
  /\ UNCHANGED <<up, size, nextStripe, nextBlock, stripes, updating, committed, initial,
                 current, fresh>>

\* Store writes the parts of the thread, for the set of the connection; StoreFails fails
\* with some of them.
LEMMA StoreEffect ==
  ASSUME TypeInv, NEW t \in storing, NEW k \in conns, Store(t, k) \/ StoreFails(t, k)
  PROVE  Finishes(t, k)
<1>1. k.set \in DOMAIN sets /\ sets[k.set].stage = "answered"
  BY DEF TypeInv, ConnsOK
<1>2. Stores(t, k) /\ up /\ t.proxy = k.proxy
  BY DEF Store, StoreFails
<1>3. Moved(k.set, "stored")
  BY <1>1, <1>2, StageChange DEF Stores, TypeInv, Stages
<1>4. /\ storing' = storing \ {t} /\ conns' = conns \ {k}
      /\ UNCHANGED <<up, size, nextStripe, nextBlock, stripes, updating, committed, initial,
                     current, fresh>>
  BY <1>2 DEF Stores, tables
<1>5. DOMAIN client = Clients
  BY DEF TypeInv, ClientsOK
<1>6. CASE Store(t, k)
  <2>1. Hangs
    BY <1>5, <1>6 DEF Store, Hangs
  <2>2. left' \in [Kinds -> Nat] /\ left'.set = left.set /\ client' = client
    BY <1>6 DEF Store, TypeInv, NumbersOK
  <2>3. disk' = [spot \in DOMAIN disk \cup ToSet(t.parts) |->
                   IF spot \in ToSet(t.parts) THEN Content(t, k, spot) ELSE disk[spot]]
    BY <1>6 DEF Store
  <2> QED BY <1>1, <1>2, <1>3, <1>4, <2>1, <2>2, <2>3 DEF Finishes
<1>7. CASE StoreFails(t, k)
  <2>1. PICK failed \in (SUBSET ToSet(t.parts)) \ {{}} :
          /\ \E mixed \in SUBSET (failed \cap DOMAIN disk) :
               disk' = [spot \in DOMAIN disk \cup (ToSet(t.parts) \ failed) |->
                          IF spot \in ToSet(t.parts) \ failed THEN Content(t, k, spot)
                          ELSE IF spot \in mixed THEN Torn ELSE disk[spot]]
          /\ Suffer({"lost"} \cup IF failed \cap DOMAIN disk = {} THEN {} ELSE {"old_kept"})
    BY <1>7 DEF StoreFails
  <2>2. PICK mixed \in SUBSET (failed \cap DOMAIN disk) :
          disk' = [spot \in DOMAIN disk \cup (ToSet(t.parts) \ failed) |->
                     IF spot \in ToSet(t.parts) \ failed THEN Content(t, k, spot)
                     ELSE IF spot \in mixed THEN Torn ELSE disk[spot]]
    BY <2>1
  <2>3. /\ "lost" \in trouble'
        /\ "old_kept" \notin trouble' => failed \cap DOMAIN disk = {}
    BY <2>1 DEF Suffer
  <2>4. Hangs
    <3>1. \/ UNCHANGED client
          \/ \E c \in Clients : client[c].state = "get" /\ client' = [client EXCEPT ![c] = Stuck]
      BY <1>7 DEF StoreFails
    <3> QED BY <1>5, <3>1 DEF Hangs
  <2>5. left' \in [Kinds -> Nat] /\ left'.set = left.set
    <3>1. Use("fail") \/ left' = left
      BY <1>7 DEF StoreFails
    <3>2. CASE Use("fail")
      BY <3>2, UseFacts DEF TypeInv, Kinds
    <3> QED BY <3>1, <3>2 DEF TypeInv, NumbersOK
  <2>6. /\ DOMAIN disk \subseteq DOMAIN disk'
        /\ DOMAIN disk' \subseteq DOMAIN disk \cup ToSet(t.parts)
        /\ \A spot \in DOMAIN disk \ ToSet(t.parts) : disk'[spot] = disk[spot]
    BY <2>2
  <2>7. ASSUME failed \cap DOMAIN disk = {}, NEW spot \in ToSet(t.parts) \cap DOMAIN disk'
        PROVE  disk'[spot] = Content(t, k, spot)
    BY <2>2, <2>7
  <2> QED BY <1>1, <1>2, <1>3, <1>4, <2>3, <2>4, <2>5, <2>6, <2>7 DEF Finishes
<1> QED BY <1>6, <1>7

\* Client c commits set n of key k.
Commits(c, n, k) ==
  /\ k \notin DOMAIN committed /\ k \in DOMAIN updating /\ up' = up
  /\ DOMAIN committed' = DOMAIN committed \cup {k}
  /\ committed'[k] = updating[k]
  /\ \A j \in DOMAIN committed : committed'[j] = committed[j]
  /\ DOMAIN updating' = DOMAIN updating \ {k}
  /\ \A j \in DOMAIN updating \ {k} : updating'[j] = updating[j]
  /\ DOMAIN current' = DOMAIN current \cup {k}
  /\ current'[k] = n
  /\ \A j \in DOMAIN current : current'[j] = current[j]
  /\ Forgets(n) /\ Becomes(c, Idle)

\* Commit hands the entry of the key over, or ends the coordinator.
LEMMA CommitEffect ==
  ASSUME TypeInv, NEW c \in Clients, Commit(c),
         NEW n, n = client[c].set, NEW k, k = sets[n].key
  PROVE  /\ up /\ client[c].state = "sent" /\ n \in DOMAIN sets /\ sets[n].stage = "stored"
         /\ \/ Commits(c, n, k)
            \/ /\ k \in DOMAIN committed \/ k \notin DOMAIN updating
               /\ up' = FALSE /\ UNCHANGED <<committed, updating, current, sets, client>>
         /\ UNCHANGED <<size, nextStripe, nextBlock, stripes, initial, storing, conns, disk,
                        left, fresh, trouble>>
<1>1. n \in DOMAIN sets
  BY ClientShapes DEF TypeInv, Commit, Setting
<1>2. CASE k \in DOMAIN committed \/ k \notin DOMAIN updating
  BY <1>1, <1>2 DEF Commit, Ends
<1>3. CASE k \notin DOMAIN committed /\ k \in DOMAIN updating
  <2>1. /\ committed' = With(committed, k, updating[k]) /\ updating' = Drop(updating, {k})
        /\ current' = With(current, k, n) /\ sets' = Drop(sets, {n})
        /\ client' = [client EXCEPT ![c] = Idle]
    BY <1>3 DEF Commit
  <2>2. Forgets(n)
    BY <2>1 DEF Forgets, Drop, Restrict
  <2>3. Becomes(c, Idle)
    BY <2>1, ClientChange DEF TypeInv
  <2>4. DOMAIN updating' = DOMAIN updating \ {k} /\
        \A j \in DOMAIN updating \ {k} : updating'[j] = updating[j]
    BY <2>1 DEF Drop, Restrict
  <2>5. /\ DOMAIN committed' = DOMAIN committed \cup {k} /\ committed'[k] = updating[k]
        /\ \A j \in DOMAIN committed : committed'[j] = committed[j]
    BY <1>3, <2>1 DEF With
  <2>6. k \notin DOMAIN current
    BY <1>3 DEF TypeInv, TablesOK
  <2>7. /\ DOMAIN current' = DOMAIN current \cup {k} /\ current'[k] = n
        /\ \A j \in DOMAIN current : current'[j] = current[j]
    BY <2>1, <2>6 DEF With
  <2> QED BY <1>1, <1>3, <2>2, <2>3, <2>4, <2>5, <2>7 DEF Commits, Commit
<1> QED BY <1>2, <1>3

\* What an abort takes to be last.
MadeLast(n) ==
  /\ sets[n].ids = <<nextStripe - 1>> /\ ToSet(sets[n].ids) \subseteq DOMAIN stripes
  /\ InUse(ToSet(sets[n].ids)) = {}

\* Client c aborts set n of key k.
Aborts(c, n, k) ==
  /\ k \notin DOMAIN committed /\ up' = up
  /\ DOMAIN stripes' = DOMAIN stripes \ ToSet(Entry(k))
  /\ \A id \in DOMAIN stripes' : stripes'[id] = stripes[id]
  /\ nextStripe' = nextStripe - Len(Entry(k))
  /\ DOMAIN updating' = DOMAIN updating \ {k}
  /\ \A j \in DOMAIN updating \ {k} : updating'[j] = updating[j]
  /\ Forgets(n) /\ Becomes(c, Idle)

\* Abort takes the entry of the key back, or ends the coordinator.
LEMMA AbortEffect ==
  ASSUME TypeInv, NEW c \in Clients, Abort(c),
         NEW n, n = client[c].set, NEW k, k = sets[n].key
  PROVE  /\ up /\ client[c].state = "sent" /\ n \in DOMAIN sets /\ sets[n].stage = "stored"
         /\ \/ Aborts(c, n, k)
            \/ /\ k \in DOMAIN committed /\ up' = FALSE
               /\ UNCHANGED <<stripes, nextStripe, updating, sets, client>>
         /\ ~MadeLast(n) => "bad_abort" \in trouble'
         /\ trouble \subseteq trouble' /\ fresh' = FALSE
         /\ left' \in [Kinds -> Nat] /\ left'.set = left.set
         /\ UNCHANGED <<size, nextBlock, committed, initial, storing, conns, disk, current>>
<1>1. n \in DOMAIN sets
  BY ClientShapes DEF TypeInv, Abort, Setting
<1>2. left' \in [Kinds -> Nat] /\ left'.set = left.set
  BY UseFacts DEF TypeInv, Abort, Kinds
<1>3. (~MadeLast(n) => "bad_abort" \in trouble') /\ trouble \subseteq trouble' /\ fresh' = FALSE
  BY DEF Abort, Suffer, MadeLast
<1>4. CASE k \in DOMAIN committed
  BY <1>1, <1>2, <1>3, <1>4 DEF Abort, Ends
<1>5. CASE k \notin DOMAIN committed
  <2>1. /\ stripes' = Drop(stripes, ToSet(Entry(k))) /\ updating' = Drop(updating, {k})
        /\ nextStripe' = nextStripe - Len(Entry(k)) /\ sets' = Drop(sets, {n})
        /\ client' = [client EXCEPT ![c] = Idle]
    BY <1>5 DEF Abort, TakenBack
  <2>2. Forgets(n)
    BY <2>1 DEF Forgets, Drop, Restrict
  <2>3. Becomes(c, Idle)
    BY <2>1, ClientChange DEF TypeInv
  <2>4. /\ DOMAIN updating' = DOMAIN updating \ {k}
        /\ \A j \in DOMAIN updating \ {k} : updating'[j] = updating[j]
    BY <2>1 DEF Drop, Restrict
  <2>5. /\ DOMAIN stripes' = DOMAIN stripes \ ToSet(Entry(k))
        /\ \A id \in DOMAIN stripes' : stripes'[id] = stripes[id]
    BY <2>1 DEF Drop, Restrict
  <2> QED BY <1>1, <1>2, <1>3, <1>5, <2>1, <2>2, <2>3, <2>4, <2>5 DEF Aborts, Abort
<1> QED BY <1>4, <1>5

\* Get notes where the object's stripe is, or ends the coordinator.
LEMMA GetEffect ==
  ASSUME TypeInv, NEW c \in Clients, NEW k \in Keys, Get(c, k)
  PROVE  /\ up /\ client[c].state \in {"idle", "got"}
         /\ \/ /\ k \in DOMAIN committed /\ ToSet(committed[k]) \subseteq DOMAIN stripes
               /\ up' = up
               /\ Becomes(c, [state |-> "get", want |-> current[k],
                              parts |-> <<Spot(committed[k][1])>>])
            \/ /\ ~(k \in DOMAIN committed /\ ToSet(committed[k]) \subseteq DOMAIN stripes)
               /\ up' = FALSE /\ client' = client
         /\ k \notin DOMAIN committed => "absent_key" \in trouble'
         /\ k \in DOMAIN committed /\ (\E o \in Clients : InDeletion(o, {k})) =>
              "deleted_early" \in trouble'
         /\ trouble \subseteq trouble'
         /\ left' \in [Kinds -> Nat] /\ left'.set = left.set
         /\ UNCHANGED <<size, nextStripe, nextBlock, stripes, updating, committed, initial, sets,
                        storing, conns, disk, current, fresh>>
<1>1. left' \in [Kinds -> Nat] /\ left'.set = left.set
  BY UseFacts DEF TypeInv, Get, Kinds
<1>2. /\ k \notin DOMAIN committed => "absent_key" \in trouble'
      /\ k \in DOMAIN committed /\ (\E o \in Clients : InDeletion(o, {k})) =>
           "deleted_early" \in trouble'
      /\ trouble \subseteq trouble'
  BY DEF Get, Suffer
<1>3. CASE k \in DOMAIN committed /\ ToSet(committed[k]) \subseteq DOMAIN stripes
  <2>1. client' = [client EXCEPT ![c] =
                     [state |-> "get", want |-> current[k],
                      parts |-> [i \in DOMAIN committed[k] |-> Spot(committed[k][i])]]]
    BY <1>3 DEF Get
  <2>2. [i \in DOMAIN committed[k] |-> Spot(committed[k][i])] = <<Spot(committed[k][1])>>
    <3>1. PICK id \in Int : committed[k] = <<id>>
      BY <1>3 DEF TypeInv, TablesOK, One
    <3>2. DOMAIN committed[k] = 1 .. 1 /\ committed[k][1] = id
      BY <3>1
    <3>3. [i \in 1 .. 1 |-> Spot(committed[k][i])] = <<Spot(committed[k][1])>>
      OBVIOUS
    <3> QED BY <3>2, <3>3
  <2>3. Becomes(c, [state |-> "get", want |-> current[k],
                    parts |-> <<Spot(committed[k][1])>>])
    BY <2>1, <2>2, ClientChange DEF TypeInv
  <2> QED BY <1>1, <1>2, <1>3, <2>3 DEF Get, Free, tables
<1>4. CASE ~(k \in DOMAIN committed /\ ToSet(committed[k]) \subseteq DOMAIN stripes)
  BY <1>1, <1>2, <1>4 DEF Get, Free, Ends, tables
<1> QED BY <1>3, <1>4

\* Read takes what lies where the get looked.
LEMMA ReadEffect ==
  ASSUME TypeInv, NEW c \in Clients, Read(c), NEW spot, spot = client[c].parts[1]
  PROVE  /\ up /\ client[c].state = "get"
         /\ Becomes(c, [state |-> "got", want |-> client[c].want, got |-> Stored(spot)])
         /\ UNCHANGED <<up, size, nextStripe, nextBlock, stripes, updating, committed, initial,
                        sets, storing, conns, disk, left, current, fresh, trouble>>
<1>1. client[c].parts = <<spot>>
  BY ClientShapes DEF TypeInv, Read
<1>2. There(c) = Stored(spot)
  <2>1. DOMAIN <<spot>> = 1 .. 1 /\ <<spot>>[1] = spot
    OBVIOUS
  <2>2. [i \in 1 .. 1 |-> Stored(<<spot>>[i])] = <<Stored(spot)>>
    OBVIOUS
  <2>3. [i \in DOMAIN client[c].parts |-> Stored(client[c].parts[i])] = <<Stored(spot)>>
    BY <1>1, <2>1, <2>2
  <2> QED BY <2>3, FlattenOne DEF There
<1>3. client' = [client EXCEPT ![c] = [state |-> "got", want |-> client[c].want,
                                       got |-> Stored(spot)]]
  BY <1>2 DEF Read, Got
<1> QED BY <1>3, ClientChange DEF TypeInv, Read, tables, history

\* A read breaks off, or two reads have each other's blocks: what they got is not what lay
\* there, and the trouble says so.
ReadsBreak ==
  /\ up /\ GetsEnd
  /\ "read_broken" \in trouble' \/ "transfers_meet" \in trouble'
  /\ trouble \subseteq trouble'
  /\ left' \in [Kinds -> Nat] /\ left'.set = left.set
  /\ UNCHANGED <<up, size, nextStripe, nextBlock, stripes, updating, committed, initial, sets,
                 storing, conns, disk, current, fresh>>

\* ReadTorn and ReadsCross answer gets and do nothing else.
LEMMA BrokenReadEffect ==
  ASSUME TypeInv, NEW c \in Clients, ReadTorn(c) \/ \E o \in Clients : ReadsCross(c, o)
  PROVE  ReadsBreak
<1>1. DOMAIN client = Clients
  BY DEF TypeInv, ClientsOK
<1>2. \A d, x : Got(d, x).state = "got" /\ DOMAIN Got(d, x) = {"state", "want", "got"}
  BY DEF Got
<1>3. CASE ReadTorn(c)
  <2>1. client[c].state = "get" /\ client' = [client EXCEPT ![c] = Got(c, <<Torn>>)]
    BY <1>3 DEF ReadTorn
  <2>2. GetsEnd
    BY <1>1, <1>2, <2>1 DEF GetsEnd
  <2>3. left' \in [Kinds -> Nat] /\ left'.set = left.set
    BY <1>3, UseFacts DEF TypeInv, ReadTorn, Kinds
  <2> QED BY <1>3, <2>2, <2>3 DEF ReadsBreak, ReadTorn, Suffer, tables
<1>4. ASSUME NEW o \in Clients, ReadsCross(c, o) PROVE ReadsBreak
  <2>1. /\ client[c].state = "get" /\ client[o].state = "get"
        /\ \E x, y : client' = [client EXCEPT ![c] = Got(c, x), ![o] = Got(o, y)]
    BY <1>4 DEF ReadsCross
  <2>2. GetsEnd
    BY <1>1, <1>2, <2>1 DEF GetsEnd
  <2>3. left' \in [Kinds -> Nat] /\ left'.set = left.set
    BY <1>4 DEF TypeInv, NumbersOK, ReadsCross
  <2> QED BY <1>4, <2>2, <2>3 DEF ReadsBreak, ReadsCross, Suffer, tables
<1> QED BY <1>3, <1>4

\* Client c is told of the stripes.
Lists(c, ids) ==
  /\ up /\ client[c].state \in {"idle", "got"}
  /\ Becomes(c, [state |-> "listed", ids |-> ids])
  /\ InUse(ids) # {} => "deleted_early" \in trouble'
  /\ trouble \subseteq trouble'
  /\ left' \in [Kinds -> Nat] /\ left'.set = left.set
  /\ UNCHANGED <<up, size, nextStripe, nextBlock, stripes, updating, committed, initial, sets,
                 storing, conns, disk, current, fresh>>

\* List notes stripes that are there.
LEMMA ListEffect ==
  ASSUME TypeInv, NEW c \in Clients, List(c)
  PROVE  \E ids \in SUBSET DOMAIN stripes : Lists(c, ids)
<1>1. left' \in [Kinds -> Nat] /\ left'.set = left.set
  BY UseFacts DEF TypeInv, List, Kinds
<1>2. PICK ids \in {DOMAIN stripes} \cup {{id} : id \in DOMAIN stripes} :
        /\ client' = [client EXCEPT ![c] = [state |-> "listed", ids |-> ids]]
        /\ Suffer(IF InUse(ids) = {} THEN {} ELSE {"deleted_early"})
  BY DEF List
<1>3. ids \subseteq DOMAIN stripes
  OBVIOUS
<1>4. Becomes(c, [state |-> "listed", ids |-> ids])
  BY <1>2, ClientChange DEF TypeInv
<1>5. (InUse(ids) # {} => "deleted_early" \in trouble') /\ trouble \subseteq trouble'
  BY <1>2 DEF Suffer
<1> QED BY <1>1, <1>3, <1>4, <1>5 DEF Lists, List, Free, tables

\* DeleteBlocks takes blocks away, or ends the coordinator.
LEMMA DeleteBlocksEffect ==
  ASSUME TypeInv, NEW c \in Clients, DeleteBlocks(c), NEW ids, ids = client[c].ids
  PROVE  /\ up /\ client[c].state = "listed" /\ ids \in SUBSET Int
         /\ \/ /\ ids \subseteq DOMAIN stripes /\ up' = up
               /\ DOMAIN disk' \subseteq DOMAIN disk
               /\ DOMAIN disk \ {Spot(id) : id \in ids} \subseteq DOMAIN disk'
               /\ \A spot \in DOMAIN disk' : disk'[spot] = disk[spot]
               /\ Becomes(c, [state |-> "deleting", ids |-> ids,
                              keys |-> UNION {stripes[id].objects : id \in ids}])
               /\ (MadeBySets(ids) # {} \/ InUse(ids) # {c}) => "deleted_early" \in trouble'
            \/ ~(ids \subseteq DOMAIN stripes) /\ up' = FALSE /\ UNCHANGED <<disk, client>>
         /\ trouble \subseteq trouble'
         /\ left' \in [Kinds -> Nat] /\ left'.set = left.set
         /\ UNCHANGED <<size, nextStripe, nextBlock, stripes, updating, committed, initial, sets,
                        storing, conns, current, fresh>>
<1>1. ids \in SUBSET Int
  BY ClientShapes DEF TypeInv, DeleteBlocks
<1>0. left \in [Kinds -> Nat]
  BY DEF TypeInv, NumbersOK
<1>2. CASE ids \subseteq DOMAIN stripes
  <2>0. PICK kept \in SUBSET {Spot(id) : id \in ids} :
          /\ disk' = Drop(disk, {Spot(id) : id \in ids} \ kept)
          /\ IF kept = {} THEN UNCHANGED left ELSE Use("fail")
    BY <1>2 DEF DeleteBlocks
  <2> DEFINE gone == {Spot(id) : id \in ids} \ kept
  <2>6. disk' = Drop(disk, gone) /\ gone \subseteq {Spot(id) : id \in ids}
    BY <2>0
  <2> HIDE DEF gone
  <2>7. /\ DOMAIN Drop(disk, gone) = DOMAIN disk \ gone
        /\ \A spot \in DOMAIN disk \ gone : Drop(disk, gone)[spot] = disk[spot]
    BY DropFacts
  <2>1. /\ client' = [client EXCEPT ![c] =
                        [state |-> "deleting", ids |-> ids,
                         keys |-> UNION {stripes[id].objects : id \in ids}]]
        /\ Suffer(IF MadeBySets(ids) # {} \/ InUse(ids) # {c} THEN {"deleted_early"} ELSE {})
    BY <1>2 DEF DeleteBlocks
  <2>2. /\ DOMAIN disk' \subseteq DOMAIN disk
        /\ DOMAIN disk \ {Spot(id) : id \in ids} \subseteq DOMAIN disk'
        /\ \A spot \in DOMAIN disk' : disk'[spot] = disk[spot]
    BY <2>6, <2>7
  <2>5. left' \in [Kinds -> Nat] /\ left'.set = left.set
    <3>1. CASE Use("fail")
      BY <3>1, UseFacts DEF TypeInv, Kinds
    <3> QED BY <1>0, <2>0, <3>1
  <2>3. Becomes(c, [state |-> "deleting", ids |-> ids,
                    keys |-> UNION {stripes[id].objects : id \in ids}])
    BY <2>1, ClientChange DEF TypeInv
  <2>4. /\ trouble \subseteq trouble'
        /\ (MadeBySets(ids) # {} \/ InUse(ids) # {c}) => "deleted_early" \in trouble'
    BY <2>1 DEF Suffer
  <2> QED BY <1>1, <1>2, <2>2, <2>3, <2>4, <2>5 DEF DeleteBlocks, tables
<1>3. CASE ~(ids \subseteq DOMAIN stripes)
  BY <1>0, <1>1, <1>3 DEF DeleteBlocks, Ends, tables
<1> QED BY <1>2, <1>3

\* EraseStripes takes the stripes from the table.
LEMMA EraseStripesEffect ==
  ASSUME TypeInv, NEW c \in Clients, EraseStripes(c), NEW ids, ids = client[c].ids,
         NEW keys, keys = client[c].keys
  PROVE  /\ up /\ client[c].state = "deleting" /\ ids \in SUBSET Int /\ keys \in SUBSET Keys
         /\ DOMAIN stripes' = DOMAIN stripes \ ids
         /\ \A id \in DOMAIN stripes' : stripes'[id] = stripes[id]
         /\ Becomes(c, [state |-> "erased", ids |-> ids, keys |-> keys])
         /\ UNCHANGED <<up, size, nextStripe, nextBlock, updating, committed, initial, sets,
                        storing, conns, disk, left, current, fresh, trouble>>
<1>1. client[c] \in [state : {"deleting", "erased"}, ids : SUBSET Int, keys : SUBSET Keys]
  BY ClientShapes DEF TypeInv, EraseStripes, Removing
<1>2. [client[c] EXCEPT !.state = "erased"] = [state |-> "erased", ids |-> ids, keys |-> keys]
  BY <1>1
<1>3. client' = [client EXCEPT ![c] = [client[c] EXCEPT !.state = "erased"]]
  BY DEF EraseStripes
<1>4. Becomes(c, [state |-> "erased", ids |-> ids, keys |-> keys])
  BY <1>2, <1>3, ClientChange DEF TypeInv
<1>5. /\ DOMAIN stripes' = DOMAIN stripes \ ids
      /\ \A id \in DOMAIN stripes' : stripes'[id] = stripes[id]
  BY DEF EraseStripes, Drop, Restrict
<1> QED BY <1>1, <1>4, <1>5 DEF EraseStripes, history

\* ForgetObjects takes the objects from the table.
LEMMA ForgetObjectsEffect ==
  ASSUME TypeInv, NEW c \in Clients, ForgetObjects(c), NEW keys, keys = client[c].keys
  PROVE  /\ up /\ client[c].state = "erased"
         /\ DOMAIN committed' = DOMAIN committed \ keys
         /\ \A k \in DOMAIN committed' : committed'[k] = committed[k]
         /\ DOMAIN current' = DOMAIN current \ keys
         /\ \A k \in DOMAIN current' : current'[k] = current[k]
         /\ Becomes(c, Idle)
         /\ UNCHANGED <<up, size, nextStripe, nextBlock, stripes, updating, initial, sets,
                        storing, conns, disk, left, fresh, trouble>>
<1>1. Becomes(c, Idle)
  BY ClientChange DEF ForgetObjects, TypeInv
<1> QED BY <1>1 DEF ForgetObjects, Forgotten, Drop, Restrict

\* Reset empties the tables and sets the numbers to 0.
LEMMA ResetEffect ==
  ASSUME TypeInv, NEW c \in Clients, Reset(c)
  PROVE  /\ up /\ client[c].state \in {"idle", "got"}
         /\ nextStripe' = 0 /\ nextBlock' = 0 /\ fresh' = FALSE
         /\ DOMAIN stripes' = {} /\ DOMAIN updating' = {} /\ DOMAIN committed' = {}
         /\ DOMAIN current' = {}
         /\ trouble \subseteq trouble'
         /\ ~(DOMAIN sets = {} /\ \A o \in Clients \ {c} : client[o].state \in {"idle", "got"}) =>
              "reset_early" \in trouble'
         /\ left' \in [Kinds -> Nat] /\ left'.set = left.set
         /\ UNCHANGED <<up, size, initial, sets, client, storing, conns, disk>>
<1>1. left' \in [Kinds -> Nat] /\ left'.set = left.set
  BY UseFacts DEF TypeInv, Reset, Kinds
<1> QED BY <1>1 DEF Reset, Free, Suffer, Empty, work

\* Snapshot notes where the stripes are.
LEMMA SnapshotEffect ==
  ASSUME TypeInv, NEW c \in Clients, Snapshot(c)
  PROVE  /\ up /\ fresh' = TRUE
         /\ DOMAIN initial' = DOMAIN stripes
         /\ \A id \in DOMAIN stripes : initial'[id] = stripes[id].at
         /\ left' \in [Kinds -> Nat] /\ left'.set = left.set
         /\ UNCHANGED <<up, size, nextStripe, nextBlock, stripes, updating, committed, sets,
                        client, storing, conns, disk, current, trouble>>
<1>1. left' \in [Kinds -> Nat] /\ left'.set = left.set
  BY UseFacts DEF TypeInv, Snapshot, Kinds
<1> QED BY <1>1 DEF Snapshot, Free, work

\* Revert puts the stripes where the snapshot noted them.
LEMMA RevertEffect ==
  ASSUME TypeInv, NEW c \in Clients, Revert(c)
  PROVE  /\ up /\ DOMAIN stripes' = DOMAIN stripes
         /\ \A id \in DOMAIN stripes :
              /\ stripes'[id].block = stripes[id].block
              /\ stripes'[id].objects = stripes[id].objects
              /\ stripes'[id].at = IF id \in DOMAIN initial THEN initial[id] ELSE stripes[id].at
              /\ stripes'[id] \in [block : 0 .. nextBlock, at : Proxies, objects : SUBSET Keys]
         /\ trouble \subseteq trouble'
         /\ ~fresh /\ stripes' # stripes => "stale_revert" \in trouble'
         /\ left' \in [Kinds -> Nat] /\ left'.set = left.set
         /\ UNCHANGED <<up, size, nextStripe, nextBlock, updating, committed, initial, sets,
                        client, storing, conns, disk, current, fresh>>
<1>1. left' \in [Kinds -> Nat] /\ left'.set = left.set
  BY UseFacts DEF TypeInv, Revert, Kinds
<1>2. ASSUME NEW id \in DOMAIN stripes
      PROVE  /\ stripes'[id].block = stripes[id].block
             /\ stripes'[id].objects = stripes[id].objects
             /\ stripes'[id].at = IF id \in DOMAIN initial THEN initial[id] ELSE stripes[id].at
             /\ stripes'[id] \in [block : 0 .. nextBlock, at : Proxies, objects : SUBSET Keys]
  <2>1. stripes[id] \in [block : 0 .. nextBlock, at : Proxies, objects : SUBSET Keys]
    BY DEF TypeInv, StripesOK
  <2>2. stripes'[id] = IF id \in DOMAIN initial THEN [stripes[id] EXCEPT !.at = initial[id]]
                                                ELSE stripes[id]
    BY DEF Revert
  <2>3. id \in DOMAIN initial => initial[id] \in Proxies
    BY DEF TypeInv, TablesOK
  <2> QED BY <2>1, <2>2, <2>3
<1>3. DOMAIN stripes' = DOMAIN stripes
  BY DEF Revert
<1>4. trouble \subseteq trouble' /\ (~fresh /\ stripes' # stripes => "stale_revert" \in trouble')
  BY DEF Revert, Suffer
<1> QED BY <1>1, <1>2, <1>3, <1>4 DEF Revert, Free, work

\* Stripe id goes to p.
Relocates(id, p) ==
  /\ up /\ Spot(id) \in DOMAIN disk
  /\ DOMAIN stripes' = DOMAIN stripes
  /\ \A jd \in DOMAIN stripes \ {id} : stripes'[jd] = stripes[jd]
  /\ stripes'[id] = [block |-> stripes[id].block, at |-> p, objects |-> stripes[id].objects]
  /\ DOMAIN disk \subseteq DOMAIN disk'
  /\ DOMAIN disk' \subseteq DOMAIN disk \cup {<<stripes[id].block, p>>}
  /\ "lost" \notin trouble' => <<stripes[id].block, p>> \in DOMAIN disk'
  /\ /\ "read_broken" \notin trouble' /\ "old_kept" \notin trouble'
     /\ <<stripes[id].block, p>> \in DOMAIN disk'
     => disk'[<<stripes[id].block, p>>] = disk[Spot(id)]
  /\ \A spot \in DOMAIN disk : spot # <<stripes[id].block, p>> => disk'[spot] = disk[spot]
  /\ Unwritten(id) => "repaired_early" \in trouble'
  /\ trouble \subseteq trouble'
  /\ left' \in [Kinds -> Nat] /\ left'.set = left.set
  /\ UNCHANGED <<up, size, nextStripe, nextBlock, updating, committed, initial, sets, client,
                 storing, conns, current, fresh>>

\* Repair moves a stripe, and writes its block to the other place unless something fails.
LEMMA RepairEffect ==
  ASSUME TypeInv, NEW id \in DOMAIN stripes, Repair(id)
  PROVE  \E p \in Proxies \ {stripes[id].at} : Relocates(id, p)
<1>1. left' \in [Kinds -> Nat] /\ left'.set = left.set
  BY UseFacts DEF TypeInv, Repair, Kinds
<1>2. PICK p \in Proxies \ {stripes[id].at} :
        LET spot == <<stripes[id].block, p>>
            early == IF Unwritten(id) THEN {"repaired_early"} ELSE {}
        IN /\ stripes' = [stripes EXCEPT ![id].at = p]
           /\ \/ disk' = With(disk, spot, disk[Spot(id)]) /\ Suffer(early)
              \/ disk' = With(disk, spot, Torn) /\ Suffer(early \cup {"read_broken"})
              \/ /\ UNCHANGED disk
                 /\ Suffer(early \cup IF spot \in DOMAIN disk THEN {"old_kept"} ELSE {"lost"})
  BY DEF Repair
<1>3. stripes[id] \in [block : 0 .. nextBlock, at : Proxies, objects : SUBSET Keys]
  BY DEF TypeInv, StripesOK
<1>4. stripes'[id] = [stripes[id] EXCEPT !.at = p]
  BY <1>2
<1>5. stripes'[id] = [block |-> stripes[id].block, at |-> p, objects |-> stripes[id].objects]
  BY <1>3, <1>4
<1>6. /\ DOMAIN stripes' = DOMAIN stripes
      /\ \A jd \in DOMAIN stripes \ {id} : stripes'[jd] = stripes[jd]
  BY <1>2
<1> PICK there : there = <<stripes[id].block, p>>
  OBVIOUS
<1>7. /\ DOMAIN disk \subseteq DOMAIN disk' /\ DOMAIN disk' \subseteq DOMAIN disk \cup {there}
      /\ "lost" \notin trouble' => there \in DOMAIN disk'
      /\ "read_broken" \notin trouble' /\ "old_kept" \notin trouble' /\ there \in DOMAIN disk' =>
           disk'[there] = disk[Spot(id)]
      /\ \A spot \in DOMAIN disk : spot # there => disk'[spot] = disk[spot]
      /\ Unwritten(id) => "repaired_early" \in trouble'
      /\ trouble \subseteq trouble'
  <2> PICK early : early = IF Unwritten(id) THEN {"repaired_early"} ELSE {}
    OBVIOUS
  <2>4. ASSUME NEW x, disk' = With(disk, there, x)
        PROVE  /\ DOMAIN disk' = DOMAIN disk \cup {there} /\ disk'[there] = x
               /\ \A spot \in DOMAIN disk : spot # there => disk'[spot] = disk[spot]
    BY <2>4 DEF With
  <2>1. CASE disk' = With(disk, there, disk[Spot(id)]) /\ Suffer(early)
    <3>1. early \subseteq trouble' /\ trouble \subseteq trouble'
      BY <2>1 DEF Suffer
    <3> QED BY <2>1, <2>4, <3>1
  <2>2. CASE disk' = With(disk, there, Torn) /\ Suffer(early \cup {"read_broken"})
    <3>1. /\ early \subseteq trouble' /\ trouble \subseteq trouble'
          /\ "read_broken" \in trouble'
      BY <2>2 DEF Suffer
    <3> QED BY <2>2, <2>4, <3>1
  <2>3. CASE /\ disk' = disk
             /\ Suffer(early \cup IF there \in DOMAIN disk THEN {"old_kept"} ELSE {"lost"})
    BY <2>3 DEF Suffer
  <2> QED BY <1>2, <2>1, <2>2, <2>3
<1> QED BY <1>1, <1>5, <1>6, <1>7 DEF Relocates, Repair

\* Lose takes the blocks of one stripe away.
LEMMA LoseEffect ==
  ASSUME TypeInv, NEW id \in DOMAIN stripes, Lose(id)
  PROVE  /\ up
         /\ DOMAIN disk' = DOMAIN disk \ {Spot(id)}
         /\ \A spot \in DOMAIN disk' : disk'[spot] = disk[spot]
         /\ "lost" \in trouble' /\ trouble \subseteq trouble'
         /\ left' \in [Kinds -> Nat] /\ left'.set = left.set
         /\ UNCHANGED <<up, size, nextStripe, nextBlock, stripes, updating, committed, initial,
                        sets, client, storing, conns, current, fresh>>
<1>1. left' \in [Kinds -> Nat] /\ left'.set = left.set
  BY UseFacts DEF TypeInv, Lose, Kinds
<1>2. /\ DOMAIN disk' = DOMAIN disk \ {Spot(id)}
      /\ \A spot \in DOMAIN disk' : disk'[spot] = disk[spot]
  BY DEF Lose, Drop, Restrict
<1> QED BY <1>1, <1>2 DEF Lose, Suffer, tables

----------------------------------------------------------------------------
(* Every action keeps the types. *)

\* A set that goes to another stage, other than when a connection is there.
LEMMA MovedTypes ==
  ASSUME TypeInv, NEW n \in DOMAIN sets, NEW s \in Stages \ {"called", "stored"}, Moved(n, s),
         sets[n].stage # "answered",
         s = "numbering" => Len(sets[n].ids) < size,
         s \in Listing => Len(sets[n].ids) = size,
         s = "answered" => \A p, q \in sets'[n].proxy : p = q,
         UNCHANGED <<size, client, conns, left>>
  PROVE  SetsOK' /\ ClientsOK' /\ ClientsApart' /\ ConnsOK' /\ StoredOK'
<1> USE DEF TypeInv
<1>1. SetsOK'
  <2>1. SetOK(sets[n])'
    BY DEF SetsOK, SetOK, Moved
  <2>2. ASSUME NEW m \in DOMAIN sets \ {n} PROVE SetOK(sets[m])'
    BY DEF SetsOK, SetOK, Moved
  <2> QED BY <2>1, <2>2 DEF SetsOK, Moved
<1>2. ClientsOK' /\ ClientsApart'
  BY DEF ClientsOK, ClientOK, ClientsApart, Setting, Moved
<1>3. ConnsOK'
  BY DEF ConnsOK, Sent, Moved
<1>4. StoredOK'
  BY DEF StoredOK, Sent, Moved
<1> QED BY <1>1, <1>2, <1>3, <1>4

\* A client that does something else than a set.
LEMMA ClientTypes ==
  ASSUME TypeInv, NEW c \in Clients, NEW x, Becomes(c, x),
         client[c].state # "sent", x.state \notin {"set", "sent"}, ClientOK(x),
         UNCHANGED <<sets, conns>>
  PROVE  ClientsOK' /\ ClientsApart' /\ ConnsOK' /\ StoredOK'
<1> USE DEF TypeInv
<1>1. ClientsOK'
  <2>1. ClientOK(x)'
    <3>1. (DOMAIN sets)' = DOMAIN sets
      OBVIOUS
    <3> QED BY <3>1 DEF ClientOK
  <2>2. ASSUME NEW d \in Clients PROVE ClientOK(client[d])'
    <3>1. CASE d = c
      BY <2>1, <3>1 DEF Becomes
    <3>2. CASE d # c
      BY <3>2 DEF ClientsOK, ClientOK, Becomes
    <3> QED BY <3>1, <3>2
  <2> QED BY <2>2 DEF ClientsOK, Becomes
<1>2. ClientsApart'
  BY DEF ClientsApart, Setting, Becomes
<1>3. \A n : Sent(n) => Sent(n)'
  BY DEF Sent, Becomes
<1>4. ConnsOK' /\ StoredOK'
  BY <1>3 DEF ConnsOK, StoredOK
<1> QED BY <1>1, <1>2, <1>4

\* A client that ends its set, which is then forgotten.
LEMMA ForgetTypes ==
  ASSUME TypeInv, NEW c \in Clients, NEW n \in DOMAIN sets, Forgets(n), Becomes(c, Idle),
         client[c].state = "sent", client[c].set = n, sets[n].stage = "stored",
         left'.set = left.set, UNCHANGED <<size, conns>>
  PROVE  SetsOK' /\ ClientsOK' /\ ClientsApart' /\ ConnsOK' /\ StoredOK'
<1> USE DEF TypeInv
<1>1. SetsOK'
  <2>1. ASSUME NEW m \in DOMAIN sets' PROVE m \in Nat /\ left'.set < m /\ SetOK(sets[m])'
    BY DEF SetsOK, SetOK, Forgets
  <2> QED BY <2>1 DEF SetsOK
<1>2. \A d \in Clients \ {c} : Setting(d) => client[d].set # n
  BY DEF ClientsApart, Setting
<1>3. ClientsOK'
  <2>1. ASSUME NEW d \in Clients PROVE ClientOK(client[d])'
    <3>1. CASE d = c
      BY <3>1 DEF ClientOK, Becomes
    <3>2. CASE d # c
      <4>1. CASE Setting(d)
        <5>1. client[d] \in [state : {"set", "sent"}, set : DOMAIN sets]
          BY <4>1, ClientShapes
        <5>2. client'[d] \in [state : {"set", "sent"}, set : DOMAIN sets']
          BY <1>2, <3>2, <4>1, <5>1 DEF Becomes, Forgets
        <5> QED BY <5>2 DEF ClientOK
      <4>2. CASE ~Setting(d)
        BY <3>2, <4>2 DEF ClientsOK, ClientOK, Setting, Becomes
      <4> QED BY <4>1, <4>2
    <3> QED BY <3>1, <3>2
  <2> QED BY <2>1 DEF ClientsOK, Becomes
<1>4. ClientsApart'
  BY DEF ClientsApart, Setting, Becomes, Idle
<1>5. \A m \in DOMAIN sets \ {n} : Sent(m) => Sent(m)'
  BY DEF Sent, Becomes
<1>6. ConnsOK'
  <2>1. \A k \in conns : k.set # n
    BY DEF ConnsOK
  <2> QED BY <1>5, <2>1 DEF ConnsOK, Forgets
<1>7. StoredOK'
  BY <1>5 DEF StoredOK, Forgets
<1> QED BY <1>1, <1>3, <1>4, <1>6, <1>7

\* The sets are what they were.
LEMMA SetsKept ==
  ASSUME TypeInv, left'.set = left.set, UNCHANGED <<size, sets>> PROVE SetsOK'
BY DEF TypeInv, SetsOK, SetOK

\* Neither sets nor clients change.
LEMMA CallsKept ==
  ASSUME TypeInv, left'.set = left.set, UNCHANGED <<size, sets, client, conns>>
  PROVE  SetsOK' /\ ClientsOK' /\ ClientsApart' /\ ConnsOK' /\ StoredOK'
BY SetsKept DEF TypeInv, ClientsOK, ClientOK, ClientsApart, Setting, ConnsOK, StoredOK, Sent

\* The threads that accept are what they were.
LEMMA ThreadsKept ==
  ASSUME TypeInv, storing' \subseteq storing, UNCHANGED size PROVE StoringOK'
BY DEF TypeInv, StoringOK, ThreadOK

\* The tables are what they were.
LEMMA TablesKept ==
  ASSUME TypeInv, UNCHANGED <<updating, committed, current, initial>> PROVE TablesOK'
BY DEF TypeInv, TablesOK, One

\* No stripe is new.
LEMMA StripesKept ==
  ASSUME TypeInv, DOMAIN stripes' \subseteq DOMAIN stripes, nextBlock' = nextBlock,
         \A id \in DOMAIN stripes' : stripes'[id] = stripes[id]
  PROVE  StripesOK'
BY DEF TypeInv, StripesOK

\* Clients whose gets end wait for nothing else.
LEMMA GetsEndTypes ==
  ASSUME TypeInv, GetsEnd, DOMAIN sets' = DOMAIN sets
  PROVE  /\ ClientsOK' /\ ClientsApart' /\ Waiting' = Waiting
         /\ \A m : Sent(m)' <=> Sent(m)
<1> USE DEF TypeInv
<1>0. Stuck.state = "stuck"
  BY DEF Stuck
<1>1. ASSUME NEW d \in Clients PROVE ClientOK(client[d])'
  <2>1. ClientOK(client[d])
    BY DEF ClientsOK
  <2>2. CASE client'[d] = client[d]
    BY <2>1, <2>2 DEF ClientOK
  <2>3. CASE client'[d] # client[d]
    <3>1. CASE client'[d] = Stuck
      BY <3>1 DEF ClientOK
    <3>2. CASE client'[d].state = "got" /\ DOMAIN client'[d] = {"state", "want", "got"}
      BY <3>2 DEF ClientOK
    <3> QED BY <2>3, <3>1, <3>2 DEF GetsEnd
  <2> QED BY <2>2, <2>3
<1>2. ClientsOK'
  BY <1>1 DEF ClientsOK, GetsEnd
<1>3. \A d \in Clients : /\ Setting(d)' <=> Setting(d)
                         /\ Setting(d) => client'[d] = client[d]
  BY <1>0 DEF Setting, GetsEnd
<1>4. ClientsApart'
  BY <1>3 DEF ClientsApart
<1>5. Waiting' = Waiting
  BY <1>3 DEF Waiting, Setting
<1>6. \A m : Sent(m)' <=> Sent(m)
  BY <1>3 DEF Sent, Setting
<1> QED BY <1>2, <1>4, <1>5, <1>6

\* A get that hangs ends.
LEMMA HangsEnd ==
  ASSUME Hangs PROVE GetsEnd
BY DEF Hangs, GetsEnd

\* Set keeps the types.
LEMMA SetTypes ==
  ASSUME TypeInv, NEW c \in Clients, NEW k \in Keys, Set(c, k) PROVE TypeInv'
<1> USE DEF TypeInv
<1> PICK n : n = left.set
  OBVIOUS
<1>1. NumbersOK' /\ StripesOK' /\ TablesOK' /\ StoringOK'
  BY SetEffect, StripesKept, TablesKept, ThreadsKept DEF NumbersOK
<1>2. /\ n \in Nat /\ n \notin DOMAIN sets /\ left'.set = n - 1
      /\ Becomes(c, [state |-> "set", set |-> n])
  BY SetEffect
<1>3. /\ DOMAIN sets' = DOMAIN sets \cup {n} /\ \A m \in DOMAIN sets : sets'[m] = sets[m]
      /\ sets'[n] = [key |-> k, stage |-> "called", ids |-> <<>>, id |-> 0,
                     listed |-> <<>>, parts |-> <<>>, proxy |-> {}]
      /\ UNCHANGED <<size, conns>> /\ client[c].state \in {"idle", "got"}
  BY SetEffect
<1>4. SetsOK'
  <2>1. SetOK(sets[n])'
    BY <1>3 DEF SetOK, SetRecord, Stages, Listing, NumbersOK
  <2>2. ASSUME NEW m \in DOMAIN sets PROVE left'.set < m /\ SetOK(sets[m])' /\ m \in Nat
    BY <1>2, <1>3 DEF SetsOK, SetOK
  <2> QED BY <1>2, <1>3, <2>1, <2>2 DEF SetsOK
<1>5. ASSUME NEW d \in Clients PROVE ClientOK(client[d])'
  <2>1. CASE d = c
    BY <1>2, <1>3, <2>1 DEF ClientOK, Becomes
  <2>2. CASE d # c
    BY <1>2, <1>3, <2>2 DEF ClientsOK, ClientOK, Becomes
  <2> QED BY <2>1, <2>2
<1>6. ClientsOK'
  BY <1>2, <1>5 DEF ClientsOK, Becomes
<1>7. ClientsApart'
  <2>1. \A d \in Clients : Setting(d) => client[d].set # n
    BY <1>2, ClientShapes
  <2> QED BY <1>2, <2>1 DEF ClientsApart, Setting, Becomes
<1>8. \A m : Sent(m) => Sent(m)'
  BY <1>2, <1>3 DEF Sent, Becomes
<1>9. ConnsOK' /\ StoredOK'
  BY <1>3, <1>8 DEF ConnsOK, StoredOK
<1> QED BY <1>1, <1>4, <1>6, <1>7, <1>9

\* Check keeps the types.
LEMMA CheckTypes ==
  ASSUME TypeInv, NEW n \in DOMAIN sets, Check(n) PROVE TypeInv'
<1>1. NumbersOK' /\ StripesOK' /\ TablesOK' /\ StoringOK'
  BY CheckEffect, StripesKept, TablesKept, ThreadsKept DEF TypeInv, NumbersOK
<1>2. CASE sets' = sets
  BY <1>1, <1>2, CheckEffect, CallsKept DEF TypeInv
<1>3. CASE Moved(n, "checked")
  BY <1>1, <1>3, CheckEffect, MovedTypes DEF TypeInv, Stages, Listing
<1> QED BY <1>2, <1>3, CheckEffect

\* Number keeps the types.
LEMMA NumberTypes ==
  ASSUME TypeInv, NEW n \in DOMAIN sets, Number(n) PROVE TypeInv'
<1>1. NumbersOK' /\ StripesOK' /\ TablesOK' /\ StoringOK'
  BY NumberEffect, StripesKept, TablesKept, ThreadsKept DEF TypeInv, NumbersOK
<1> QED BY <1>1, NumberEffect, MovedTypes DEF TypeInv, Stages, Listing

\* MakeStripe keeps the types.
LEMMA MakeStripeTypes ==
  ASSUME TypeInv, NEW n \in DOMAIN sets, MakeStripe(n) PROVE TypeInv'
<1> USE DEF TypeInv
<1> DEFINE s == sets[n]
<1> PICK id : id = sets[n].id
  OBVIOUS
<1>0. PICK p \in Proxies : Makes(n, id, p)
  BY MakeStripeEffect
<1>1. /\ s.stage = "numbering" /\ id \in Int
      /\ DOMAIN stripes' = DOMAIN stripes \cup {id}
      /\ stripes'[id] = [block |-> nextBlock, at |-> p,
                         objects |-> IF s.ids = <<>> THEN {s.key} ELSE {}]
      /\ \A jd \in DOMAIN stripes : jd # id => stripes'[jd] = stripes[jd]
      /\ DOMAIN sets' = DOMAIN sets /\ \A m \in DOMAIN sets \ {n} : sets'[m] = sets[m]
      /\ sets'[n] \in SetRecord
      /\ sets'[n].key = s.key /\ sets'[n].stage = "checked"
      /\ sets'[n].ids = Append(s.ids, id)
      /\ sets'[n].parts = Append(s.parts, <<nextBlock, p>>)
      /\ sets'[n].listed = IF s.ids = <<>> THEN Append(s.listed, id) ELSE s.listed
      /\ nextStripe' = id + 1 /\ nextBlock' = nextBlock + 1
      /\ UNCHANGED <<up, size, updating, committed, initial, client, storing, conns, left,
                     current>>
  BY <1>0 DEF Makes
<1>2. SetOK(s) /\ size \in Nat \ {0} /\ nextBlock \in Nat
  BY DEF SetsOK, NumbersOK
<1>3. s.ids \in Seq(Int) /\ s.parts \in Seq(Nat \X Proxies) /\ s.key \in Keys
  BY <1>2 DEF SetOK, SetRecord
<1>4. NumbersOK' /\ TablesOK' /\ StoringOK'
  BY <1>1, TablesKept, ThreadsKept DEF NumbersOK
<1>5. StripesOK'
  <2>1. ASSUME NEW jd \in DOMAIN stripes'
        PROVE  stripes'[jd] \in [block : 0 .. nextBlock', at : Proxies, objects : SUBSET Keys]
    <3>1. CASE jd = id
      BY <1>1, <1>2, <1>3, <3>1
    <3>2. CASE jd # id
      <4>1. stripes'[jd] = stripes[jd] /\ jd \in DOMAIN stripes
        BY <1>1, <3>2
      <4>2. stripes[jd] \in [block : 0 .. nextBlock, at : Proxies, objects : SUBSET Keys]
        BY <4>1 DEF StripesOK
      <4>3. 0 .. nextBlock \subseteq 0 .. nextBlock'
        BY <1>1, <1>2
      <4> QED BY <4>1, <4>2, <4>3
    <3> QED BY <3>1, <3>2
  <2> QED BY <1>1, <2>1 DEF StripesOK
<1>6. SetOK(sets[n])'
  <2>1. Len(s.ids) < size /\ Len(s.parts) = Len(s.ids)
    BY <1>1, <1>2 DEF SetOK
  <2>2. Len(Append(s.ids, id)) = Len(s.ids) + 1 /\ Append(s.ids, id) # <<>>
    <3>1. Len(Append(s.ids, id)) = Len(s.ids) + 1 /\ Len(s.ids) \in Nat
      BY <1>1, <1>3
    <3>2. Len(Append(s.ids, id)) # 0
      BY <3>1
    <3> QED BY <3>1, <3>2
  <2>3. Len(Append(s.parts, <<nextBlock, p>>)) = Len(s.parts) + 1
    BY <1>3
  <2>4. Len(sets'[n].ids) <= size /\ Len(sets'[n].parts) = Len(sets'[n].ids)
    BY <1>1, <1>2, <1>3, <2>1, <2>2, <2>3
  <2>5. sets'[n].listed = <<sets'[n].ids[1]>>
    <3>1. CASE s.ids = <<>>
      BY <1>1, <1>2, <3>1 DEF SetOK
    <3>2. CASE s.ids # <<>>
      BY <1>1, <1>2, <1>3, <3>2 DEF SetOK
    <3> QED BY <3>1, <3>2
  <2> QED BY <1>1, <2>2, <2>4, <2>5 DEF SetOK, Listing
<1>7. SetsOK'
  <2>1. ASSUME NEW m \in DOMAIN sets PROVE SetOK(sets[m])'
    <3>1. CASE m = n
      BY <1>6, <3>1
    <3>2. CASE m # n
      BY <1>1, <3>2 DEF SetsOK, SetOK
    <3> QED BY <3>1, <3>2
  <2> QED BY <1>1, <2>1 DEF SetsOK
<1>8. ClientsOK' /\ ClientsApart'
  BY <1>1 DEF ClientsOK, ClientOK, ClientsApart, Setting
<1>9. ConnsOK' /\ StoredOK'
  <2>1. \A m : Sent(m)' <=> Sent(m)
    BY <1>1 DEF Sent
  <2>2. ConnsOK'
    BY <1>1, <2>1 DEF ConnsOK
  <2>3. StoredOK'
    BY <1>1, <2>1 DEF StoredOK
  <2> QED BY <2>2, <2>3
<1> QED BY <1>4, <1>5, <1>7, <1>8, <1>9

\* Enter keeps the types.
LEMMA EnterTypes ==
  ASSUME TypeInv, NEW n \in DOMAIN sets, Enter(n) PROVE TypeInv'
<1> USE DEF TypeInv
<1>1. NumbersOK' /\ StripesOK' /\ StoringOK'
  BY EnterEffect, StripesKept, ThreadsKept DEF NumbersOK
<1>2. SetOK(sets[n]) /\ size \in Nat \ {0}
  BY DEF SetsOK, NumbersOK
<1>3. sets[n].key \in Keys /\ One(sets[n].listed)
  <2>1. sets[n].ids # <<>> /\ sets[n].ids \in Seq(Int) /\ sets[n].key \in Keys
    BY <1>2, EnterEffect DEF SetOK, SetRecord
  <2>2. sets[n].ids[1] \in Int
    BY <2>1
  <2> QED BY <1>2, <2>1, <2>2 DEF SetOK, One
<1>4. /\ DOMAIN updating' = DOMAIN updating \cup {sets[n].key}
      /\ updating'[sets[n].key] = sets[n].listed
      /\ \A k \in DOMAIN updating : k # sets[n].key => updating'[k] = updating[k]
      /\ UNCHANGED <<committed, current, initial>>
  BY EnterEffect
<1>5. TablesOK'
  <2>1. \A k \in DOMAIN updating' : One(updating'[k])
    BY <1>3, <1>4 DEF TablesOK
  <2>2. DOMAIN updating' \subseteq Keys
    BY <1>3, <1>4 DEF TablesOK
  <2> QED BY <1>4, <2>1, <2>2 DEF TablesOK, One
<1>6. SetsOK' /\ ClientsOK' /\ ClientsApart' /\ ConnsOK' /\ StoredOK'
  BY EnterEffect, MovedTypes DEF Stages, Listing
<1> QED BY <1>1, <1>5, <1>6

\* Dispatch keeps the types.
LEMMA DispatchTypes ==
  ASSUME TypeInv, NEW n \in DOMAIN sets, Dispatch(n) PROVE TypeInv'
<1>1. NumbersOK' /\ StripesOK' /\ TablesOK'
  BY DispatchEffect, StripesKept, TablesKept DEF TypeInv, NumbersOK
<1>2. CASE sets' = sets /\ storing' = storing
  BY <1>1, <1>2, DispatchEffect, CallsKept, ThreadsKept DEF TypeInv
<1>3. CASE /\ LastStripe \in DOMAIN stripes /\ Moved(n, "answered")
           /\ sets'[n].proxy = {stripes[LastStripe].at}
           /\ storing' = storing \cup {[proxy |-> stripes[LastStripe].at, set |-> n,
                                        parts |-> sets[n].parts]}
  <2>1. SetOK(sets[n]) /\ n \in Nat /\ stripes[LastStripe].at \in Proxies
    BY <1>3 DEF TypeInv, SetsOK, StripesOK
  <2>2. sets[n].stage = "entered" /\ size' = size
    BY DispatchEffect
  <2>3. Len(sets[n].parts) = size /\ sets[n].parts \in Seq(Nat \X Proxies)
    BY <2>1, <2>2 DEF SetOK, SetRecord, Listing
  <2>4. StoringOK'
    BY <1>3, <2>1, <2>2, <2>3 DEF TypeInv, StoringOK, ThreadOK
  <2>5. Len(sets[n].ids) = size
    BY <2>1, <2>2 DEF SetOK, Listing
  <2>6. SetsOK' /\ ClientsOK' /\ ClientsApart' /\ ConnsOK' /\ StoredOK'
    BY <1>3, <2>2, <2>5, DispatchEffect, MovedTypes DEF Stages, Listing
  <2> QED BY <1>1, <2>4, <2>6 DEF TypeInv
<1> QED BY <1>2, <1>3, DispatchEffect

\* Store keeps the types.
LEMMA StoreTypes ==
  ASSUME TypeInv, NEW t \in storing, NEW k \in conns, Store(t, k) \/ StoreFails(t, k)
  PROVE  TypeInv'
<1> USE DEF TypeInv
<1> PICK n : n = k.set
  OBVIOUS
<1>1. /\ n \in DOMAIN sets /\ sets[n].stage = "answered" /\ Moved(n, "stored")
      /\ storing' = storing \ {t} /\ conns' = conns \ {k}
      /\ left' \in [Kinds -> Nat] /\ left'.set = left.set /\ Hangs
      /\ UNCHANGED <<up, size, nextStripe, nextBlock, stripes, updating, committed, initial,
                     current>>
  BY StoreEffect DEF Finishes
<1>2. NumbersOK' /\ StripesOK' /\ TablesOK' /\ StoringOK'
  BY <1>1, StripesKept, TablesKept, ThreadsKept DEF NumbersOK
<1>3. Len(sets[n].ids) = size
  BY <1>1 DEF SetsOK, SetOK, Listing
<1>4. SetsOK'
  <2>1. SetOK(sets[n])'
    BY <1>1, <1>3 DEF SetsOK, SetOK, Moved
  <2>2. ASSUME NEW m \in DOMAIN sets \ {n} PROVE SetOK(sets[m])'
    BY <1>1 DEF SetsOK, SetOK, Moved
  <2> QED BY <1>1, <2>1, <2>2 DEF SetsOK, Moved
<1>5. ClientsOK' /\ ClientsApart'
  BY <1>1, HangsEnd, GetsEndTypes DEF Moved
<1>6. \A m : Sent(m)' <=> Sent(m)
  BY <1>1, HangsEnd, GetsEndTypes DEF Moved
<1>7. \A j \in conns \ {k} : j.set # n
  <2>1. \A p, q \in sets[n].proxy : p = q
    BY <1>1 DEF SetsOK, SetOK
  <2> QED BY <2>1 DEF ConnsOK
<1>8. ConnsOK'
  BY <1>1, <1>6, <1>7 DEF ConnsOK, Moved
<1>9. StoredOK'
  BY <1>1, <1>6 DEF ConnsOK, StoredOK, Moved
<1> QED BY <1>2, <1>4, <1>5, <1>8, <1>9


\* GiveUp keeps the types.
LEMMA GiveUpTypes ==
  ASSUME TypeInv, NEW c \in Clients, GiveUp(c) PROVE TypeInv'
<1>1. NumbersOK' /\ StripesOK' /\ TablesOK' /\ StoringOK' /\ SetsOK'
  BY GiveUpEffect, StripesKept, TablesKept, ThreadsKept, SetsKept DEF TypeInv, NumbersOK
<1>2. ClientOK(Idle) /\ Idle.state = "idle"
  BY DEF ClientOK, Idle
<1> QED BY <1>1, <1>2, GiveUpEffect, ClientTypes DEF TypeInv

\* Connect keeps the types.
LEMMA ConnectTypes ==
  ASSUME TypeInv, NEW c \in Clients, Connect(c) PROVE TypeInv'
<1> PICK n : n = client[c].set
  OBVIOUS
<1>1. PICK p \in Proxies : Connects(c, n, p)
  BY ConnectEffect
<1>2. NumbersOK' /\ StripesOK' /\ TablesOK' /\ StoringOK' /\ SetsOK'
  BY <1>1, StripesKept, TablesKept, ThreadsKept, SetsKept DEF TypeInv, NumbersOK, Connects
<1>3. /\ client[c].state = "set" /\ n \in DOMAIN sets /\ sets[n].stage = "answered"
      /\ p \in sets[n].proxy /\ conns' = conns \cup {[proxy |-> p, set |-> n]}
      /\ Becomes(c, [state |-> "sent", set |-> n]) /\ sets' = sets
  BY <1>1 DEF Connects
<1>4. ClientsOK'
  BY <1>3 DEF TypeInv, ClientsOK, ClientOK, Becomes
<1>5. ClientsApart'
  BY <1>3 DEF TypeInv, ClientsApart, Setting, Becomes
<1>6. (\A m : Sent(m) => Sent(m)') /\ Sent(n)'
  BY <1>3 DEF Sent, Becomes
<1>7. StoredOK'
  BY <1>3, <1>6 DEF TypeInv, StoredOK
<1>8. ConnsOK'
  BY <1>3, <1>6 DEF TypeInv, ConnsOK
<1> QED BY <1>2, <1>4, <1>5, <1>7, <1>8 DEF TypeInv


\* Commit keeps the types.
LEMMA CommitTypes ==
  ASSUME TypeInv, NEW c \in Clients, Commit(c) PROVE TypeInv'
<1> PICK n : n = client[c].set
  OBVIOUS
<1> PICK k : k = sets[n].key
  OBVIOUS
<1>1. NumbersOK' /\ StripesOK' /\ StoringOK'
  BY CommitEffect, StripesKept, ThreadsKept DEF TypeInv, NumbersOK, Commits
<1>2. CASE UNCHANGED <<committed, updating, current, sets, client>>
  <2>1. TablesOK' /\ SetsOK' /\ ClientsOK' /\ ClientsApart' /\ ConnsOK' /\ StoredOK'
    BY <1>2, CommitEffect, TablesKept, CallsKept
  <2> QED BY <1>1, <2>1 DEF TypeInv
<1>3. CASE Commits(c, n, k)
  <2>1. n \in DOMAIN sets /\ n \in Nat /\ initial' = initial
    BY CommitEffect DEF TypeInv, SetsOK
  <2>2. \A j \in DOMAIN updating' : One(updating'[j])
    BY <1>3 DEF Commits, TypeInv, TablesOK
  <2>3. \A j \in DOMAIN committed' : One(committed'[j])
    BY <1>3 DEF Commits, TypeInv, TablesOK
  <2>4. \A j \in DOMAIN current' : current'[j] \in Nat
    BY <1>3, <2>1 DEF Commits, TypeInv, TablesOK
  <2>5. /\ DOMAIN updating' \subseteq Keys /\ DOMAIN committed' \subseteq Keys
        /\ DOMAIN current' = DOMAIN committed'
    BY <1>3 DEF Commits, TypeInv, TablesOK
  <2>6. TablesOK'
    BY <2>1, <2>2, <2>3, <2>4, <2>5 DEF TypeInv, TablesOK, One
  <2>7. SetsOK' /\ ClientsOK' /\ ClientsApart' /\ ConnsOK' /\ StoredOK'
    <3>1. Forgets(n) /\ Becomes(c, Idle)
      BY <1>3 DEF Commits
    <3>2. /\ client[c].state = "sent" /\ sets[n].stage = "stored"
          /\ UNCHANGED <<size, conns, left>>
      BY CommitEffect
    <3> QED BY <2>1, <3>1, <3>2, ForgetTypes
  <2> QED BY <1>1, <2>6, <2>7 DEF TypeInv
<1> QED BY <1>2, <1>3, CommitEffect

\* Abort keeps the types.
LEMMA AbortTypes ==
  ASSUME TypeInv, NEW c \in Clients, Abort(c) PROVE TypeInv'
<1> PICK n : n = client[c].set
  OBVIOUS
<1> PICK k : k = sets[n].key
  OBVIOUS
<1>1. StoringOK' /\ UNCHANGED <<size, nextBlock, committed, initial, conns, current>>
  BY AbortEffect, ThreadsKept
<1>2. CASE up' = FALSE /\ UNCHANGED <<stripes, nextStripe, updating, sets, client>>
  <2>1. StripesOK' /\ TablesOK'
    BY <1>1, <1>2, StripesKept, TablesKept
  <2>2. SetsOK' /\ ClientsOK' /\ ClientsApart' /\ ConnsOK' /\ StoredOK'
    BY <1>1, <1>2, AbortEffect, CallsKept
  <2>3. NumbersOK'
    BY <1>1, <1>2, AbortEffect DEF TypeInv, NumbersOK
  <2> QED BY <1>1, <2>1, <2>2, <2>3 DEF TypeInv
<1>3. CASE Aborts(c, n, k)
  <2>1. StripesOK'
    BY <1>1, <1>3, StripesKept DEF Aborts
  <2>2. TablesOK'
    <3>1. \A j \in DOMAIN updating' : One(updating'[j])
      BY <1>3 DEF TypeInv, TablesOK, Aborts
    <3> QED BY <1>1, <1>3, <3>1 DEF TypeInv, TablesOK, One, Aborts
  <2>3. SetsOK' /\ ClientsOK' /\ ClientsApart' /\ ConnsOK' /\ StoredOK'
    <3>1. Forgets(n) /\ Becomes(c, Idle)
      BY <1>3 DEF Aborts
    <3>2. /\ client[c].state = "sent" /\ n \in DOMAIN sets /\ sets[n].stage = "stored"
          /\ left'.set = left.set
      BY AbortEffect
    <3> QED BY <1>1, <3>1, <3>2, ForgetTypes
  <2>4. Len(Entry(k)) \in Nat
    BY DEF Entry, TypeInv, TablesOK, One
  <2>5. nextStripe' \in Int /\ up' = up
    BY <1>3, <2>4 DEF TypeInv, NumbersOK, Aborts
  <2>6. left' \in [Kinds -> Nat]
    BY AbortEffect
  <2>7. NumbersOK'
    BY <1>1, <2>5, <2>6 DEF TypeInv, NumbersOK
  <2> QED BY <1>1, <2>1, <2>2, <2>3, <2>7 DEF TypeInv
<1> QED BY <1>2, <1>3, AbortEffect

\* Get keeps the types.
LEMMA GetTypes ==
  ASSUME TypeInv, NEW c \in Clients, NEW k \in Keys, Get(c, k) PROVE TypeInv'
<1>1. NumbersOK' /\ StripesOK' /\ TablesOK' /\ StoringOK' /\ SetsOK'
  BY GetEffect, StripesKept, TablesKept, ThreadsKept, SetsKept DEF TypeInv, NumbersOK
<1>2. CASE client' = client
  BY <1>1, <1>2, GetEffect, CallsKept DEF TypeInv
<1> DEFINE x == [state |-> "get", want |-> current[k], parts |-> <<Spot(committed[k][1])>>]
<1>3. CASE k \in DOMAIN committed /\ Becomes(c, x)
  <2>1. current[k] \in Nat
    BY <1>3 DEF TypeInv, TablesOK
  <2>2. ClientOK(x) /\ x.state = "get"
    BY <2>1 DEF ClientOK
  <2>3. /\ client[c].state \in {"idle", "got"} /\ UNCHANGED <<sets, conns>>
    BY GetEffect
  <2>4. ClientsOK' /\ ClientsApart' /\ ConnsOK' /\ StoredOK'
    <3> HIDE DEF x
    <3> QED BY <1>3, <2>2, <2>3, ClientTypes
  <2> QED BY <1>1, <2>4 DEF TypeInv
<1> QED BY <1>2, <1>3, GetEffect

\* Read keeps the types.
LEMMA ReadTypes ==
  ASSUME TypeInv, NEW c \in Clients, Read(c) PROVE TypeInv'
<1> DEFINE x == [state |-> "got", want |-> client[c].want,
                 got |-> Stored(client[c].parts[1])]
<1>1. NumbersOK' /\ StripesOK' /\ TablesOK' /\ StoringOK' /\ SetsOK'
  BY ReadEffect, StripesKept, TablesKept, ThreadsKept, SetsKept DEF TypeInv, NumbersOK
<1>2. /\ Becomes(c, x) /\ client[c].state = "get" /\ UNCHANGED <<sets, conns>>
  BY ReadEffect
<1>3. ClientOK(x) /\ x.state = "got"
  BY DEF ClientOK
<1>4. ClientsOK' /\ ClientsApart' /\ ConnsOK' /\ StoredOK'
  <2> HIDE DEF x
  <2> QED BY <1>2, <1>3, ClientTypes
<1> QED BY <1>1, <1>4 DEF TypeInv

\* Broken reads keep the types.
LEMMA BrokenReadTypes ==
  ASSUME TypeInv, ReadsBreak PROVE TypeInv'
<1>1. NumbersOK' /\ StripesOK' /\ TablesOK' /\ StoringOK' /\ SetsOK'
  BY StripesKept, TablesKept, ThreadsKept, SetsKept DEF TypeInv, NumbersOK, ReadsBreak
<1>2. ClientsOK' /\ ClientsApart' /\ \A m : Sent(m)' <=> Sent(m)
  BY GetsEndTypes DEF ReadsBreak
<1>3. ConnsOK' /\ StoredOK'
  BY <1>2 DEF TypeInv, ConnsOK, StoredOK, ReadsBreak
<1> QED BY <1>1, <1>2, <1>3 DEF TypeInv

\* List keeps the types.
LEMMA ListTypes ==
  ASSUME TypeInv, NEW c \in Clients, List(c) PROVE TypeInv'
<1>1. PICK ids \in SUBSET DOMAIN stripes : Lists(c, ids)
  BY ListEffect
<1> DEFINE x == [state |-> "listed", ids |-> ids]
<1>2. NumbersOK' /\ StripesOK' /\ TablesOK' /\ StoringOK' /\ SetsOK'
  BY <1>1, StripesKept, TablesKept, ThreadsKept, SetsKept DEF TypeInv, NumbersOK, Lists
<1>3. ClientOK(x) /\ x.state = "listed"
  BY DEF ClientOK, TypeInv, StripesOK
<1>4. Becomes(c, x) /\ client[c].state \in {"idle", "got"} /\ UNCHANGED <<sets, conns>>
  BY <1>1 DEF Lists
<1>5. ClientsOK' /\ ClientsApart' /\ ConnsOK' /\ StoredOK'
  <2> HIDE DEF x
  <2> QED BY <1>3, <1>4, ClientTypes
<1> QED BY <1>2, <1>5 DEF TypeInv

\* DeleteBlocks keeps the types.
LEMMA DeleteBlocksTypes ==
  ASSUME TypeInv, NEW c \in Clients, DeleteBlocks(c) PROVE TypeInv'
<1> PICK ids : ids = client[c].ids
  OBVIOUS
<1> DEFINE x == [state |-> "deleting", ids |-> ids,
                 keys |-> UNION {stripes[id].objects : id \in ids}]
<1>1. NumbersOK' /\ StripesOK' /\ TablesOK' /\ StoringOK' /\ SetsOK'
  BY DeleteBlocksEffect, StripesKept, TablesKept, ThreadsKept, SetsKept DEF TypeInv, NumbersOK
<1>2. CASE client' = client
  BY <1>1, <1>2, DeleteBlocksEffect, CallsKept DEF TypeInv
<1>3. CASE ids \subseteq DOMAIN stripes /\ Becomes(c, x)
  <2>1. \A id \in ids : stripes[id].objects \subseteq Keys
    BY <1>3 DEF TypeInv, StripesOK
  <2>2. ClientOK(x) /\ x.state = "deleting"
    <3>1. UNION {stripes[id].objects : id \in ids} \in SUBSET Keys
      BY <2>1
    <3>2. ids \in SUBSET Int
      BY DeleteBlocksEffect
    <3>3. x \in [state : {"deleting", "erased"}, ids : SUBSET Int, keys : SUBSET Keys]
      BY <3>1, <3>2
    <3> QED BY <3>3 DEF ClientOK
  <2>3. client[c].state = "listed" /\ UNCHANGED <<sets, conns>>
    BY DeleteBlocksEffect
  <2>4. ClientsOK' /\ ClientsApart' /\ ConnsOK' /\ StoredOK'
    <3> HIDE DEF x
    <3> QED BY <1>3, <2>2, <2>3, ClientTypes
  <2> QED BY <1>1, <2>4 DEF TypeInv
<1>4. ~(ids \subseteq DOMAIN stripes) => client' = client
  BY DEF DeleteBlocks
<1>5. ids \subseteq DOMAIN stripes => Becomes(c, x)
  BY DeleteBlocksEffect
<1> QED BY <1>2, <1>3, <1>4, <1>5

\* EraseStripes keeps the types.
LEMMA EraseStripesTypes ==
  ASSUME TypeInv, NEW c \in Clients, EraseStripes(c) PROVE TypeInv'
<1> PICK ids : ids = client[c].ids
  OBVIOUS
<1> PICK keys : keys = client[c].keys
  OBVIOUS
<1> DEFINE x == [state |-> "erased", ids |-> ids, keys |-> keys]
<1>1. NumbersOK' /\ StripesOK' /\ TablesOK' /\ StoringOK' /\ SetsOK'
  BY EraseStripesEffect, StripesKept, TablesKept, ThreadsKept, SetsKept DEF TypeInv, NumbersOK
<1>2. ClientOK(x) /\ x.state = "erased"
  <2>1. ids \in SUBSET Int /\ keys \in SUBSET Keys
    BY ClientShapes DEF EraseStripes, Removing, TypeInv
  <2>2. x \in [state : {"deleting", "erased"}, ids : SUBSET Int, keys : SUBSET Keys]
    BY <2>1
  <2> QED BY <2>2 DEF ClientOK
<1>3. Becomes(c, x) /\ client[c].state = "deleting" /\ UNCHANGED <<sets, conns>>
  BY EraseStripesEffect
<1>4. ClientsOK' /\ ClientsApart' /\ ConnsOK' /\ StoredOK'
  <2> HIDE DEF x
  <2> QED BY <1>2, <1>3, ClientTypes
<1> QED BY <1>1, <1>4 DEF TypeInv

\* ForgetObjects keeps the types.
LEMMA ForgetObjectsTypes ==
  ASSUME TypeInv, NEW c \in Clients, ForgetObjects(c) PROVE TypeInv'
<1>1. NumbersOK' /\ StripesOK' /\ StoringOK' /\ SetsOK'
  BY ForgetObjectsEffect, StripesKept, ThreadsKept, SetsKept DEF TypeInv, NumbersOK
<1>2. TablesOK'
  <2> PICK keys : keys = client[c].keys
    OBVIOUS
  <2>1. /\ DOMAIN committed' = DOMAIN committed \ keys /\ DOMAIN current' = DOMAIN current \ keys
        /\ \A k \in DOMAIN committed' : committed'[k] = committed[k]
        /\ \A k \in DOMAIN current' : current'[k] = current[k]
        /\ UNCHANGED <<updating, initial>>
    BY ForgetObjectsEffect
  <2>2. \A k \in DOMAIN committed' : One(committed'[k])
    BY <2>1 DEF TypeInv, TablesOK
  <2> QED BY <2>1, <2>2 DEF TypeInv, TablesOK, One
<1>3. ClientOK(Idle) /\ Idle.state = "idle"
  BY DEF ClientOK, Idle
<1>4. ClientsOK' /\ ClientsApart' /\ ConnsOK' /\ StoredOK'
  BY <1>3, ForgetObjectsEffect, ClientTypes
<1> QED BY <1>1, <1>2, <1>4 DEF TypeInv

\* Reset keeps the types.
LEMMA ResetTypes ==
  ASSUME TypeInv, NEW c \in Clients, Reset(c) PROVE TypeInv'
<1>1. StripesOK' /\ StoringOK'
  BY ResetEffect, ThreadsKept DEF StripesOK
<1>2. TablesOK'
  BY ResetEffect DEF TypeInv, TablesOK
<1>3. SetsOK' /\ ClientsOK' /\ ClientsApart' /\ ConnsOK' /\ StoredOK'
  BY ResetEffect, CallsKept
<1>4. NumbersOK'
  <2>1. /\ UNCHANGED <<up, size>> /\ left' \in [Kinds -> Nat]
        /\ nextStripe' = 0 /\ nextBlock' = 0
    BY ResetEffect
  <2> QED BY <2>1 DEF TypeInv, NumbersOK
<1> QED BY <1>1, <1>2, <1>3, <1>4 DEF TypeInv

\* Snapshot keeps the types.
LEMMA SnapshotTypes ==
  ASSUME TypeInv, NEW c \in Clients, Snapshot(c) PROVE TypeInv'
<1>1. NumbersOK' /\ StripesOK' /\ StoringOK'
  BY SnapshotEffect, StripesKept, ThreadsKept DEF TypeInv, NumbersOK
<1>2. SetsOK' /\ ClientsOK' /\ ClientsApart' /\ ConnsOK' /\ StoredOK'
  BY SnapshotEffect, CallsKept
<1>3. \A id \in DOMAIN stripes : stripes[id].at \in Proxies
  BY DEF TypeInv, StripesOK
<1>4. TablesOK'
  BY <1>3, SnapshotEffect DEF TypeInv, TablesOK, StripesOK, One
<1> QED BY <1>1, <1>2, <1>4 DEF TypeInv

\* Revert keeps the types.
LEMMA RevertTypes ==
  ASSUME TypeInv, NEW c \in Clients, Revert(c) PROVE TypeInv'
<1>1. NumbersOK' /\ TablesOK' /\ StoringOK'
  BY RevertEffect, TablesKept, ThreadsKept DEF TypeInv, NumbersOK
<1>2. StripesOK'
  BY RevertEffect DEF TypeInv, StripesOK
<1>3. SetsOK' /\ ClientsOK' /\ ClientsApart' /\ ConnsOK' /\ StoredOK'
  BY RevertEffect, CallsKept
<1> QED BY <1>1, <1>2, <1>3 DEF TypeInv

\* Repair keeps the types.
LEMMA RepairTypes ==
  ASSUME TypeInv, NEW id \in DOMAIN stripes, Repair(id) PROVE TypeInv'
<1>1. PICK p \in Proxies \ {stripes[id].at} : Relocates(id, p)
  BY RepairEffect
<1>2. NumbersOK' /\ TablesOK' /\ StoringOK'
  BY <1>1, TablesKept, ThreadsKept DEF TypeInv, NumbersOK, Relocates
<1>3. StripesOK'
  <2>1. /\ DOMAIN stripes' = DOMAIN stripes /\ nextBlock' = nextBlock
        /\ \A jd \in DOMAIN stripes \ {id} : stripes'[jd] = stripes[jd]
        /\ stripes'[id] = [block |-> stripes[id].block, at |-> p,
                           objects |-> stripes[id].objects]
    BY <1>1 DEF Relocates
  <2>2. stripes'[id] \in [block : 0 .. nextBlock, at : Proxies, objects : SUBSET Keys]
    BY <2>1 DEF TypeInv, StripesOK
  <2> QED BY <2>1, <2>2 DEF TypeInv, StripesOK
<1>4. SetsOK' /\ ClientsOK' /\ ClientsApart' /\ ConnsOK' /\ StoredOK'
  BY <1>1, CallsKept DEF Relocates
<1> QED BY <1>2, <1>3, <1>4 DEF TypeInv

\* Lose keeps the types.
LEMMA LoseTypes ==
  ASSUME TypeInv, NEW id \in DOMAIN stripes, Lose(id) PROVE TypeInv'
<1>1. NumbersOK' /\ StripesOK' /\ TablesOK' /\ StoringOK'
  BY LoseEffect, StripesKept, TablesKept, ThreadsKept DEF TypeInv, NumbersOK
<1>2. SetsOK' /\ ClientsOK' /\ ClientsApart' /\ ConnsOK' /\ StoredOK'
  BY LoseEffect, CallsKept
<1> QED BY <1>1, <1>2 DEF TypeInv

\* Nothing but the coordinator's end and trouble.
LEMMA IdleTypes ==
  ASSUME TypeInv, up' \in BOOLEAN,
         UNCHANGED <<size, nextStripe, nextBlock, stripes, updating, committed, initial, sets,
                     client, storing, conns, left, current>>
  PROVE  TypeInv'
<1>1. StripesOK' /\ TablesOK' /\ StoringOK'
  BY StripesKept, TablesKept, ThreadsKept
<1>2. SetsOK' /\ ClientsOK' /\ ClientsApart' /\ ConnsOK' /\ StoredOK'
  BY CallsKept
<1>3. NumbersOK'
  BY DEF TypeInv, NumbersOK
<1> QED BY <1>1, <1>2, <1>3 DEF TypeInv

\* The types hold in the beginning.
LEMMA InitTypes == Init => TypeInv
<1> SUFFICES ASSUME Init PROVE TypeInv
  OBVIOUS
<1>1. PICK w \in Workloads : size = w.size /\ left = [k \in Kinds |-> w[k]]
  BY DEF Init
<1>2. NumbersOK
  BY <1>1, WorkloadsAssumption DEF Init, NumbersOK
<1>3. StripesOK /\ TablesOK /\ SetsOK /\ StoringOK /\ ConnsOK /\ StoredOK
  BY DEF Init, Empty, StripesOK, TablesOK, SetsOK, StoringOK, ConnsOK, StoredOK
<1>4. ClientsOK /\ ClientsApart
  BY DEF Init, ClientsOK, ClientsApart, ClientOK, Setting, Idle
<1> QED BY <1>2, <1>3, <1>4 DEF TypeInv

\* Every step keeps the types.
LEMMA NextTypes ==
  ASSUME TypeInv, [Next]_vars PROVE TypeInv'
<1>1. CASE UNCHANGED vars
  BY <1>1, IdleTypes DEF vars, tables, work, history, TypeInv, NumbersOK
<1>2. ASSUME NEW n \in DOMAIN sets,
             Check(n) \/ Number(n) \/ MakeStripe(n) \/ Enter(n) \/ Dispatch(n)
      PROVE  TypeInv'
  BY <1>2, CheckTypes, NumberTypes, MakeStripeTypes, EnterTypes, DispatchTypes
<1>3. CASE TablesBreak \/ EraseBreaks
  BY <1>3, BreakEffect, IdleTypes
<1>4. ASSUME NEW t \in storing, NEW k \in conns, Store(t, k) \/ StoreFails(t, k)
      PROVE  TypeInv'
  BY <1>4, StoreTypes
<1>5. ASSUME NEW c \in Clients, NEW k \in Keys, Set(c, k) \/ Get(c, k) PROVE TypeInv'
  BY <1>5, SetTypes, GetTypes
<1>6. ASSUME NEW c \in Clients,
             \/ GiveUp(c) \/ Connect(c) \/ Commit(c) \/ Abort(c)
             \/ Read(c) \/ ReadTorn(c) \/ (\E o \in Clients : ReadsCross(c, o))
             \/ List(c) \/ DeleteBlocks(c) \/ EraseStripes(c) \/ ForgetObjects(c)
             \/ Reset(c) \/ Snapshot(c) \/ Revert(c)
      PROVE  TypeInv'
  BY <1>6, GiveUpTypes, ConnectTypes, CommitTypes, AbortTypes, ReadTypes, BrokenReadEffect,
     BrokenReadTypes, ListTypes, DeleteBlocksTypes, EraseStripesTypes, ForgetObjectsTypes,
     ResetTypes, SnapshotTypes, RevertTypes
<1>7. ASSUME NEW id \in DOMAIN stripes, Repair(id) \/ Lose(id) PROVE TypeInv'
  BY <1>7, RepairTypes, LoseTypes
<1> QED BY <1>1, <1>2, <1>3, <1>4, <1>5, <1>6, <1>7 DEF Next

\* TypeInv is an invariant.
LEMMA TypesHold == Spec => []TypeInv
<1>1. TypeInv /\ [Next]_vars => TypeInv'
  BY NextTypes
<1> QED BY <1>1, InitTypes, PTL DEF Spec

\* TypeOK: numbers, tables, sets, threads and connections are what they should be
\* (coordinator.cpp 84-249, proxy.cpp 311-745).
THEOREM TypeCorrect == Spec => []TypeOK
<1>1. TypeInv => TypeOK
  <2>1. TypeInv => \A k \in DOMAIN committed : Len(committed[k]) = 1
    BY DEF TypeInv, TablesOK, One
  <2>2. TypeInv => \A k \in conns : k.set \in DOMAIN sets
    BY DEF TypeInv, ConnsOK
  <2> QED BY <2>1, <2>2 DEF TypeInv, TypeOK, NumbersOK, StripesOK, TablesOK, StoringOK, ThreadOK
<1> QED BY <1>1, TypesHold, PTL


----------------------------------------------------------------------------
(* Numbers of stripes: each belongs to one set, or to one committed object, as *)
(* long as sets do not overlap, keys differ, aborts take back what they made   *)
(* and a reset comes when nothing runs.                                        *)

Disorder == {"overlap", "same_key", "bad_abort", "reset_early"}

OneAtATime == \A n, m \in Unlocked : n = m

\* Sets that are past the check and still matter have different keys.
KeysApart ==
  \A n \in Waiting, m \in Waiting \cup Unlocked :
    n # m /\ sets[n].stage # "called" /\ sets[m].stage # "called" => sets[n].key # sets[m].key

NotCommitted ==
  \A n \in Waiting : sets[n].stage # "called" => sets[n].key \notin DOMAIN committed

\* What is entered for a key is what the set that waits for it made.
OwnEntry ==
  \A n \in Waiting : sets[n].stage \in Listing =>
    sets[n].key \in DOMAIN updating /\ updating[sets[n].key] = sets[n].listed

IdsBelow ==
  /\ \A n \in DOMAIN sets : \A i \in DOMAIN sets[n].ids : sets[n].ids[i] < nextStripe
  /\ \A n \in DOMAIN sets : sets[n].stage = "numbering" => nextStripe <= sets[n].id
  /\ \A id \in DOMAIN stripes : id < nextStripe
  /\ \A k \in DOMAIN committed : committed[k][1] < nextStripe

IdsApart ==
  /\ \A n, m \in DOMAIN sets : \A i \in DOMAIN sets[n].ids, j \in DOMAIN sets[m].ids :
       sets[n].ids[i] = sets[m].ids[j] => n = m /\ i = j
  /\ \A k, j \in DOMAIN committed : committed[k][1] = committed[j][1] => k = j
  /\ \A k \in DOMAIN committed, n \in DOMAIN sets : \A i \in DOMAIN sets[n].ids :
       committed[k][1] # sets[n].ids[i]

\* The set that is making stripes has made the last one.
LastMade ==
  \A n \in Unlocked :
    sets[n].ids # <<>> => nextStripe = sets[n].ids[Len(sets[n].ids)] + 1

Numbers ==
  /\ OneAtATime /\ KeysApart /\ NotCommitted /\ OwnEntry
  /\ IdsBelow /\ IdsApart /\ LastMade
NumbersInv == Without(Disorder) => Numbers

\* What was not troubled before a step was not troubled.
LEMMA WithoutBefore ==
  ASSUME NEW S, trouble \subseteq trouble', Without(S)' PROVE Without(S)
BY DEF Without

\* A set is waited for if a client is setting it.
LEMMA WaitingFact ==
  ASSUME NEW n
  PROVE  n \in Waiting <=> n \in DOMAIN sets /\ \E c \in Clients : Setting(c) /\ client[c].set = n
BY DEF Waiting, Setting

\* The sets that are waited for are what they were.
LEMMA WaitingKept ==
  ASSUME client' = client, DOMAIN sets' = DOMAIN sets PROVE Waiting' = Waiting
BY DEF Waiting

\* A client that takes up something else leaves its set, and no other.
LEMMA WaitingLeft ==
  ASSUME NEW c \in Clients, NEW x, Becomes(c, x), x.state \notin {"set", "sent"},
         DOMAIN sets' \subseteq DOMAIN sets
  PROVE  Waiting' \subseteq Waiting
BY DEF Becomes, Waiting

\* Steps that give no number keep the numbers apart.
LEMMA IdsApartKept ==
  ASSUME IdsApart,
         \A n \in DOMAIN sets' : \/ n \in DOMAIN sets /\ sets'[n].ids = sets[n].ids
                                 \/ sets'[n].ids = <<>>,
         \A k \in DOMAIN committed' : k \in DOMAIN committed /\ committed'[k] = committed[k]
  PROVE  IdsApart'
<1>1. ASSUME NEW n \in DOMAIN sets', NEW i \in DOMAIN sets'[n].ids
      PROVE  n \in DOMAIN sets /\ sets'[n].ids = sets[n].ids
  <2>1. DOMAIN <<>> = {}
    OBVIOUS
  <2> QED BY <2>1
<1> QED BY <1>1 DEF IdsApart

\* Steps that give no number keep them below the next one.
LEMMA IdsBelowKept ==
  ASSUME IdsBelow, nextStripe' = nextStripe,
         \A n \in DOMAIN sets' : \/ n \in DOMAIN sets /\ sets'[n].ids = sets[n].ids
                                 \/ sets'[n].ids = <<>>,
         \A n \in DOMAIN sets' : sets'[n].stage = "numbering" => nextStripe <= sets'[n].id,
         DOMAIN stripes' \subseteq DOMAIN stripes,
         \A k \in DOMAIN committed' : k \in DOMAIN committed /\ committed'[k] = committed[k]
  PROVE  IdsBelow'
<1>1. ASSUME NEW n \in DOMAIN sets', NEW i \in DOMAIN sets'[n].ids
      PROVE  n \in DOMAIN sets /\ sets'[n].ids = sets[n].ids
  <2>1. DOMAIN <<>> = {}
    OBVIOUS
  <2> QED BY <2>1
<1> QED BY <1>1 DEF IdsBelow

\* The sets are what they were and fewer are waited for, stripes or objects may go.
LEMMA NumbersKept ==
  ASSUME Numbers, UNCHANGED <<sets, nextStripe, updating>>, Waiting' \subseteq Waiting,
         DOMAIN stripes' \subseteq DOMAIN stripes,
         \A k \in DOMAIN committed' : k \in DOMAIN committed /\ committed'[k] = committed[k]
  PROVE  Numbers'
<1>1. Unlocked' = Unlocked
  BY DEF Unlocked
<1>2. IdsBelow' /\ IdsApart'
  BY IdsBelowKept, IdsApartKept DEF Numbers, IdsBelow
<1>3. OneAtATime' /\ LastMade'
  BY <1>1 DEF Numbers, OneAtATime, LastMade
<1>4. KeysApart'
  BY <1>1 DEF Numbers, KeysApart
<1>5. NotCommitted'
  BY DEF Numbers, NotCommitted
<1>6. OwnEntry'
  BY DEF Numbers, OwnEntry
<1> QED BY <1>2, <1>3, <1>4, <1>5, <1>6 DEF Numbers

\* A set that is called has no number yet.
LEMMA SetNumbers ==
  ASSUME TypeInv, Numbers, NEW c \in Clients, NEW k \in Keys, Set(c, k) PROVE Numbers'
<1> PICK n : n = left.set
  OBVIOUS
<1>1. /\ n \notin DOMAIN sets /\ client[c].state \in {"idle", "got"}
      /\ Becomes(c, [state |-> "set", set |-> n])
      /\ DOMAIN sets' = DOMAIN sets \cup {n} /\ \A m \in DOMAIN sets : sets'[m] = sets[m]
      /\ sets'[n].stage = "called" /\ sets'[n].ids = <<>>
      /\ UNCHANGED <<nextStripe, stripes, updating, committed>>
  <2>1. sets'[n] = [key |-> k, stage |-> "called", ids |-> <<>>, id |-> 0,
                    listed |-> <<>>, parts |-> <<>>, proxy |-> {}]
    BY SetEffect
  <2>2. sets'[n].stage = "called" /\ sets'[n].ids = <<>>
    BY <2>1
  <2> QED BY <2>2, SetEffect
<1>2. Unlocked' = Unlocked
  BY <1>1 DEF Unlocked
<1>3. Waiting' \subseteq Waiting \cup {n}
  <2>1. ASSUME NEW m \in Waiting', m # n PROVE m \in Waiting
    <3>1. PICK d \in Clients : Setting(d)' /\ client'[d].set = m /\ m \in DOMAIN sets'
      BY <2>1 DEF Waiting, Setting
    <3>2. d # c
      BY <1>1, <2>1, <3>1 DEF Becomes
    <3> QED BY <1>1, <2>1, <3>1, <3>2 DEF Waiting, Setting, Becomes
  <2> QED BY <2>1
<1>4. IdsApart' /\ IdsBelow'
  BY <1>1, IdsApartKept, IdsBelowKept DEF Numbers, IdsBelow
<1>5. OneAtATime' /\ LastMade'
  BY <1>1, <1>2 DEF Numbers, OneAtATime, LastMade, Unlocked
<1>6. KeysApart'
  BY <1>1, <1>2, <1>3 DEF Numbers, KeysApart, Waiting, Unlocked
<1>7. NotCommitted'
  BY <1>1, <1>3 DEF Numbers, NotCommitted, Waiting
<1>8. OwnEntry'
  BY <1>1, <1>3 DEF Numbers, OwnEntry, Waiting, Listing
<1> QED BY <1>4, <1>5, <1>6, <1>7, <1>8 DEF Numbers

\* A set that is let on is the only one under way, and the only one of its key.
LEMMA CheckNumbers ==
  ASSUME TypeInv, Numbers, NEW n \in DOMAIN sets, Check(n), Without(Disorder)' PROVE Numbers'
<1>1. /\ sets[n].stage = "called" /\ sets[n].key \notin DOMAIN committed
      /\ Moved(n, "checked") /\ Unlocked = {}
      /\ \A m \in Waiting \ {n} : sets[m].key # sets[n].key
      /\ UNCHANGED <<nextStripe, stripes, updating, committed, client>>
  <2>1. "same_key" \notin trouble' /\ "overlap" \notin trouble'
    BY DEF Without, Disorder
  <2> QED BY <2>1, CheckEffect
<1>2. sets[n].ids = <<>>
  BY <1>1 DEF TypeInv, SetsOK, SetOK
<1>3. Waiting' = Waiting
  BY <1>1, WaitingKept DEF Moved
<1>4. Unlocked' = {n}
  BY <1>1 DEF Unlocked, Moved
<1>5. IdsApart' /\ IdsBelow'
  BY <1>1, IdsApartKept, IdsBelowKept DEF Numbers, IdsBelow, Moved
<1>6. OneAtATime' /\ LastMade'
  BY <1>1, <1>2, <1>4 DEF OneAtATime, LastMade, Moved
<1>7. KeysApart'
  BY <1>1, <1>3, <1>4 DEF Numbers, KeysApart, Waiting, Moved
<1>8. NotCommitted'
  BY <1>1, <1>3 DEF Numbers, NotCommitted, Waiting, Moved
<1>9. OwnEntry'
  BY <1>1, <1>3 DEF Numbers, OwnEntry, Waiting, Listing, Moved
<1> QED BY <1>5, <1>6, <1>7, <1>8, <1>9 DEF Numbers

\* A set that moves on between its check and its commit.
LEMMA MovedNumbers ==
  ASSUME TypeInv, Numbers, NEW n \in DOMAIN sets, NEW s, Moved(n, s),
         sets[n].stage \in {"checked", "numbering", "entered", "answered"},
         s \in {"numbering", "entered", "answered", "stored"},
         sets[n].stage \in {"entered", "answered"} => s \in {"answered", "stored"},
         sets[n].stage = "answered" => s = "stored",
         sets[n].stage = "checked" => s # "stored",
         s = "numbering" => sets'[n].id = nextStripe,
         s \in Listing /\ sets[n].stage \notin Listing => s = "entered",
         Waiting' = Waiting, UNCHANGED <<nextStripe, stripes, committed>>
  PROVE  OneAtATime' /\ LastMade' /\ KeysApart' /\ NotCommitted' /\ IdsApart' /\ IdsBelow'
<1>1. Waiting' = Waiting
  OBVIOUS
<1>2. Unlocked' \subseteq Unlocked
  BY DEF Unlocked, Moved
<1>3. nextStripe \in Int
  BY DEF TypeInv, NumbersOK
<1>4. IdsApart' /\ IdsBelow'
  BY <1>3, IdsApartKept, IdsBelowKept DEF Numbers, IdsBelow, Moved
<1>5. OneAtATime'
  BY <1>2 DEF Numbers, OneAtATime
<1>6. LastMade'
  BY <1>2 DEF Numbers, LastMade, Unlocked, Moved
<1>7. \A m \in DOMAIN sets : sets'[m].key = sets[m].key
  BY DEF Moved
<1>8. \A m \in DOMAIN sets : sets'[m].stage # "called" => sets[m].stage # "called"
  BY DEF Moved
<1>9. KeysApart' /\ NotCommitted'
  BY <1>1, <1>2, <1>7, <1>8 DEF Numbers, KeysApart, NotCommitted, Waiting, Unlocked
<1> QED BY <1>4, <1>5, <1>6, <1>9

\* What is entered is still what the set made, when no entry changes.
LEMMA EntriesKept ==
  ASSUME TypeInv, Numbers, NEW n \in DOMAIN sets, NEW s, Moved(n, s),
         s \in Listing => sets[n].stage \in Listing, Waiting' = Waiting, UNCHANGED updating
  PROVE  OwnEntry'
<1>1. Waiting' = Waiting
  OBVIOUS
<1>2. \A m \in DOMAIN sets : /\ sets'[m].key = sets[m].key /\ sets'[m].listed = sets[m].listed
                             /\ sets'[m].stage \in Listing => sets[m].stage \in Listing
  BY DEF Moved
<1>3. \A m \in Waiting : m \in DOMAIN sets
  BY DEF Waiting
<1> QED BY <1>1, <1>2, <1>3 DEF Numbers, OwnEntry

\* Number keeps the numbers apart.
LEMMA NumberNumbers ==
  ASSUME TypeInv, Numbers, NEW n \in DOMAIN sets, Number(n) PROVE Numbers'
<1>1. /\ sets[n].stage = "checked" /\ Moved(n, "numbering") /\ sets'[n].id = nextStripe
      /\ UNCHANGED <<nextStripe, stripes, committed, client, updating>>
  BY NumberEffect
<1>2. OneAtATime' /\ LastMade' /\ KeysApart' /\ NotCommitted' /\ IdsApart' /\ IdsBelow'
  BY <1>1, MovedNumbers, WaitingKept DEF Listing, Moved
<1>3. OwnEntry'
  BY <1>1, EntriesKept, WaitingKept DEF Listing, Moved
<1> QED BY <1>2, <1>3 DEF Numbers

\* Enter enters what the set has made for its key, over the entry of no other set that is
\* waited for.
LEMMA EnterNumbers ==
  ASSUME TypeInv, Numbers, NEW n \in DOMAIN sets, Enter(n) PROVE Numbers'
<1>1. /\ sets[n].stage = "checked" /\ Moved(n, "entered")
      /\ UNCHANGED <<nextStripe, stripes, committed, client>>
  BY EnterEffect
<1>2. /\ DOMAIN updating' = DOMAIN updating \cup {sets[n].key}
      /\ updating'[sets[n].key] = sets[n].listed
      /\ \A k \in DOMAIN updating : k # sets[n].key => updating'[k] = updating[k]
  BY EnterEffect
<1>3. OneAtATime' /\ LastMade' /\ KeysApart' /\ NotCommitted' /\ IdsApart' /\ IdsBelow'
  BY <1>1, MovedNumbers, WaitingKept DEF Listing, Moved
<1>4. Waiting' = Waiting /\ n \in Unlocked
  BY <1>1, WaitingKept DEF Moved, Unlocked
<1>5. ASSUME NEW m \in Waiting', sets'[m].stage \in Listing
      PROVE  sets'[m].key \in DOMAIN updating' /\ updating'[sets'[m].key] = sets'[m].listed
  <2>1. m \in DOMAIN sets
    BY <1>4, <1>5 DEF Waiting
  <2>2. sets'[m].key = sets[m].key /\ sets'[m].listed = sets[m].listed
    BY <1>1, <2>1 DEF Moved
  <2>3. CASE m = n
    BY <1>2, <2>2, <2>3
  <2>4. CASE m # n
    <3>1. sets[m].stage \in Listing
      BY <1>1, <1>5, <2>1, <2>4 DEF Moved
    <3>2. sets[m].key # sets[n].key
      BY <1>1, <1>4, <1>5, <2>4, <3>1 DEF Numbers, KeysApart, Listing
    <3>3. sets[m].key \in DOMAIN updating /\ updating[sets[m].key] = sets[m].listed
      BY <1>4, <1>5, <3>1 DEF Numbers, OwnEntry
    <3> QED BY <1>2, <2>2, <3>2, <3>3
  <2> QED BY <2>3, <2>4
<1>6. OwnEntry'
  BY <1>5 DEF OwnEntry
<1> QED BY <1>3, <1>6 DEF Numbers

\* Dispatch keeps the numbers apart.
LEMMA DispatchNumbers ==
  ASSUME TypeInv, Numbers, NEW n \in DOMAIN sets, Dispatch(n) PROVE Numbers'
<1>1. /\ sets[n].stage = "entered"
      /\ UNCHANGED <<nextStripe, stripes, committed, client, updating>>
  BY DispatchEffect
<1>2. CASE sets' = sets
  <2>1. Waiting' \subseteq Waiting
    BY <1>1, <1>2, WaitingKept
  <2> QED BY <1>1, <1>2, <2>1, NumbersKept
<1>3. CASE Moved(n, "answered")
  <2>1. OneAtATime' /\ LastMade' /\ KeysApart' /\ NotCommitted' /\ IdsApart' /\ IdsBelow'
    BY <1>1, <1>3, MovedNumbers, WaitingKept DEF Listing, Moved
  <2>2. OwnEntry'
    BY <1>1, <1>3, EntriesKept, WaitingKept DEF Listing, Moved
  <2> QED BY <2>1, <2>2 DEF Numbers
<1> QED BY <1>2, <1>3, DispatchEffect

\* Store keeps the numbers apart.
LEMMA StoreNumbers ==
  ASSUME TypeInv, Numbers, NEW t \in storing, NEW k \in conns, Store(t, k) \/ StoreFails(t, k)
  PROVE  Numbers'
<1> PICK n : n = k.set
  OBVIOUS
<1>1. /\ n \in DOMAIN sets /\ sets[n].stage = "answered" /\ Moved(n, "stored")
      /\ Hangs /\ UNCHANGED <<nextStripe, stripes, committed, updating>>
  BY StoreEffect DEF Finishes
<1>4. Waiting' = Waiting
  BY <1>1, HangsEnd, GetsEndTypes DEF Moved
<1>2. OneAtATime' /\ LastMade' /\ KeysApart' /\ NotCommitted' /\ IdsApart' /\ IdsBelow'
  BY <1>1, <1>4, MovedNumbers DEF Listing
<1>3. OwnEntry'
  BY <1>1, <1>4, EntriesKept DEF Listing
<1> QED BY <1>2, <1>3 DEF Numbers

\* The stripe that is made has a number that no set and no object has.
LEMMA MakeStripeNumbers ==
  ASSUME TypeInv, Numbers, NEW n \in DOMAIN sets, MakeStripe(n) PROVE Numbers'
<1> PICK id : id = sets[n].id
  OBVIOUS
<1>0. PICK p \in Proxies : Makes(n, id, p)
  BY MakeStripeEffect
<1>1. /\ sets[n].stage = "numbering" /\ id \in Int /\ nextStripe' = id + 1
      /\ DOMAIN stripes' = DOMAIN stripes \cup {id}
      /\ DOMAIN sets' = DOMAIN sets /\ \A m \in DOMAIN sets \ {n} : sets'[m] = sets[m]
      /\ sets'[n].key = sets[n].key /\ sets'[n].stage = "checked"
      /\ sets'[n].ids = Append(sets[n].ids, id)
      /\ UNCHANGED <<updating, committed, client>>
  BY <1>0 DEF Makes
<1>2. n \in Unlocked /\ \A m \in Unlocked : m = n
  BY <1>1 DEF Unlocked, Numbers, OneAtATime
<1>3. nextStripe \in Int /\ nextStripe <= id
  BY <1>1 DEF TypeInv, NumbersOK, Numbers, IdsBelow
<1>4. Waiting' = Waiting /\ Unlocked' = {n}
  BY <1>1, <1>2, WaitingKept DEF Unlocked
<1>5. sets[n].ids \in Seq(Int)
  BY DEF TypeInv, SetsOK, SetOK, SetRecord
<1>6. /\ DOMAIN sets'[n].ids = DOMAIN sets[n].ids \cup {Len(sets[n].ids) + 1}
      /\ sets'[n].ids[Len(sets[n].ids) + 1] = id
      /\ Len(sets[n].ids) + 1 \notin DOMAIN sets[n].ids
      /\ Len(sets'[n].ids) = Len(sets[n].ids) + 1
      /\ \A i \in DOMAIN sets[n].ids : sets'[n].ids[i] = sets[n].ids[i]
  BY <1>1, <1>5
<1>7. IdsBelow'
  <2>1. ASSUME NEW m \in DOMAIN sets', NEW i \in DOMAIN sets'[m].ids
        PROVE  sets'[m].ids[i] < nextStripe'
    <3>1. sets[m].ids \in Seq(Int)
      BY <1>1 DEF TypeInv, SetsOK, SetOK, SetRecord
    <3>2. CASE m = n /\ i = Len(sets[n].ids) + 1
      BY <1>1, <1>6, <3>2
    <3>3. CASE ~(m = n /\ i = Len(sets[n].ids) + 1)
      <4>1. i \in DOMAIN sets[m].ids /\ sets'[m].ids[i] = sets[m].ids[i]
        BY <1>1, <1>6, <3>3
      <4>2. sets[m].ids[i] < nextStripe /\ sets[m].ids[i] \in Int
        BY <1>1, <3>1, <4>1 DEF Numbers, IdsBelow
      <4> QED BY <1>1, <1>3, <4>1, <4>2
    <3> QED BY <3>2, <3>3
  <2>2. ASSUME NEW jd \in DOMAIN stripes' PROVE jd < nextStripe'
    <3>1. jd \in DOMAIN stripes => jd < nextStripe /\ jd \in Int
      BY DEF Numbers, IdsBelow, TypeInv, StripesOK
    <3> QED BY <1>1, <1>3, <3>1
  <2>3. ASSUME NEW k \in DOMAIN committed' PROVE committed'[k][1] < nextStripe'
    <3>1. committed[k][1] < nextStripe /\ committed[k][1] \in Int
      BY <1>1 DEF Numbers, IdsBelow, TypeInv, TablesOK, One
    <3> QED BY <1>1, <1>3, <3>1
  <2>4. \A m \in DOMAIN sets' : sets'[m].stage # "numbering"
    BY <1>1, <1>2 DEF Unlocked
  <2> QED BY <2>1, <2>2, <2>3, <2>4 DEF IdsBelow
<1>8. IdsApart'
  <2>1. \A m \in DOMAIN sets : \A i \in DOMAIN sets[m].ids : sets[m].ids[i] # id
    <3>1. ASSUME NEW m \in DOMAIN sets, NEW i \in DOMAIN sets[m].ids PROVE sets[m].ids[i] # id
      <4>1. sets[m].ids \in Seq(Int)
        BY DEF TypeInv, SetsOK, SetOK, SetRecord
      <4>2. sets[m].ids[i] < nextStripe /\ sets[m].ids[i] \in Int
        BY <4>1 DEF Numbers, IdsBelow
      <4> QED BY <1>1, <1>3, <4>2
    <3> QED BY <3>1
  <2>2. \A k \in DOMAIN committed : committed[k][1] # id
    <3>1. \A k \in DOMAIN committed : committed[k][1] < nextStripe /\ committed[k][1] \in Int
      BY DEF Numbers, IdsBelow, TypeInv, TablesOK, One
    <3> QED BY <1>1, <1>3, <3>1
  <2>3. ASSUME NEW m \in DOMAIN sets', NEW i \in DOMAIN sets'[m].ids
        PROVE  \/ m = n /\ i = Len(sets[n].ids) + 1 /\ sets'[m].ids[i] = id
               \/ m \in DOMAIN sets /\ i \in DOMAIN sets[m].ids /\ sets'[m].ids[i] = sets[m].ids[i]
    BY <1>1, <1>6
  <2>4. ASSUME NEW m \in DOMAIN sets', NEW q \in DOMAIN sets',
               NEW i \in DOMAIN sets'[m].ids, NEW j \in DOMAIN sets'[q].ids,
               sets'[m].ids[i] = sets'[q].ids[j]
        PROVE  m = q /\ i = j
    BY <2>1, <2>3, <2>4 DEF Numbers, IdsApart
  <2>5. ASSUME NEW k \in DOMAIN committed', NEW m \in DOMAIN sets',
               NEW i \in DOMAIN sets'[m].ids
        PROVE  committed'[k][1] # sets'[m].ids[i]
    BY <1>1, <2>2, <2>3 DEF Numbers, IdsApart
  <2>6. \A k, j \in DOMAIN committed' : committed'[k][1] = committed'[j][1] => k = j
    BY <1>1 DEF Numbers, IdsApart
  <2> QED BY <2>4, <2>5, <2>6 DEF IdsApart
<1>9. OneAtATime' /\ LastMade'
  BY <1>1, <1>4, <1>6 DEF OneAtATime, LastMade
<1>10. \A m \in DOMAIN sets : /\ sets'[m].key = sets[m].key
                              /\ sets'[m].stage # "called" => sets[m].stage # "called"
                              /\ sets'[m].stage \in Listing => sets'[m] = sets[m]
  BY <1>1 DEF Listing
<1>11. \A m \in Waiting : m \in DOMAIN sets
  BY DEF Waiting
<1>12. KeysApart' /\ NotCommitted' /\ OwnEntry'
  <2>1. KeysApart'
    BY <1>2, <1>4, <1>10, <1>11 DEF Numbers, KeysApart
  <2>2. NotCommitted'
    BY <1>1, <1>4, <1>10, <1>11 DEF Numbers, NotCommitted
  <2>3. OwnEntry'
    BY <1>1, <1>4, <1>10, <1>11 DEF Numbers, OwnEntry
  <2> QED BY <2>1, <2>2, <2>3
<1> QED BY <1>7, <1>8, <1>9, <1>12 DEF Numbers

\* A client that has sent its value and whose set is stored waits for it, and no other
\* client does.
LEMMA SentFacts ==
  ASSUME TypeInv, NEW c \in Clients, client[c].state = "sent", NEW n, n = client[c].set
  PROVE  /\ n \in DOMAIN sets /\ n \in Waiting
         /\ Becomes(c, Idle) /\ DOMAIN sets' \subseteq DOMAIN sets =>
              Waiting' \subseteq Waiting \ {n}
<1>1. n \in DOMAIN sets /\ n \in Waiting
  BY ClientShapes DEF TypeInv, Setting, Waiting
<1>2. ASSUME Becomes(c, Idle), DOMAIN sets' \subseteq DOMAIN sets, NEW m \in Waiting'
      PROVE  m \in Waiting /\ m # n
  <2>1. PICK d \in Clients : client'[d].state \in {"set", "sent"} /\ client'[d].set = m
    BY <1>2 DEF Waiting
  <2>2. d # c /\ client'[d] = client[d]
    BY <1>2, <2>1 DEF Becomes, Idle
  <2>3. m \in DOMAIN sets
    BY <1>2 DEF Waiting
  <2>4. m # n
    BY <2>1, <2>2 DEF TypeInv, ClientsApart, Setting
  <2> QED BY <2>1, <2>2, <2>3, <2>4 DEF Waiting
<1> QED BY <1>1, <1>2

\* A set that is committed becomes the object: its first stripe is the object's.
LEMMA Committed ==
  ASSUME TypeInv, Numbers, NEW c \in Clients, Commit(c),
         NEW n, n = client[c].set, NEW k, k = sets[n].key
  PROVE  /\ k \notin DOMAIN committed /\ k \in DOMAIN updating
         /\ n \in Waiting /\ n \in DOMAIN sets /\ sets[n].stage = "stored"
         /\ 1 \in DOMAIN sets[n].ids /\ updating[k] = <<sets[n].ids[1]>>
<1>1. n \in Waiting /\ n \in DOMAIN sets /\ sets[n].stage = "stored"
  BY CommitEffect, SentFacts
<1>2. SetOK(sets[n]) /\ size \in Nat \ {0}
  BY <1>1 DEF TypeInv, SetsOK, NumbersOK
<1>3. sets[n].ids # <<>> /\ sets[n].ids \in Seq(Int) /\ 1 \in DOMAIN sets[n].ids
  BY <1>1, <1>2 DEF SetOK, SetRecord, Listing
<1>4. sets[n].listed = <<sets[n].ids[1]>>
  BY <1>2, <1>3 DEF SetOK
<1> QED BY <1>1, <1>3, <1>4 DEF Numbers, NotCommitted, OwnEntry, Listing

\* Commit hands the set's number over to the object.
LEMMA CommitNumbers ==
  ASSUME TypeInv, Numbers, NEW c \in Clients, Commit(c) PROVE Numbers'
<1> PICK n : n = client[c].set
  OBVIOUS
<1> PICK k : k = sets[n].key
  OBVIOUS
<1>1. /\ k \notin DOMAIN committed
      /\ n \in Waiting /\ n \in DOMAIN sets /\ sets[n].stage = "stored"
      /\ 1 \in DOMAIN sets[n].ids /\ updating[k] = <<sets[n].ids[1]>> /\ k \in DOMAIN updating
  BY Committed
<1>2. Commits(c, n, k) /\ UNCHANGED <<nextStripe, stripes>> /\ client[c].state = "sent"
  BY <1>1, CommitEffect
<1>3. /\ DOMAIN committed' = DOMAIN committed \cup {k} /\ committed'[k] = updating[k]
      /\ \A j \in DOMAIN committed : committed'[j] = committed[j]
      /\ DOMAIN updating' = DOMAIN updating \ {k}
      /\ \A j \in DOMAIN updating \ {k} : updating'[j] = updating[j]
      /\ DOMAIN sets' = DOMAIN sets \ {n} /\ \A m \in DOMAIN sets' : sets'[m] = sets[m]
      /\ Becomes(c, Idle)
  BY <1>2 DEF Commits, Forgets
<1>4. committed'[k][1] = sets[n].ids[1]
  BY <1>1, <1>3
<1>5. Waiting' \subseteq Waiting \ {n}
  BY <1>2, <1>3, SentFacts
<1>6. Unlocked' = Unlocked
  BY <1>1, <1>3 DEF Unlocked
<1>7. \A m \in Waiting' : m \in DOMAIN sets'
  BY DEF Waiting
<1>8. \A m \in Waiting' : sets[m].stage # "called" => sets[m].key # k
  BY <1>1, <1>5 DEF Numbers, KeysApart
<1>9. IdsBelow'
  BY <1>1, <1>2, <1>3, <1>4 DEF Numbers, IdsBelow
<1>10. IdsApart'
  BY <1>1, <1>3, <1>4 DEF Numbers, IdsApart
<1>11. OneAtATime' /\ LastMade'
  BY <1>2, <1>3, <1>6 DEF Numbers, OneAtATime, LastMade, Unlocked
<1>12. KeysApart'
  <2>1. \A m \in Unlocked' : m \in DOMAIN sets'
    BY DEF Unlocked
  <2> QED BY <1>3, <1>5, <1>6, <1>7, <2>1 DEF Numbers, KeysApart
<1>13. NotCommitted'
  BY <1>3, <1>5, <1>7, <1>8 DEF Numbers, NotCommitted
<1>14. OwnEntry'
  BY <1>3, <1>5, <1>7, <1>8 DEF Numbers, OwnEntry, Listing
<1> QED BY <1>9, <1>10, <1>11, <1>12, <1>13, <1>14 DEF Numbers

\* The number before the next one.
LEMMA OneLess ==
  ASSUME NEW x \in Int, NEW y \in Int, x = y + 1 PROVE x - 1 = y
OBVIOUS

\* Each number comes after another.
LEMMA OneMore ==
  ASSUME NEW x \in Int PROVE \E y \in Int : x = y + 1
<1>1. x - 1 \in Int /\ x = (x - 1) + 1
  OBVIOUS
<1> QED BY <1>1

\* A sequence of one stripe.
LEMMA OneStripe ==
  ASSUME NEW id PROVE ToSet(<<id>>) = {id} /\ Len(<<id>>) = 1
<1>1. DOMAIN <<id>> = {1} /\ <<id>>[1] = id
  OBVIOUS
<1> QED BY <1>1 DEF ToSet

\* An abort that takes back what its set made.
LEMMA Aborted ==
  ASSUME TypeInv, Numbers, NEW c \in Clients, Abort(c), "bad_abort" \notin trouble',
         NEW n, n = client[c].set, NEW k, k = sets[n].key, NEW id \in Int, nextStripe = id + 1
  PROVE  /\ MadeLast(n) /\ Aborts(c, n, k) /\ sets[n].stage = "stored"
         /\ n \in Waiting /\ n \in DOMAIN sets /\ client[c].state = "sent"
         /\ sets[n].ids = <<id>> /\ nextStripe' = id /\ id \in DOMAIN stripes
         /\ DOMAIN stripes' = DOMAIN stripes \ {id}
<1>0. nextStripe - 1 = id
  BY OneLess DEF TypeInv, NumbersOK
<1>1. /\ n \in Waiting /\ n \in DOMAIN sets /\ sets[n].stage = "stored"
      /\ client[c].state = "sent" /\ MadeLast(n)
  BY AbortEffect, SentFacts
<1>2. SetOK(sets[n]) /\ nextStripe \in Int
  BY <1>1 DEF TypeInv, SetsOK, NumbersOK
<1>3. sets[n].ids = <<id>>
  BY <1>0, <1>1, Zenon DEF MadeLast
<1>4. sets[n].listed = <<id>>
  <2>1. <<id>> # <<>> /\ <<id>>[1] = id
    OBVIOUS
  <2> QED BY <1>2, <1>3, <2>1 DEF SetOK
<1>5. k \in DOMAIN updating /\ updating[k] = <<id>> /\ k \notin DOMAIN committed
  BY <1>1, <1>4 DEF Numbers, OwnEntry, NotCommitted, Listing
<1>6. Entry(k) = <<id>>
  BY <1>5 DEF Entry
<1>7. ToSet(<<id>>) = {id} /\ Len(<<id>>) = 1
  BY OneStripe
<1>8. Aborts(c, n, k)
  BY <1>5, AbortEffect
<1>9. DOMAIN stripes' = DOMAIN stripes \ {id} /\ nextStripe' = nextStripe - 1
  BY <1>6, <1>7, <1>8 DEF Aborts
<1>10. id \in DOMAIN stripes
  BY <1>1, <1>3, <1>7 DEF MadeLast
<1>11. nextStripe' = id
  BY <1>0, <1>9
<1> QED BY <1>1, <1>3, <1>8, <1>9, <1>10, <1>11

\* Such an abort gives the last number back.
LEMMA AbortNumbers ==
  ASSUME TypeInv, Numbers, NEW c \in Clients, Abort(c), Without(Disorder)' PROVE Numbers'
<1> PICK n : n = client[c].set
  OBVIOUS
<1> PICK k : k = sets[n].key
  OBVIOUS
<1>4. nextStripe \in Int
  BY DEF TypeInv, NumbersOK
<1> PICK id \in Int : nextStripe = id + 1
  BY <1>4, OneMore
<1>1. /\ Aborts(c, n, k) /\ sets[n].stage = "stored"
      /\ n \in Waiting /\ n \in DOMAIN sets /\ client[c].state = "sent"
      /\ sets[n].ids = <<id>> /\ nextStripe' = id
      /\ DOMAIN stripes' = DOMAIN stripes \ {id}
  BY Aborted DEF Without, Disorder
<1>2. /\ DOMAIN updating' = DOMAIN updating \ {k}
      /\ \A j \in DOMAIN updating \ {k} : updating'[j] = updating[j]
      /\ DOMAIN sets' = DOMAIN sets \ {n} /\ \A m \in DOMAIN sets' : sets'[m] = sets[m]
      /\ Becomes(c, Idle)
  BY <1>1 DEF Aborts, Forgets
<1>3. committed' = committed
  BY AbortEffect
<1>5. Waiting' \subseteq Waiting \ {n}
  BY <1>1, <1>2, SentFacts
<1>6. Unlocked' = Unlocked
  BY <1>1, <1>2 DEF Unlocked
<1>7. \A m \in Waiting' : m \in DOMAIN sets'
  BY DEF Waiting
<1>8. \A m \in Waiting' : sets[m].stage # "called" => sets[m].key # k
  BY <1>1, <1>5 DEF Numbers, KeysApart
<1>9. 1 \in DOMAIN sets[n].ids /\ sets[n].ids[1] = id
  BY <1>1
<1>10. ASSUME NEW m \in DOMAIN sets', NEW i \in DOMAIN sets[m].ids
       PROVE  sets[m].ids[i] < id
  <2>1. sets[m].ids[i] # id
    BY <1>1, <1>2, <1>9 DEF Numbers, IdsApart
  <2>2. sets[m].ids \in Seq(Int)
    BY <1>2 DEF TypeInv, SetsOK, SetOK, SetRecord
  <2>3. sets[m].ids[i] < nextStripe /\ sets[m].ids[i] \in Int
    BY <1>2, <2>2 DEF Numbers, IdsBelow
  <2> QED BY <1>1, <1>4, <2>1, <2>3
<1>11. IdsBelow'
  <2>1. ASSUME NEW j \in DOMAIN committed PROVE committed[j][1] < id
    <3>1. committed[j][1] # id
      BY <1>1, <1>9 DEF Numbers, IdsApart
    <3>2. committed[j][1] < nextStripe /\ committed[j][1] \in Int
      BY DEF Numbers, IdsBelow, TypeInv, TablesOK, One
    <3> QED BY <1>1, <1>4, <3>1, <3>2
  <2>2. ASSUME NEW jd \in DOMAIN stripes' PROVE jd < id
    <3>1. jd < nextStripe /\ jd \in Int /\ jd # id
      BY <1>1 DEF Numbers, IdsBelow, TypeInv, StripesOK
    <3> QED BY <1>1, <1>4, <3>1
  <2>3. ASSUME NEW m \in DOMAIN sets', sets[m].stage = "numbering" PROVE id <= sets[m].id
    <3>1. nextStripe <= sets[m].id /\ sets[m].id \in Int
      BY <1>2, <2>3 DEF Numbers, IdsBelow, TypeInv, SetsOK, SetOK, SetRecord
    <3> QED BY <1>1, <1>4, <3>1
  <2> QED BY <1>1, <1>2, <1>3, <1>10, <2>1, <2>2, <2>3 DEF IdsBelow
<1>12. IdsApart'
  BY <1>2, <1>3 DEF Numbers, IdsApart
<1>13. OneAtATime' /\ LastMade'
  <2>1. ASSUME NEW m \in Unlocked, sets[m].ids # <<>> PROVE FALSE
    <3>1. m \in DOMAIN sets' /\ nextStripe = sets[m].ids[Len(sets[m].ids)] + 1
      BY <1>1, <1>2, <2>1 DEF Unlocked, Numbers, LastMade
    <3>2. sets[m].ids \in Seq(Int)
      BY <1>2, <3>1 DEF TypeInv, SetsOK, SetOK, SetRecord
    <3>3. Len(sets[m].ids) \in DOMAIN sets[m].ids
      BY <2>1, <3>2
    <3>4. sets[m].ids[Len(sets[m].ids)] < id /\ sets[m].ids[Len(sets[m].ids)] \in Int
      BY <1>10, <3>1, <3>2, <3>3
    <3> QED BY <1>1, <1>4, <3>1, <3>4
  <2> QED BY <1>2, <1>6, <2>1 DEF Numbers, OneAtATime, LastMade, Unlocked
<1>14. KeysApart'
  <2>1. \A m \in Unlocked' : m \in DOMAIN sets'
    BY DEF Unlocked
  <2> QED BY <1>2, <1>5, <1>6, <1>7, <2>1 DEF Numbers, KeysApart
<1>15. NotCommitted'
  BY <1>2, <1>3, <1>5, <1>7, <1>8 DEF Numbers, NotCommitted
<1>16. OwnEntry'
  BY <1>2, <1>5, <1>7, <1>8 DEF Numbers, OwnEntry, Listing
<1> QED BY <1>11, <1>12, <1>13, <1>14, <1>15, <1>16 DEF Numbers

\* A reset when nothing runs.
LEMMA ResetNumbers ==
  ASSUME TypeInv, NEW c \in Clients, Reset(c), Without(Disorder)' PROVE Numbers'
<1>1. /\ DOMAIN sets' = {} /\ DOMAIN stripes' = {} /\ DOMAIN updating' = {}
      /\ DOMAIN committed' = {}
  BY ResetEffect DEF Without, Disorder
<1>2. Waiting' = {} /\ Unlocked' = {}
  BY <1>1 DEF Waiting, Unlocked
<1>3. IdsBelow' /\ IdsApart'
  BY <1>1 DEF IdsBelow, IdsApart
<1>4. OneAtATime' /\ LastMade' /\ KeysApart' /\ NotCommitted' /\ OwnEntry'
  BY <1>2 DEF OneAtATime, LastMade, KeysApart, NotCommitted, OwnEntry
<1> QED BY <1>3, <1>4 DEF Numbers

\* The calls that make no stripes and list no objects.
LEMMA ClientNumbers ==
  ASSUME TypeInv, Numbers, NEW c \in Clients,
         \/ GiveUp(c) \/ Connect(c)
         \/ Read(c) \/ ReadTorn(c) \/ (\E o \in Clients : ReadsCross(c, o))
         \/ List(c) \/ DeleteBlocks(c) \/ EraseStripes(c) \/ ForgetObjects(c)
         \/ Snapshot(c) \/ Revert(c)
  PROVE  Numbers'
<1>1. ASSUME GiveUp(c) PROVE Numbers'
  <2>1. Becomes(c, Idle) /\ UNCHANGED <<sets, nextStripe, updating, stripes, committed>>
    BY <1>1, GiveUpEffect
  <2>2. Waiting' \subseteq Waiting
    BY <2>1, WaitingLeft DEF Idle
  <2> QED BY <2>1, <2>2, NumbersKept
<1>2. ASSUME Connect(c) PROVE Numbers'
  <2> PICK n : n = client[c].set
    OBVIOUS
  <2>1. PICK p \in Proxies : Connects(c, n, p)
    BY <1>2, ConnectEffect
  <2>2. /\ client[c].state = "set" /\ Becomes(c, [state |-> "sent", set |-> n])
        /\ UNCHANGED <<sets, nextStripe, updating, stripes, committed>>
    BY <2>1 DEF Connects
  <2>3. Waiting' \subseteq Waiting
    BY <2>2 DEF Becomes, Waiting
  <2> QED BY <2>2, <2>3, NumbersKept
<1>3. ASSUME Read(c) PROVE Numbers'
  <2> DEFINE x == [state |-> "got", want |-> client[c].want,
                   got |-> Stored(client[c].parts[1])]
  <2>1. Becomes(c, x) /\ UNCHANGED <<sets, nextStripe, updating, stripes, committed>>
    BY <1>3, ReadEffect
  <2>2. x.state = "got"
    OBVIOUS
  <2>3. Waiting' \subseteq Waiting
    <3> HIDE DEF x
    <3> QED BY <2>1, <2>2, WaitingLeft
  <2> QED BY <2>1, <2>3, NumbersKept
<1>4. ASSUME List(c) PROVE Numbers'
  <2>1. PICK ids \in SUBSET DOMAIN stripes : Lists(c, ids)
    BY <1>4, ListEffect
  <2>2. /\ Becomes(c, [state |-> "listed", ids |-> ids])
        /\ UNCHANGED <<sets, nextStripe, updating, stripes, committed>>
    BY <2>1 DEF Lists
  <2>3. Waiting' \subseteq Waiting
    BY <2>2, WaitingLeft
  <2> QED BY <2>2, <2>3, NumbersKept
<1>5. ASSUME DeleteBlocks(c) PROVE Numbers'
  <2> DEFINE x == [state |-> "deleting", ids |-> client[c].ids,
                   keys |-> UNION {stripes[id].objects : id \in client[c].ids}]
  <2>1. /\ Becomes(c, x) \/ client' = client
        /\ UNCHANGED <<sets, nextStripe, updating, stripes, committed>>
    BY <1>5, DeleteBlocksEffect
  <2>2. x.state = "deleting"
    OBVIOUS
  <2>3. Waiting' \subseteq Waiting
    <3> HIDE DEF x
    <3> QED BY <2>1, <2>2, WaitingLeft, WaitingKept
  <2> QED BY <2>1, <2>3, NumbersKept
<1>6. ASSUME EraseStripes(c) PROVE Numbers'
  <2> DEFINE x == [state |-> "erased", ids |-> client[c].ids, keys |-> client[c].keys]
  <2>1. /\ Becomes(c, x) /\ UNCHANGED <<sets, nextStripe, updating, committed>>
        /\ DOMAIN stripes' \subseteq DOMAIN stripes
    BY <1>6, EraseStripesEffect
  <2>2. x.state = "erased"
    OBVIOUS
  <2>3. Waiting' \subseteq Waiting
    <3> HIDE DEF x
    <3> QED BY <2>1, <2>2, WaitingLeft
  <2> QED BY <2>1, <2>3, NumbersKept
<1>7. ASSUME ForgetObjects(c) PROVE Numbers'
  <2>1. /\ Becomes(c, Idle) /\ UNCHANGED <<sets, nextStripe, updating, stripes>>
        /\ \A k \in DOMAIN committed' : k \in DOMAIN committed /\ committed'[k] = committed[k]
    BY <1>7, ForgetObjectsEffect
  <2>2. Waiting' \subseteq Waiting
    BY <2>1, WaitingLeft DEF Idle
  <2> QED BY <2>1, <2>2, NumbersKept
<1>8. ASSUME Snapshot(c) PROVE Numbers'
  <2>1. UNCHANGED <<sets, nextStripe, updating, stripes, committed, client>>
    BY <1>8, SnapshotEffect
  <2> QED BY <2>1, WaitingKept, NumbersKept
<1>9. ASSUME Revert(c) PROVE Numbers'
  <2>1. /\ UNCHANGED <<sets, nextStripe, updating, committed, client>>
        /\ DOMAIN stripes' = DOMAIN stripes
    BY <1>9, RevertEffect
  <2> QED BY <2>1, WaitingKept, NumbersKept
<1>10. ASSUME ReadTorn(c) \/ \E o \in Clients : ReadsCross(c, o) PROVE Numbers'
  <2>1. GetsEnd /\ UNCHANGED <<sets, nextStripe, updating, stripes, committed>>
    BY <1>10, BrokenReadEffect DEF ReadsBreak
  <2>2. Waiting' = Waiting
    BY <2>1, GetsEndTypes
  <2> QED BY <2>1, <2>2, NumbersKept
<1> QED BY <1>1, <1>2, <1>3, <1>4, <1>5, <1>6, <1>7, <1>8, <1>9, <1>10

\* The other steps that make no stripes and list no objects.
LEMMA OtherNumbers ==
  ASSUME TypeInv, Numbers,
         \/ UNCHANGED vars \/ TablesBreak \/ EraseBreaks
         \/ \E c \in Clients, k \in Keys : Get(c, k)
         \/ \E id \in DOMAIN stripes : Repair(id) \/ Lose(id)
  PROVE  Numbers'
<1>1. ASSUME UNCHANGED vars \/ TablesBreak \/ EraseBreaks PROVE Numbers'
  <2>1. UNCHANGED <<sets, nextStripe, updating, stripes, committed, client>>
    BY <1>1, BreakEffect DEF vars, tables, work
  <2> QED BY <2>1, WaitingKept, NumbersKept
<1>2. ASSUME NEW c \in Clients, NEW k \in Keys, Get(c, k) PROVE Numbers'
  <2> DEFINE x == [state |-> "get", want |-> current[k],
                   parts |-> <<Spot(committed[k][1])>>]
  <2>1. /\ Becomes(c, x) \/ client' = client
        /\ UNCHANGED <<sets, nextStripe, updating, stripes, committed>>
    BY <1>2, GetEffect
  <2>2. x.state = "get"
    OBVIOUS
  <2>3. Waiting' \subseteq Waiting
    <3> HIDE DEF x
    <3> QED BY <2>1, <2>2, WaitingLeft, WaitingKept
  <2> QED BY <2>1, <2>3, NumbersKept
<1>3. ASSUME NEW id \in DOMAIN stripes, Repair(id) PROVE Numbers'
  <2>1. PICK p \in Proxies \ {stripes[id].at} : Relocates(id, p)
    BY <1>3, RepairEffect
  <2>2. /\ UNCHANGED <<sets, nextStripe, updating, committed, client>>
        /\ DOMAIN stripes' = DOMAIN stripes
    BY <2>1 DEF Relocates
  <2> QED BY <2>2, WaitingKept, NumbersKept
<1>4. ASSUME NEW id \in DOMAIN stripes, Lose(id) PROVE Numbers'
  <2>1. UNCHANGED <<sets, nextStripe, updating, stripes, committed, client>>
    BY <1>4, LoseEffect
  <2> QED BY <2>1, WaitingKept, NumbersKept
<1> QED BY <1>1, <1>2, <1>3, <1>4

\* Every step keeps the numbers apart.
LEMMA NextNumbers ==
  ASSUME TypeInv, NumbersInv, [Next]_vars PROVE NumbersInv'
<1> SUFFICES ASSUME Without(Disorder)' PROVE Numbers'
  BY DEF NumbersInv
<1>0. Numbers
  BY TroubleGrows, WithoutBefore DEF NumbersInv
<1>1. CASE UNCHANGED vars \/ TablesBreak \/ EraseBreaks
  BY <1>0, <1>1, OtherNumbers
<1>2. ASSUME NEW n \in DOMAIN sets,
             Check(n) \/ Number(n) \/ MakeStripe(n) \/ Enter(n) \/ Dispatch(n)
      PROVE  Numbers'
  BY <1>0, <1>2, CheckNumbers, NumberNumbers, MakeStripeNumbers, EnterNumbers, DispatchNumbers
<1>3. ASSUME NEW t \in storing, NEW k \in conns, Store(t, k) \/ StoreFails(t, k)
      PROVE  Numbers'
  BY <1>0, <1>3, StoreNumbers
<1>4. ASSUME NEW c \in Clients, NEW k \in Keys, Set(c, k) \/ Get(c, k) PROVE Numbers'
  BY <1>0, <1>4, SetNumbers, OtherNumbers
<1>5. ASSUME NEW c \in Clients,
             \/ GiveUp(c) \/ Connect(c) \/ Commit(c) \/ Abort(c)
             \/ Read(c) \/ ReadTorn(c) \/ (\E o \in Clients : ReadsCross(c, o))
             \/ List(c) \/ DeleteBlocks(c) \/ EraseStripes(c) \/ ForgetObjects(c)
             \/ Reset(c) \/ Snapshot(c) \/ Revert(c)
      PROVE  Numbers'
  BY <1>0, <1>5, CommitNumbers, AbortNumbers, ResetNumbers, ClientNumbers
<1>6. ASSUME NEW id \in DOMAIN stripes, Repair(id) \/ Lose(id) PROVE Numbers'
  BY <1>0, <1>6, OtherNumbers
<1> QED BY <1>1, <1>2, <1>3, <1>4, <1>5, <1>6 DEF Next

\* In the beginning there are no numbers.
LEMMA InitNumbers == Init => NumbersInv
<1> SUFFICES ASSUME Init PROVE Numbers
  BY DEF NumbersInv
<1>1. DOMAIN sets = {} /\ DOMAIN stripes = {} /\ DOMAIN updating = {} /\ DOMAIN committed = {}
  BY DEF Init, Empty
<1>2. Waiting = {} /\ Unlocked = {}
  BY <1>1 DEF Waiting, Unlocked
<1>3. IdsBelow /\ IdsApart
  BY <1>1 DEF IdsBelow, IdsApart
<1> QED BY <1>2, <1>3
     DEF Numbers, OneAtATime, LastMade, KeysApart, NotCommitted, OwnEntry

----------------------------------------------------------------------------
(* The two tables: a stripe answers for the object that is committed with it, *)
(* or for the set that made it, as long as nothing is deleted that somebody    *)
(* works on.                                                                   *)

Early == Disorder \cup {"deleted_early"}

\* A stripe lists the object that is committed with it, or the key of the set that made it.
ListedByOne ==
  \A id \in DOMAIN stripes : \A k \in stripes[id].objects :
    \/ k \in DOMAIN committed /\ committed[k][1] = id
    \/ \E n \in DOMAIN sets : sets[n].key = k /\ sets[n].ids # <<>> /\ id = sets[n].ids[1]

\* What a set has made is there, and its first stripe lists its key.
SetsThere ==
  \A n \in DOMAIN sets :
    /\ \A i \in DOMAIN sets[n].ids : sets[n].ids[i] \in DOMAIN stripes
    /\ sets[n].ids # <<>> => /\ sets[n].ids[1] \in DOMAIN stripes
                             /\ sets[n].key \in stripes[sets[n].ids[1]].objects

ObjectsThere ==
  \A k \in DOMAIN committed :
    k \notin Deleting =>
      committed[k][1] \in DOMAIN stripes /\ k \in stripes[committed[k][1]].objects

\* Clients that delete hold different stripes, which are there until they are erased.
HeldApart ==
  /\ \A c \in Clients : Holding(c) => \A id \in client[c].ids : id < nextStripe
  /\ \A c, d \in Clients :
       c # d /\ Holding(c) /\ Holding(d) => client[c].ids \cap client[d].ids = {}
  /\ \A c \in Clients :
       client[c].state \in {"listed", "deleting"} => client[c].ids \subseteq DOMAIN stripes
  /\ \A c \in Clients : client[c].state = "erased" => client[c].ids \cap DOMAIN stripes = {}

\* Stripes that are being deleted are of no set, and the objects that go with them are
\* those that are committed with them.
RemovedTogether ==
  \A c \in Clients : Removing(c) =>
    /\ \A n \in DOMAIN sets : \A i \in DOMAIN sets[n].ids : sets[n].ids[i] \notin client[c].ids
    /\ client[c].keys \subseteq DOMAIN committed
    /\ \A k \in DOMAIN committed : committed[k][1] \in client[c].ids <=> k \in client[c].keys

Index == ListedByOne /\ SetsThere /\ ObjectsThere /\ HeldApart /\ RemovedTogether
IndexInv == Without(Early) => Index

\* An object that is being deleted is that of a client that removes it.
LEMMA DeletingFact ==
  ASSUME NEW k
  PROVE  k \in Deleting <=> k \in Keys /\ \E c \in Clients : Removing(c) /\ k \in client[c].keys
BY DEF Deleting, InDeletion, Removing

\* The clients that delete are what they were.
HoldersKept ==
  \A c \in Clients : /\ Holding(c)' => client'[c] = client[c]
                     /\ Removing(c) => client'[c] = client[c]

\* A client that neither deletes nor begins to.
LEMMA HoldersSame ==
  ASSUME NEW c \in Clients, NEW x, Becomes(c, x), ~Removing(c),
         x.state \notin {"listed", "deleting", "erased"}
  PROVE  HoldersKept
BY DEF HoldersKept, Holding, Removing, Becomes

\* While holders stay, the same objects are being deleted.
LEMMA DeletingKept ==
  ASSUME HoldersKept PROVE Deleting' = Deleting
<1>1. ASSUME NEW c \in Clients
      PROVE  /\ Removing(c)' <=> Removing(c)
             /\ Removing(c) => client'[c] = client[c]
  BY DEF HoldersKept, Removing, Holding
<1> QED BY <1>1 DEF Deleting, InDeletion, Removing

\* Steps that neither list nor erase stripes or objects.
LEMMA IndexKept ==
  ASSUME Index, HoldersKept, UNCHANGED <<committed, nextStripe>>,
         DOMAIN stripes' = DOMAIN stripes,
         \A id \in DOMAIN stripes : stripes'[id].objects = stripes[id].objects,
         \A n \in DOMAIN sets : /\ n \in DOMAIN sets'
                                /\ sets'[n].key = sets[n].key /\ sets'[n].ids = sets[n].ids,
         \A n \in DOMAIN sets' : n \in DOMAIN sets \/ sets'[n].ids = <<>>
  PROVE  Index'
<1>0. DOMAIN <<>> = {}
  OBVIOUS
<1>1. ListedByOne'
  BY DEF Index, ListedByOne
<1>2. SetsThere'
  <2>1. ASSUME NEW n \in DOMAIN sets', NEW i \in DOMAIN sets'[n].ids
        PROVE  sets'[n].ids[i] \in DOMAIN stripes'
    <3>1. n \in DOMAIN sets
      BY <1>0
    <3> QED BY <3>1 DEF Index, SetsThere
  <2>2. ASSUME NEW n \in DOMAIN sets', sets'[n].ids # <<>>
        PROVE  /\ sets'[n].ids[1] \in DOMAIN stripes'
               /\ sets'[n].key \in stripes'[sets'[n].ids[1]].objects
    BY <2>2 DEF Index, SetsThere
  <2> QED BY <2>1, <2>2 DEF SetsThere
<1>3. ObjectsThere'
  BY DeletingKept DEF Index, ObjectsThere
<1>4. HeldApart'
  <2>1. \A c \in Clients : Holding(c)' => Holding(c) /\ client'[c] = client[c]
    BY DEF HoldersKept, Holding
  <2> QED BY <2>1 DEF Index, HeldApart, Holding
<1>5. RemovedTogether'
  <2>1. ASSUME NEW c \in Clients, Removing(c)' PROVE Removing(c) /\ client'[c] = client[c]
    BY <2>1 DEF HoldersKept, Holding, Removing
  <2>2. \A n \in DOMAIN sets' : \A i \in DOMAIN sets'[n].ids :
          n \in DOMAIN sets /\ sets'[n].ids = sets[n].ids
    BY <1>0
  <2> QED BY <2>1, <2>2 DEF Index, RemovedTogether
<1> QED BY <1>1, <1>2, <1>3, <1>4, <1>5 DEF Index

\* The index stays when only the sets move on, and when places change.
LEMMA MovedIndex ==
  ASSUME Index, NEW n \in DOMAIN sets, NEW s, Moved(n, s),
         HoldersKept, UNCHANGED <<stripes, committed, nextStripe>>
  PROVE  Index'
<1>1. HoldersKept
  OBVIOUS
<1>2. \A m \in DOMAIN sets : /\ m \in DOMAIN sets'
                             /\ sets'[m].key = sets[m].key /\ sets'[m].ids = sets[m].ids
  BY DEF Moved
<1>3. DOMAIN sets' = DOMAIN sets
  BY DEF Moved
<1> QED BY <1>1, <1>2, <1>3, IndexKept

\* Steps of the handler that make no stripe keep the tables.
LEMMA HandlerIndex ==
  ASSUME TypeInv, Index, NEW n \in DOMAIN sets, Check(n) \/ Number(n) \/ Enter(n) \/ Dispatch(n)
  PROVE  Index'
<1>1. UNCHANGED <<stripes, committed, nextStripe, client>>
  BY CheckEffect, NumberEffect, EnterEffect, DispatchEffect
<1>2. sets' = sets \/ \E s \in Stages : Moved(n, s)
  BY CheckEffect, NumberEffect, EnterEffect, DispatchEffect DEF Stages
<1>3. CASE sets' = sets
  BY <1>1, <1>3, IndexKept DEF HoldersKept
<1>4. CASE \E s \in Stages : Moved(n, s)
  <2>1. HoldersKept
    BY <1>1 DEF HoldersKept
  <2> QED BY <1>1, <1>4, <2>1, MovedIndex
<1> QED BY <1>2, <1>3, <1>4

\* Clients whose gets end delete nothing.
LEMMA GetsEndHolders ==
  ASSUME GetsEnd PROVE HoldersKept
<1>1. Stuck.state = "stuck"
  BY DEF Stuck
<1> QED BY <1>1 DEF GetsEnd, HoldersKept, Holding, Removing

\* Storing keeps the tables.
LEMMA StoreIndex ==
  ASSUME TypeInv, Index, NEW t \in storing, NEW k \in conns, Store(t, k) \/ StoreFails(t, k)
  PROVE  Index'
<1>1. /\ k.set \in DOMAIN sets /\ Moved(k.set, "stored") /\ Hangs
      /\ UNCHANGED <<stripes, committed, nextStripe>>
  BY StoreEffect DEF Finishes
<1>2. HoldersKept
  BY <1>1, HangsEnd, GetsEndHolders
<1> QED BY <1>1, <1>2, MovedIndex

\* Broken reads keep the tables.
LEMMA BrokenReadIndex ==
  ASSUME TypeInv, Index, ReadsBreak PROVE Index'
<1>1. HoldersKept
  BY GetsEndHolders DEF ReadsBreak
<1> QED BY <1>1, IndexKept DEF ReadsBreak

\* A set that is called is in no table.
LEMMA SetIndex ==
  ASSUME TypeInv, Index, NEW c \in Clients, NEW k \in Keys, Set(c, k) PROVE Index'
<1> PICK n : n = left.set
  OBVIOUS
<1>1. /\ n \notin DOMAIN sets /\ client[c].state \in {"idle", "got"}
      /\ Becomes(c, [state |-> "set", set |-> n])
      /\ DOMAIN sets' = DOMAIN sets \cup {n} /\ \A m \in DOMAIN sets : sets'[m] = sets[m]
      /\ UNCHANGED <<nextStripe, stripes, committed>>
  BY SetEffect
<1>2. sets'[n] = [key |-> k, stage |-> "called", ids |-> <<>>, id |-> 0,
                  listed |-> <<>>, parts |-> <<>>, proxy |-> {}]
  BY SetEffect
<1>3. sets'[n].ids = <<>>
  BY <1>2
<1>4. HoldersKept
  BY <1>1, HoldersSame DEF Removing
<1> QED BY <1>1, <1>3, <1>4, IndexKept

\* The calls that neither list nor erase.
LEMMA ClientIndex ==
  ASSUME TypeInv, Index, NEW c \in Clients,
         GiveUp(c) \/ Connect(c) \/ Read(c) \/ Snapshot(c) \/ Revert(c)
  PROVE  Index'
<1>1. UNCHANGED <<committed, nextStripe, sets>>
  <2>1. ASSUME Connect(c) PROVE UNCHANGED <<committed, nextStripe, sets>>
    BY <2>1 DEF Connect, tables
  <2> QED BY <2>1, GiveUpEffect, ReadEffect, SnapshotEffect, RevertEffect
<1>2. /\ DOMAIN stripes' = DOMAIN stripes
      /\ \A id \in DOMAIN stripes : stripes'[id].objects = stripes[id].objects
  <2>1. ASSUME Connect(c) PROVE stripes' = stripes
    BY <2>1 DEF Connect, tables
  <2> QED BY <2>1, GiveUpEffect, ReadEffect, SnapshotEffect, RevertEffect
<1>3. HoldersKept
  <2>1. ASSUME GiveUp(c) PROVE HoldersKept
    BY <2>1, GiveUpEffect, HoldersSame DEF Idle, Removing
  <2>2. ASSUME Connect(c) PROVE HoldersKept
    <3> PICK n : n = client[c].set
      OBVIOUS
    <3>1. PICK p \in Proxies : Connects(c, n, p)
      BY <2>2, ConnectEffect
    <3>2. client[c].state = "set" /\ Becomes(c, [state |-> "sent", set |-> n])
      BY <3>1 DEF Connects
    <3> QED BY <3>2, HoldersSame DEF Removing
  <2>3. ASSUME Read(c) PROVE HoldersKept
    <3> DEFINE x == [state |-> "got", want |-> client[c].want,
                     got |-> Stored(client[c].parts[1])]
    <3>1. Becomes(c, x) /\ client[c].state = "get"
      BY <2>3, ReadEffect
    <3>2. x.state = "got"
      OBVIOUS
    <3> HIDE DEF x
    <3> QED BY <3>1, <3>2, HoldersSame DEF Removing
  <2>4. ASSUME Snapshot(c) \/ Revert(c) PROVE HoldersKept
    BY <2>4, SnapshotEffect, RevertEffect DEF HoldersKept
  <2> QED BY <2>1, <2>2, <2>3, <2>4
<1> QED BY <1>1, <1>2, <1>3, IndexKept

\* Gets, repairs and losses keep the tables.
LEMMA OtherIndex ==
  ASSUME TypeInv, Index,
         \/ UNCHANGED vars \/ TablesBreak \/ EraseBreaks
         \/ \E c \in Clients, k \in Keys : Get(c, k)
         \/ \E id \in DOMAIN stripes : Repair(id) \/ Lose(id)
  PROVE  Index'
<1>1. ASSUME UNCHANGED vars \/ TablesBreak \/ EraseBreaks PROVE Index'
  <2>1. UNCHANGED <<sets, nextStripe, stripes, committed, client>>
    BY <1>1, BreakEffect DEF vars, tables, work
  <2> QED BY <2>1, IndexKept DEF HoldersKept
<1>2. ASSUME NEW c \in Clients, NEW k \in Keys, Get(c, k) PROVE Index'
  <2> DEFINE x == [state |-> "get", want |-> current[k],
                   parts |-> <<Spot(committed[k][1])>>]
  <2>1. /\ Becomes(c, x) \/ client' = client
        /\ client[c].state \in {"idle", "got"}
        /\ UNCHANGED <<sets, nextStripe, stripes, committed>>
    BY <1>2, GetEffect
  <2>2. x.state = "get"
    OBVIOUS
  <2>3. HoldersKept
    <3> HIDE DEF x
    <3>1. CASE Becomes(c, x)
      BY <2>1, <2>2, <3>1, HoldersSame DEF Removing
    <3>2. CASE client' = client
      BY <3>2 DEF HoldersKept
    <3> QED BY <2>1, <3>1, <3>2
  <2> QED BY <2>1, <2>3, IndexKept
<1>3. ASSUME NEW id \in DOMAIN stripes, Repair(id) PROVE Index'
  <2>1. PICK p \in Proxies \ {stripes[id].at} : Relocates(id, p)
    BY <1>3, RepairEffect
  <2>2. /\ UNCHANGED <<sets, nextStripe, committed, client>>
        /\ DOMAIN stripes' = DOMAIN stripes
        /\ \A jd \in DOMAIN stripes \ {id} : stripes'[jd] = stripes[jd]
        /\ stripes'[id] = [block |-> stripes[id].block, at |-> p,
                           objects |-> stripes[id].objects]
    BY <2>1 DEF Relocates
  <2>3. \A jd \in DOMAIN stripes : stripes'[jd].objects = stripes[jd].objects
    BY <2>2
  <2> QED BY <2>2, <2>3, IndexKept DEF HoldersKept
<1>4. ASSUME NEW id \in DOMAIN stripes, Lose(id) PROVE Index'
  <2>1. UNCHANGED <<sets, nextStripe, stripes, committed, client>>
    BY <1>4, LoseEffect
  <2> QED BY <2>1, IndexKept DEF HoldersKept
<1> QED BY <1>1, <1>2, <1>3, <1>4

\* The stripe that is made is nobody's yet.
LEMMA MakeStripeIndex ==
  ASSUME TypeInv, Numbers, Index, NEW n \in DOMAIN sets, MakeStripe(n) PROVE Index'
<1> PICK id : id = sets[n].id
  OBVIOUS
<1>0. PICK p \in Proxies : Makes(n, id, p)
  BY MakeStripeEffect
<1>1. /\ sets[n].stage = "numbering" /\ id \in Int /\ nextStripe' = id + 1
      /\ DOMAIN stripes' = DOMAIN stripes \cup {id}
      /\ stripes'[id].objects = IF sets[n].ids = <<>> THEN {sets[n].key} ELSE {}
      /\ \A jd \in DOMAIN stripes : jd # id => stripes'[jd] = stripes[jd]
      /\ DOMAIN sets' = DOMAIN sets /\ \A m \in DOMAIN sets \ {n} : sets'[m] = sets[m]
      /\ sets'[n].key = sets[n].key
      /\ sets'[n].ids = Append(sets[n].ids, id)
      /\ UNCHANGED <<committed, client>>
  BY <1>0 DEF Makes
<1>2. nextStripe \in Int /\ nextStripe <= id
  BY <1>1 DEF TypeInv, NumbersOK, Numbers, IdsBelow
<1>3. sets[n].ids \in Seq(Int)
  BY DEF TypeInv, SetsOK, SetOK, SetRecord
<1>4. /\ DOMAIN sets'[n].ids = DOMAIN sets[n].ids \cup {Len(sets[n].ids) + 1}
      /\ sets'[n].ids[Len(sets[n].ids) + 1] = id
      /\ \A i \in DOMAIN sets[n].ids : sets'[n].ids[i] = sets[n].ids[i]
      /\ sets'[n].ids # <<>>
      /\ sets[n].ids = <<>> => sets'[n].ids[1] = id
      /\ sets[n].ids # <<>> => sets'[n].ids[1] = sets[n].ids[1]
  <2>1. Len(Append(sets[n].ids, id)) = Len(sets[n].ids) + 1 /\ Len(sets[n].ids) \in Nat
    BY <1>1, <1>3
  <2>2. Append(sets[n].ids, id) # <<>>
    <3>1. Len(Append(sets[n].ids, id)) # 0
      BY <2>1
    <3> QED BY <3>1
  <2> QED BY <1>1, <1>3, <2>2
<1>5. id \notin DOMAIN stripes
  <2>1. id \in DOMAIN stripes => id < nextStripe
    BY DEF Numbers, IdsBelow
  <2> QED BY <1>1, <1>2, <2>1
<1>6. ASSUME NEW c \in Clients, Holding(c) PROVE id \notin client[c].ids
  <2>1. id \in client[c].ids => id < nextStripe
    BY <1>6 DEF Index, HeldApart
  <2> QED BY <1>1, <1>2, <2>1
<1>7. HoldersKept
  BY <1>1 DEF HoldersKept
<1>8. ListedByOne'
  <2>1. ASSUME NEW jd \in DOMAIN stripes', NEW k \in stripes'[jd].objects
        PROVE  \/ k \in DOMAIN committed' /\ committed'[k][1] = jd
               \/ \E m \in DOMAIN sets' :
                    sets'[m].key = k /\ sets'[m].ids # <<>> /\ jd = sets'[m].ids[1]
    <3>1. CASE jd = id
      BY <1>1, <1>4, <2>1, <3>1
    <3>2. CASE jd # id
      <4>1. jd \in DOMAIN stripes /\ k \in stripes[jd].objects
        BY <1>1, <2>1, <3>2
      <4>2. CASE k \in DOMAIN committed /\ committed[k][1] = jd
        BY <1>1, <4>2
      <4>3. ASSUME NEW m \in DOMAIN sets,
                   sets[m].key = k /\ sets[m].ids # <<>> /\ jd = sets[m].ids[1]
            PROVE  sets'[m].key = k /\ sets'[m].ids # <<>> /\ jd = sets'[m].ids[1]
        BY <1>1, <1>4, <4>3
      <4> QED BY <1>1, <4>1, <4>2, <4>3 DEF Index, ListedByOne
    <3> QED BY <3>1, <3>2
  <2> QED BY <2>1 DEF ListedByOne
<1>9. SetsThere'
  <2>1. ASSUME NEW m \in DOMAIN sets', NEW i \in DOMAIN sets'[m].ids
        PROVE  sets'[m].ids[i] \in DOMAIN stripes'
    <3>1. CASE m = n /\ i = Len(sets[n].ids) + 1
      BY <1>1, <1>4, <3>1
    <3>2. CASE ~(m = n /\ i = Len(sets[n].ids) + 1)
      <4>1. i \in DOMAIN sets[m].ids /\ sets'[m].ids[i] = sets[m].ids[i]
        BY <1>1, <1>4, <3>2
      <4> QED BY <1>1, <4>1 DEF Index, SetsThere
    <3> QED BY <3>1, <3>2
  <2>2. ASSUME NEW m \in DOMAIN sets', sets'[m].ids # <<>>
        PROVE  /\ sets'[m].ids[1] \in DOMAIN stripes'
               /\ sets'[m].key \in stripes'[sets'[m].ids[1]].objects
    <3>1. CASE m = n /\ sets[n].ids = <<>>
      BY <1>1, <1>4, <3>1
    <3>2. CASE ~(m = n /\ sets[n].ids = <<>>)
      <4>1. /\ m \in DOMAIN sets /\ sets[m].ids # <<>> /\ sets'[m].ids[1] = sets[m].ids[1]
            /\ sets'[m].key = sets[m].key
        BY <1>1, <1>4, <2>2, <3>2
      <4>2. /\ sets[m].ids[1] \in DOMAIN stripes
            /\ sets[m].key \in stripes[sets[m].ids[1]].objects
        BY <4>1 DEF Index, SetsThere
      <4> QED BY <1>1, <1>5, <4>1, <4>2
    <3> QED BY <3>1, <3>2
  <2> QED BY <2>1, <2>2 DEF SetsThere
<1>10. ObjectsThere'
  BY <1>1, <1>5, <1>7, DeletingKept DEF Index, ObjectsThere
<1>11. HeldApart'
  <2>1. ASSUME NEW c \in Clients, Holding(c)', NEW jd \in client'[c].ids PROVE jd < nextStripe'
    <3>1. client[c].ids \in SUBSET Int
      BY <1>1, <2>1, ClientShapes DEF TypeInv, Holding, Removing
    <3>2. jd < nextStripe /\ jd \in Int
      BY <1>1, <2>1, <3>1 DEF Index, HeldApart, Holding
    <3> QED BY <1>1, <1>2, <3>2
  <2>2. \A c \in Clients : client'[c].state = "erased" => client'[c].ids \cap DOMAIN stripes' = {}
    BY <1>1, <1>6 DEF Index, HeldApart, Holding
  <2> QED BY <1>1, <2>1, <2>2 DEF Index, HeldApart, Holding
<1>12. RemovedTogether'
  <2>1. ASSUME NEW c \in Clients, Removing(c), NEW m \in DOMAIN sets',
               NEW i \in DOMAIN sets'[m].ids
        PROVE  sets'[m].ids[i] \notin client[c].ids
    <3>1. id \notin client[c].ids
      BY <1>6, <2>1 DEF Removing, Holding
    <3>2. CASE m = n /\ i = Len(sets[n].ids) + 1
      BY <1>1, <1>4, <3>1, <3>2
    <3>3. CASE ~(m = n /\ i = Len(sets[n].ids) + 1)
      <4>1. i \in DOMAIN sets[m].ids /\ sets'[m].ids[i] = sets[m].ids[i]
        BY <1>1, <1>4, <3>3
      <4> QED BY <1>1, <2>1, <4>1 DEF Index, RemovedTogether
    <3> QED BY <3>2, <3>3
  <2> QED BY <1>1, <2>1 DEF Index, RemovedTogether, Removing
<1> QED BY <1>8, <1>9, <1>10, <1>11, <1>12 DEF Index

\* The object that is committed is the one its set's stripe lists.
LEMMA CommitIndex ==
  ASSUME TypeInv, Numbers, Index, NEW c \in Clients, Commit(c) PROVE Index'
<1> PICK n : n = client[c].set
  OBVIOUS
<1> PICK k : k = sets[n].key
  OBVIOUS
<1>1. /\ k \notin DOMAIN committed
      /\ n \in DOMAIN sets /\ 1 \in DOMAIN sets[n].ids /\ updating[k] = <<sets[n].ids[1]>>
      /\ k \in DOMAIN updating
  BY Committed
<1>2. Commits(c, n, k) /\ UNCHANGED <<nextStripe, stripes>> /\ client[c].state = "sent"
  BY <1>1, CommitEffect
<1>3. /\ DOMAIN committed' = DOMAIN committed \cup {k} /\ committed'[k] = updating[k]
      /\ \A j \in DOMAIN committed : committed'[j] = committed[j]
      /\ DOMAIN sets' = DOMAIN sets \ {n} /\ \A m \in DOMAIN sets' : sets'[m] = sets[m]
      /\ Becomes(c, Idle)
  BY <1>2 DEF Commits, Forgets
<1>4. committed'[k][1] = sets[n].ids[1]
  BY <1>1, <1>3
<1>5. sets[n].ids # <<>>
  BY <1>1
<1>6. HoldersKept
  BY <1>2, <1>3, HoldersSame DEF Idle, Removing
<1>7. \A d \in Clients : /\ Holding(d)' => Holding(d) /\ client'[d] = client[d]
                         /\ Removing(d)' => Removing(d) /\ client'[d] = client[d]
  BY <1>6 DEF HoldersKept, Holding, Removing
<1>8. ListedByOne'
  <2>1. ASSUME NEW id \in DOMAIN stripes', NEW j \in stripes'[id].objects
        PROVE  \/ j \in DOMAIN committed' /\ committed'[j][1] = id
               \/ \E m \in DOMAIN sets' :
                    sets'[m].key = j /\ sets'[m].ids # <<>> /\ id = sets'[m].ids[1]
    <3>1. CASE j \in DOMAIN committed /\ committed[j][1] = id
      BY <1>3, <3>1
    <3>2. ASSUME NEW m \in DOMAIN sets, m # n,
                 sets[m].key = j /\ sets[m].ids # <<>> /\ id = sets[m].ids[1]
          PROVE  /\ m \in DOMAIN sets'
                 /\ sets'[m].key = j /\ sets'[m].ids # <<>> /\ id = sets'[m].ids[1]
      BY <1>3, <3>2
    <3>3. CASE sets[n].key = j /\ id = sets[n].ids[1]
      BY <1>3, <1>4, <3>3
    <3>4. id \in DOMAIN stripes /\ j \in stripes[id].objects
      BY <1>2, <2>1
    <3> QED BY <3>1, <3>2, <3>3, <3>4 DEF Index, ListedByOne
  <2> QED BY <2>1 DEF ListedByOne
<1>9. SetsThere'
  BY <1>2, <1>3 DEF Index, SetsThere
<1>10. ObjectsThere'
  <2>1. k \in stripes[sets[n].ids[1]].objects /\ sets[n].ids[1] \in DOMAIN stripes
    BY <1>1, <1>5 DEF Index, SetsThere
  <2> QED BY <1>2, <1>3, <1>4, <1>6, <2>1, DeletingKept DEF Index, ObjectsThere
<1>11. HeldApart'
  BY <1>2, <1>7 DEF Index, HeldApart, Holding
<1>12. RemovedTogether'
  <2>1. ASSUME NEW d \in Clients, Removing(d)
        PROVE  /\ committed'[k][1] \notin client[d].ids /\ k \notin client[d].keys
    BY <1>1, <1>4, <2>1 DEF Index, RemovedTogether
  <2> QED BY <1>3, <1>7, <2>1 DEF Index, RemovedTogether
<1> QED BY <1>8, <1>9, <1>10, <1>11, <1>12 DEF Index

\* The stripe that is taken back is of no other set and no object.
LEMMA AbortIndex ==
  ASSUME TypeInv, Numbers, Index, NEW c \in Clients, Abort(c), Without(Early)' PROVE Index'
<1> PICK n : n = client[c].set
  OBVIOUS
<1> PICK k : k = sets[n].key
  OBVIOUS
<1>0. nextStripe \in Int
  BY DEF TypeInv, NumbersOK
<1> PICK id \in Int : nextStripe = id + 1
  BY <1>0, OneMore
<1>1. /\ MadeLast(n) /\ Aborts(c, n, k) /\ client[c].state = "sent" /\ n \in DOMAIN sets
      /\ sets[n].ids = <<id>> /\ nextStripe' = id
      /\ DOMAIN stripes' = DOMAIN stripes \ {id}
  BY Aborted DEF Without, Early, Disorder
<1>2. /\ DOMAIN sets' = DOMAIN sets \ {n} /\ \A m \in DOMAIN sets' : sets'[m] = sets[m]
      /\ \A jd \in DOMAIN stripes' : stripes'[jd] = stripes[jd]
      /\ Becomes(c, Idle)
  BY <1>1 DEF Aborts, Forgets
<1>3. committed' = committed
  BY AbortEffect
<1>4. \A d \in Clients : Holding(d) => id \notin client[d].ids
  <2>1. InUse({id}) = {}
    BY <1>1, OneStripe DEF MadeLast
  <2> QED BY <2>1 DEF InUse, Holding
<1>5. 1 \in DOMAIN sets[n].ids /\ sets[n].ids[1] = id
  BY <1>1
<1>6. \A j \in DOMAIN committed : committed[j][1] # id
  BY <1>1, <1>5 DEF Numbers, IdsApart
<1>7. \A m \in DOMAIN sets' : \A i \in DOMAIN sets[m].ids : sets[m].ids[i] # id
  BY <1>1, <1>2, <1>5 DEF Numbers, IdsApart
<1>8. \A m \in DOMAIN sets' : sets[m].ids # <<>> => 1 \in DOMAIN sets[m].ids
  <2>1. \A m \in DOMAIN sets' : sets[m].ids \in Seq(Int)
    BY <1>2 DEF TypeInv, SetsOK, SetOK, SetRecord
  <2> QED BY <2>1
<1>9. HoldersKept
  BY <1>1, <1>2, HoldersSame DEF Idle, Removing
<1>10. \A d \in Clients : /\ Holding(d)' => Holding(d) /\ client'[d] = client[d]
                          /\ Removing(d)' => Removing(d) /\ client'[d] = client[d]
  BY <1>9 DEF HoldersKept, Holding, Removing
<1>11. ListedByOne'
  <2>1. \A jd \in DOMAIN stripes' : jd # sets[n].ids[1]
    BY <1>1, <1>5
  <2> QED BY <1>1, <1>2, <1>3, <2>1 DEF Index, ListedByOne
<1>12. SetsThere'
  <2>1. ASSUME NEW m \in DOMAIN sets', NEW i \in DOMAIN sets'[m].ids
        PROVE  sets'[m].ids[i] \in DOMAIN stripes'
    BY <1>1, <1>2, <1>7 DEF Index, SetsThere
  <2>2. ASSUME NEW m \in DOMAIN sets', sets'[m].ids # <<>>
        PROVE  /\ sets'[m].ids[1] \in DOMAIN stripes'
               /\ sets'[m].key \in stripes'[sets'[m].ids[1]].objects
    <3>1. sets[m].ids[1] # id
      BY <1>2, <1>7, <1>8, <2>2
    <3>2. /\ sets[m].ids[1] \in DOMAIN stripes
          /\ sets[m].key \in stripes[sets[m].ids[1]].objects
      BY <1>2, <2>2 DEF Index, SetsThere
    <3> QED BY <1>1, <1>2, <3>1, <3>2
  <2> QED BY <2>1, <2>2 DEF SetsThere
<1>13. ObjectsThere'
  BY <1>1, <1>2, <1>3, <1>6, <1>9, DeletingKept DEF Index, ObjectsThere
<1>14. HeldApart'
  <2>1. ASSUME NEW d \in Clients, Holding(d), NEW jd \in client[d].ids PROVE jd < id
    <3>1. jd # id
      BY <1>4, <2>1
    <3>2. jd \in Int
      BY <2>1, ClientShapes DEF TypeInv, Holding, Removing
    <3>3. jd < nextStripe
      BY <2>1 DEF Index, HeldApart
    <3> QED BY <3>1, <3>2, <3>3
  <2>2. \A d \in Clients : client[d].state \in {"listed", "deleting"} =>
                             client[d].ids \subseteq DOMAIN stripes'
    BY <1>1, <1>4 DEF Index, HeldApart, Holding
  <2>3. \A d \in Clients : client[d].state = "erased" => client[d].ids \cap DOMAIN stripes' = {}
    BY <1>1 DEF Index, HeldApart
  <2> QED BY <1>1, <1>10, <2>1, <2>2, <2>3 DEF Index, HeldApart, Holding
<1>15. RemovedTogether'
  BY <1>2, <1>3, <1>10 DEF Index, RemovedTogether
<1> QED BY <1>11, <1>12, <1>13, <1>14, <1>15 DEF Index

\* Stripes that are listed for deletion are nobody else's.
LEMMA ListIndex ==
  ASSUME TypeInv, Numbers, Index, NEW c \in Clients, List(c), Without(Early)' PROVE Index'
<1>1. PICK ids \in SUBSET DOMAIN stripes : Lists(c, ids)
  BY ListEffect
<1>2. /\ client[c].state \in {"idle", "got"} /\ Becomes(c, [state |-> "listed", ids |-> ids])
      /\ InUse(ids) = {} /\ UNCHANGED <<sets, stripes, committed, nextStripe>>
  BY <1>1 DEF Lists, Without, Early
<1>3. client'[c].state = "listed" /\ client'[c].ids = ids
  BY <1>2 DEF Becomes
<1>4. \A d \in Clients : Holding(d) => client[d].ids \cap ids = {}
  BY <1>2 DEF InUse, Holding
<1>5. \A d \in Clients \ {c} : client'[d] = client[d]
  BY <1>2 DEF Becomes
<1>6. Deleting' = Deleting
  BY <1>2, <1>3, <1>5 DEF Deleting, InDeletion
<1>7. ListedByOne' /\ SetsThere' /\ ObjectsThere'
  BY <1>2, <1>6 DEF Index, ListedByOne, SetsThere, ObjectsThere
<1>8. HeldApart'
  <2>1. \A id \in ids : id < nextStripe
    BY DEF Numbers, IdsBelow
  <2>2. \A d, e \in Clients :
          d # e /\ Holding(d)' /\ Holding(e)' => client'[d].ids \cap client'[e].ids = {}
    <3>1. ASSUME NEW d \in Clients, NEW e \in Clients, d # e, Holding(d)', Holding(e)'
          PROVE  client'[d].ids \cap client'[e].ids = {}
      <4>1. CASE d = c
        BY <1>3, <1>4, <1>5, <3>1, <4>1 DEF Holding
      <4>2. CASE e = c
        BY <1>3, <1>4, <1>5, <3>1, <4>2 DEF Holding
      <4>3. CASE d # c /\ e # c
        BY <1>5, <3>1, <4>3 DEF Index, HeldApart, Holding
      <4> QED BY <4>1, <4>2, <4>3
    <3> QED BY <3>1
  <2>3. \A d \in Clients : Holding(d)' => \A id \in client'[d].ids : id < nextStripe'
    BY <1>2, <1>3, <1>5, <2>1 DEF Index, HeldApart, Holding
  <2>4. \A d \in Clients : client'[d].state \in {"listed", "deleting"} =>
                             client'[d].ids \subseteq DOMAIN stripes'
    BY <1>2, <1>3, <1>5 DEF Index, HeldApart
  <2>5. \A d \in Clients : client'[d].state = "erased" =>
                             client'[d].ids \cap DOMAIN stripes' = {}
    BY <1>2, <1>3, <1>5 DEF Index, HeldApart
  <2> QED BY <2>2, <2>3, <2>4, <2>5 DEF HeldApart
<1>9. RemovedTogether'
  <2>1. \A d \in Clients : Removing(d)' => Removing(d) /\ client'[d] = client[d]
    BY <1>3, <1>5 DEF Removing
  <2> QED BY <1>2, <2>1 DEF Index, RemovedTogether
<1> QED BY <1>7, <1>8, <1>9 DEF Index

\* What a client that is about to delete goes on with: its stripes are there.
LEMMA ListedThere ==
  ASSUME Index, NEW c \in Clients, client[c].state = "listed"
  PROVE  client[c].ids \subseteq DOMAIN stripes
BY DEF Index, HeldApart

\* The objects that are to go are those committed with the stripes.
LEMMA DeleteBlocksIndex ==
  ASSUME TypeInv, Index, NEW c \in Clients, DeleteBlocks(c), Without(Early)' PROVE Index'
<1> PICK ids : ids = client[c].ids
  OBVIOUS
<1> PICK keys : keys = UNION {stripes[id].objects : id \in ids}
  OBVIOUS
<1>1. /\ client[c].state = "listed"
      /\ UNCHANGED <<sets, stripes, committed, nextStripe>>
  BY DeleteBlocksEffect
<1>2. ids \subseteq DOMAIN stripes
  BY <1>1, ListedThere
<1>3. /\ Becomes(c, [state |-> "deleting", ids |-> ids, keys |-> keys])
      /\ MadeBySets(ids) = {} /\ InUse(ids) = {c}
  BY <1>2, DeleteBlocksEffect DEF Without, Early
<1>4. client'[c].state = "deleting" /\ client'[c].ids = ids /\ client'[c].keys = keys
  BY <1>3 DEF Becomes
<1>5. \A d \in Clients \ {c} : client'[d] = client[d]
  BY <1>3 DEF Becomes
<1>6. \A n \in DOMAIN sets : \A i \in DOMAIN sets[n].ids : sets[n].ids[i] \notin ids
  BY <1>3 DEF MadeBySets, ToSet
<1>7. \A n \in DOMAIN sets : sets[n].ids # <<>> => 1 \in DOMAIN sets[n].ids
  <2>1. \A n \in DOMAIN sets : sets[n].ids \in Seq(Int)
    BY DEF TypeInv, SetsOK, SetOK, SetRecord
  <2> QED BY <2>1
<1>8. ASSUME NEW k \in keys PROVE k \in DOMAIN committed /\ committed[k][1] \in ids
  <2>1. PICK id \in ids : k \in stripes[id].objects
    BY <1>8
  <2>2. ASSUME NEW n \in DOMAIN sets, sets[n].ids # <<>>, id = sets[n].ids[1] PROVE FALSE
    BY <1>6, <1>7, <2>2
  <2> QED BY <1>2, <2>1, <2>2 DEF Index, ListedByOne
<1>9. ASSUME NEW k \in DOMAIN committed, committed[k][1] \in ids PROVE k \in keys
  <2>1. ASSUME NEW d \in Clients, Removing(d), k \in client[d].keys PROVE FALSE
    <3>1. d # c /\ Holding(d) /\ Holding(c)
      BY <1>1, <2>1 DEF Removing, Holding
    <3>2. committed[k][1] \in client[d].ids
      BY <2>1, <1>9 DEF Index, RemovedTogether
    <3> QED BY <1>9, <3>1, <3>2 DEF Index, HeldApart
  <2>2. k \notin Deleting
    BY <2>1, DeletingFact
  <2>3. k \in stripes[committed[k][1]].objects
    BY <1>9, <2>2 DEF Index, ObjectsThere
  <2> QED BY <1>9, <2>3
<1>10. Deleting \subseteq Deleting'
  <2>1. \A d \in Clients : Removing(d) => d # c
    BY <1>1 DEF Removing
  <2> QED BY <1>5, <2>1 DEF Deleting, InDeletion, Removing
<1>11. ListedByOne' /\ SetsThere' /\ ObjectsThere'
  BY <1>1, <1>10 DEF Index, ListedByOne, SetsThere, ObjectsThere
<1>12. HeldApart'
  <2>1. \A d \in Clients : /\ Holding(d)' <=> Holding(d)
                           /\ Holding(d) => client'[d].ids = client[d].ids
    BY <1>1, <1>4, <1>5 DEF Holding
  <2>2. \A d \in Clients : client'[d].state \in {"listed", "deleting"} =>
                             client'[d].ids \subseteq DOMAIN stripes'
    BY <1>1, <1>2, <1>4, <1>5 DEF Index, HeldApart
  <2>3. \A d \in Clients : client'[d].state = "erased" =>
                             client'[d].ids \cap DOMAIN stripes' = {}
    BY <1>1, <1>4, <1>5 DEF Index, HeldApart
  <2>4. \A d \in Clients : Holding(d)' => \A id \in client'[d].ids : id < nextStripe'
    BY <1>1, <2>1 DEF Index, HeldApart
  <2>5. \A d, e \in Clients :
          d # e /\ Holding(d)' /\ Holding(e)' => client'[d].ids \cap client'[e].ids = {}
    BY <2>1 DEF Index, HeldApart
  <2> QED BY <2>2, <2>3, <2>4, <2>5 DEF HeldApart
<1>13. RemovedTogether'
  <2>1. ASSUME NEW d \in Clients, d # c, Removing(d)' PROVE Removing(d) /\ client'[d] = client[d]
    BY <1>5, <2>1 DEF Removing
  <2>2. ASSUME NEW d \in Clients, Removing(d)'
        PROVE  /\ \A n \in DOMAIN sets : \A i \in DOMAIN sets[n].ids :
                    sets[n].ids[i] \notin client'[d].ids
               /\ client'[d].keys \subseteq DOMAIN committed
               /\ \A k \in DOMAIN committed :
                    committed[k][1] \in client'[d].ids <=> k \in client'[d].keys
    <3>1. CASE d = c
      BY <1>4, <1>6, <1>8, <1>9, <3>1
    <3>2. CASE d # c
      BY <2>1, <2>2, <3>2 DEF Index, RemovedTogether
    <3> QED BY <3>1, <3>2
  <2> QED BY <1>1, <2>2 DEF RemovedTogether
<1> QED BY <1>11, <1>12, <1>13 DEF Index

\* The stripes that go are those of objects that are being deleted.
LEMMA EraseStripesIndex ==
  ASSUME TypeInv, Index, NEW c \in Clients, EraseStripes(c) PROVE Index'
<1> PICK ids : ids = client[c].ids
  OBVIOUS
<1> PICK keys : keys = client[c].keys
  OBVIOUS
<1>1. /\ client[c].state = "deleting" /\ UNCHANGED <<sets, committed, nextStripe>>
      /\ DOMAIN stripes' = DOMAIN stripes \ ids
      /\ \A id \in DOMAIN stripes' : stripes'[id] = stripes[id]
      /\ Becomes(c, [state |-> "erased", ids |-> ids, keys |-> keys])
  BY EraseStripesEffect
<1>2. client'[c].state = "erased" /\ client'[c].ids = ids /\ client'[c].keys = keys
  BY <1>1 DEF Becomes
<1>3. \A d \in Clients \ {c} : client'[d] = client[d]
  BY <1>1 DEF Becomes
<1>4. \A n \in DOMAIN sets : \A i \in DOMAIN sets[n].ids : sets[n].ids[i] \notin ids
  BY <1>1 DEF Index, RemovedTogether, Removing
<1>5. \A n \in DOMAIN sets : sets[n].ids # <<>> => 1 \in DOMAIN sets[n].ids
  <2>1. \A n \in DOMAIN sets : sets[n].ids \in Seq(Int)
    BY DEF TypeInv, SetsOK, SetOK, SetRecord
  <2> QED BY <2>1
<1>6. \A d \in Clients : /\ Removing(d)' <=> Removing(d)
                         /\ Holding(d)' <=> Holding(d)
                         /\ Removing(d) => client'[d].keys = client[d].keys
                         /\ Holding(d) => client'[d].ids = client[d].ids
  BY <1>1, <1>2, <1>3 DEF Removing, Holding
<1>7. Deleting' = Deleting
  BY <1>6 DEF Deleting, InDeletion, Removing
<1>8. ASSUME NEW k \in DOMAIN committed, k \notin Deleting PROVE committed[k][1] \notin ids
  <2>1. committed[k][1] \in ids => k \in keys
    BY <1>1 DEF Index, RemovedTogether, Removing
  <2>2. k \in Keys
    BY DEF TypeInv, TablesOK
  <2> QED BY <1>1, <1>8, <2>1, <2>2, DeletingFact DEF Removing
<1>9. ListedByOne'
  BY <1>1 DEF Index, ListedByOne
<1>10. SetsThere'
  BY <1>1, <1>4, <1>5 DEF Index, SetsThere
<1>11. ObjectsThere'
  BY <1>1, <1>7, <1>8 DEF Index, ObjectsThere
<1>12. HeldApart'
  <2>1. \A d \in Clients : Holding(d)' => \A id \in client'[d].ids : id < nextStripe'
    BY <1>1, <1>6 DEF Index, HeldApart
  <2>2. \A d, e \in Clients :
          d # e /\ Holding(d)' /\ Holding(e)' => client'[d].ids \cap client'[e].ids = {}
    BY <1>6 DEF Index, HeldApart
  <2>3. ASSUME NEW d \in Clients, client'[d].state \in {"listed", "deleting"}
        PROVE  client'[d].ids \subseteq DOMAIN stripes'
    <3>1. d # c /\ client'[d] = client[d]
      BY <1>2, <1>3, <2>3
    <3>2. client[d].ids \cap ids = {}
      BY <1>1, <2>3, <3>1 DEF Index, HeldApart, Holding
    <3> QED BY <1>1, <2>3, <3>1, <3>2 DEF Index, HeldApart
  <2>4. \A d \in Clients : client'[d].state = "erased" =>
                             client'[d].ids \cap DOMAIN stripes' = {}
    BY <1>1, <1>2, <1>3 DEF Index, HeldApart
  <2> QED BY <2>1, <2>2, <2>3, <2>4 DEF HeldApart
<1>13. RemovedTogether'
  <2>1. \A d \in Clients : Removing(d) => Holding(d)
    BY DEF Removing, Holding
  <2> QED BY <1>1, <1>6, <2>1 DEF Index, RemovedTogether
<1> QED BY <1>9, <1>10, <1>11, <1>12, <1>13 DEF Index

\* The objects that go are those whose stripes are gone.
LEMMA ForgetObjectsIndex ==
  ASSUME TypeInv, Index, NEW c \in Clients, ForgetObjects(c) PROVE Index'
<1> PICK keys : keys = client[c].keys
  OBVIOUS
<1>1. /\ client[c].state = "erased" /\ UNCHANGED <<sets, stripes, nextStripe>>
      /\ DOMAIN committed' = DOMAIN committed \ keys
      /\ \A k \in DOMAIN committed' : committed'[k] = committed[k]
      /\ Becomes(c, Idle)
  BY ForgetObjectsEffect
<1>2. client'[c].state = "idle" /\ \A d \in Clients \ {c} : client'[d] = client[d]
  BY <1>1 DEF Becomes, Idle
<1>3. \A d \in Clients : /\ Removing(d)' <=> Removing(d) /\ d # c
                         /\ Holding(d)' <=> Holding(d) /\ d # c
  BY <1>2 DEF Removing, Holding
<1>4. \A k \in DOMAIN committed' : k \in Deleting => k \in Deleting'
  <2>1. ASSUME NEW k \in DOMAIN committed', k \in Deleting PROVE k \in Deleting'
    <3>1. PICK d \in Clients : Removing(d) /\ k \in client[d].keys
      BY <2>1, DeletingFact
    <3>2. d # c
      BY <1>1, <2>1, <3>1
    <3> QED BY <1>2, <2>1, <3>1, <3>2 DEF Deleting, InDeletion, Removing
  <2> QED BY <2>1
<1>5. ListedByOne'
  <2>1. ASSUME NEW id \in DOMAIN stripes, NEW k \in DOMAIN committed, committed[k][1] = id
        PROVE  k \in DOMAIN committed'
    <3>1. id \notin client[c].ids
      BY <1>1, <2>1 DEF Index, HeldApart
    <3> QED BY <1>1, <2>1, <3>1 DEF Index, RemovedTogether, Removing
  <2> QED BY <1>1, <2>1 DEF Index, ListedByOne
<1>6. SetsThere'
  BY <1>1 DEF Index, SetsThere
<1>7. ObjectsThere'
  BY <1>1, <1>4 DEF Index, ObjectsThere
<1>8. HeldApart'
  BY <1>1, <1>2, <1>3 DEF Index, HeldApart
<1>9. RemovedTogether'
  <2>1. ASSUME NEW d \in Clients, d # c, Removing(d) PROVE client[d].keys \cap keys = {}
    <3>1. ASSUME NEW k \in client[d].keys \cap keys PROVE FALSE
      <4>1. k \in DOMAIN committed
        BY <2>1 DEF Index, RemovedTogether
      <4>2. committed[k][1] \in client[d].ids \cap client[c].ids
        BY <1>1, <2>1, <3>1, <4>1 DEF Index, RemovedTogether, Removing
      <4> QED BY <1>1, <2>1, <4>2 DEF Index, HeldApart, Holding, Removing
    <3> QED BY <3>1
  <2> QED BY <1>1, <1>2, <1>3, <2>1 DEF Index, RemovedTogether
<1> QED BY <1>5, <1>6, <1>7, <1>8, <1>9 DEF Index

\* After a reset both tables are empty.
LEMMA ResetIndex ==
  ASSUME TypeInv, NEW c \in Clients, Reset(c), Without(Early)' PROVE Index'
<1>1. /\ DOMAIN sets' = {} /\ DOMAIN stripes' = {} /\ DOMAIN committed' = {}
      /\ client' = client /\ client[c].state \in {"idle", "got"}
      /\ \A d \in Clients \ {c} : client[d].state \in {"idle", "got"}
  BY ResetEffect DEF Without, Early, Disorder
<1>2. \A d \in Clients : client'[d].state \in {"idle", "got"}
  BY <1>1
<1>3. ListedByOne' /\ SetsThere' /\ ObjectsThere'
  BY <1>1 DEF ListedByOne, SetsThere, ObjectsThere
<1>4. HeldApart' /\ RemovedTogether'
  BY <1>2 DEF HeldApart, RemovedTogether, Holding, Removing
<1> QED BY <1>3, <1>4 DEF Index

\* Every step keeps the index.
LEMMA NextIndex ==
  ASSUME TypeInv, NumbersInv, IndexInv, [Next]_vars PROVE IndexInv'
<1> SUFFICES ASSUME Without(Early)' PROVE Index'
  BY DEF IndexInv
<1>0. Index /\ Numbers
  <2>1. Without(Early)
    BY TroubleGrows, WithoutBefore
  <2> QED BY <2>1 DEF NumbersInv, IndexInv, Without, Early
<1>1. CASE UNCHANGED vars \/ TablesBreak \/ EraseBreaks
  BY <1>0, <1>1, OtherIndex
<1>2. ASSUME NEW n \in DOMAIN sets,
             Check(n) \/ Number(n) \/ MakeStripe(n) \/ Enter(n) \/ Dispatch(n)
      PROVE  Index'
  BY <1>0, <1>2, HandlerIndex, MakeStripeIndex
<1>3. ASSUME NEW t \in storing, NEW k \in conns, Store(t, k) \/ StoreFails(t, k)
      PROVE  Index'
  BY <1>0, <1>3, StoreIndex
<1>4. ASSUME NEW c \in Clients, NEW k \in Keys, Set(c, k) \/ Get(c, k) PROVE Index'
  BY <1>0, <1>4, SetIndex, OtherIndex
<1>5. ASSUME NEW c \in Clients,
             \/ GiveUp(c) \/ Connect(c) \/ Commit(c) \/ Abort(c)
             \/ Read(c) \/ ReadTorn(c) \/ (\E o \in Clients : ReadsCross(c, o))
             \/ List(c) \/ DeleteBlocks(c) \/ EraseStripes(c) \/ ForgetObjects(c)
             \/ Reset(c) \/ Snapshot(c) \/ Revert(c)
      PROVE  Index'
  BY <1>0, <1>5, CommitIndex, AbortIndex, ListIndex, DeleteBlocksIndex, EraseStripesIndex,
     ForgetObjectsIndex, ResetIndex, ClientIndex, BrokenReadEffect, BrokenReadIndex
<1>6. ASSUME NEW id \in DOMAIN stripes, Repair(id) \/ Lose(id) PROVE Index'
  BY <1>0, <1>6, OtherIndex
<1> QED BY <1>1, <1>2, <1>3, <1>4, <1>5, <1>6 DEF Next

\* In the beginning there is nothing to agree on.
LEMMA InitIndex == Init => IndexInv
<1> SUFFICES ASSUME Init PROVE Index
  BY DEF IndexInv
<1>1. DOMAIN sets = {} /\ DOMAIN stripes = {} /\ DOMAIN committed = {}
  BY DEF Init, Empty
<1>2. \A d \in Clients : client[d].state = "idle"
  BY DEF Init, Idle
<1> QED BY <1>1, <1>2
     DEF Index, ListedByOne, SetsThere, ObjectsThere, HeldApart, RemovedTogether, Holding, Removing

\* The invariant that the theorems on the tables follow from.
LEMMA TablesHold == Spec => [](TypeInv /\ NumbersInv /\ IndexInv)
<1>1. Init => TypeInv /\ NumbersInv /\ IndexInv
  BY InitTypes, InitNumbers, InitIndex
<1>2. TypeInv /\ NumbersInv /\ IndexInv /\ [Next]_vars => (TypeInv /\ NumbersInv /\ IndexInv)'
  BY NextTypes, NextNumbers, NextIndex
<1> QED BY <1>1, <1>2, PTL DEF Spec

\* IndexAgrees: the object table and the stripe table agree, whatever calls come, as long
\* as sets do not overlap and differ in their keys, an abort takes back the last set, a
\* reset comes alone and nothing is deleted that is in use (coordinator.cpp 84-249, 321-354).
THEOREM IndexAgreesHolds == Spec => []IndexAgrees
<1>1. ASSUME TypeInv, NumbersInv, IndexInv PROVE IndexAgrees
  <2> SUFFICES ASSUME Without(Early)
               PROVE  /\ \A k \in DOMAIN committed \ Deleting : \A id \in ToSet(committed[k]) :
                           id \in DOMAIN stripes /\ k \in stripes[id].objects
                      /\ \A id \in DOMAIN stripes : \A k \in stripes[id].objects :
                           \/ k \in DOMAIN committed /\ id \in ToSet(committed[k])
                           \/ \E n \in DOMAIN sets :
                                sets[n].key = k /\ id \in ToSet(sets[n].listed)
    BY DEF IndexAgrees, Without, Early, Disorder
  <2>1. Index
    BY <1>1 DEF IndexInv
  <2>2. ASSUME NEW k \in DOMAIN committed PROVE ToSet(committed[k]) = {committed[k][1]}
    <3>1. PICK id \in Int : committed[k] = <<id>>
      BY <1>1 DEF TypeInv, TablesOK, One
    <3>2. <<id>>[1] = id
      OBVIOUS
    <3> QED BY <3>1, <3>2, OneStripe
  <2>3. ASSUME NEW n \in DOMAIN sets, sets[n].ids # <<>>
        PROVE  ToSet(sets[n].listed) = {sets[n].ids[1]}
    <3>1. sets[n].listed = <<sets[n].ids[1]>>
      BY <1>1, <2>3 DEF TypeInv, SetsOK, SetOK
    <3> QED BY <3>1, OneStripe
  <2>4. ASSUME NEW k \in DOMAIN committed \ Deleting, NEW id \in ToSet(committed[k])
        PROVE  id \in DOMAIN stripes /\ k \in stripes[id].objects
    BY <2>1, <2>2 DEF Index, ObjectsThere
  <2>5. ASSUME NEW id \in DOMAIN stripes, NEW k \in stripes[id].objects
        PROVE  \/ k \in DOMAIN committed /\ id \in ToSet(committed[k])
               \/ \E n \in DOMAIN sets : sets[n].key = k /\ id \in ToSet(sets[n].listed)
    BY <2>1, <2>2, <2>3 DEF Index, ListedByOne
  <2> QED BY <2>4, <2>5
<1> QED BY <1>1, TablesHold, PTL

----------------------------------------------------------------------------
(* The coordinator stays up.                                                  *)

StaysUp == Without(Early \cup {"absent_key", "erased_in_use"}) => up = TRUE

\* The last stripe is there for the set that asks for it.
LEMMA DispatchUp ==
  ASSUME TypeInv, Numbers, Index, NEW n \in DOMAIN sets, Dispatch(n) PROVE up' = up
<1>1. sets[n].stage = "entered"
  BY DispatchEffect
<1>2. SetOK(sets[n]) /\ size \in Nat \ {0} /\ nextStripe \in Int
  BY DEF TypeInv, SetsOK, NumbersOK
<1>3. sets[n].ids \in Seq(Int) /\ Len(sets[n].ids) = size
  BY <1>1, <1>2 DEF SetOK, SetRecord, Listing
<1>4. sets[n].ids # <<>> /\ Len(sets[n].ids) \in DOMAIN sets[n].ids
  BY <1>2, <1>3
<1> PICK id : id = sets[n].ids[Len(sets[n].ids)]
  OBVIOUS
<1>5. id \in Int /\ id \in DOMAIN stripes
  BY <1>3, <1>4 DEF Index, SetsThere
<1>6. nextStripe = id + 1
  BY <1>1, <1>4 DEF Numbers, LastMade, Unlocked
<1>7. LastStripe = id
  BY <1>2, <1>5, <1>6, OneLess DEF LastStripe
<1> QED BY <1>5, <1>7, DispatchEffect

\* A get finds the stripe of an object that nobody deletes.
LEMMA GetUp ==
  ASSUME TypeInv, Index, NEW c \in Clients, NEW k \in Keys, Get(c, k),
         "absent_key" \notin trouble', "deleted_early" \notin trouble'
  PROVE  /\ up' = up /\ k \in DOMAIN committed /\ k \notin Deleting
         /\ committed[k][1] \in DOMAIN stripes
         /\ Becomes(c, [state |-> "get", want |-> current[k],
                        parts |-> <<Spot(committed[k][1])>>])
<1>1. k \in DOMAIN committed /\ ~\E o \in Clients : InDeletion(o, {k})
  BY GetEffect
<1>2. k \notin Deleting
  BY <1>1 DEF Deleting
<1>3. committed[k][1] \in DOMAIN stripes
  BY <1>1, <1>2 DEF Index, ObjectsThere
<1>4. ToSet(committed[k]) \subseteq DOMAIN stripes
  <2>1. PICK id \in Int : committed[k] = <<id>>
    BY <1>1 DEF TypeInv, TablesOK, One
  <2>2. <<id>>[1] = id
    OBVIOUS
  <2> QED BY <1>3, <2>1, <2>2, OneStripe
<1> QED BY <1>1, <1>2, <1>3, <1>4, GetEffect

\* No step ends the coordinator.
LEMMA NextUp ==
  ASSUME TypeInv, NumbersInv, IndexInv, StaysUp, [Next]_vars PROVE StaysUp'
<1> SUFFICES ASSUME Without(Early \cup {"absent_key", "erased_in_use"})' PROVE up' = TRUE
  BY DEF StaysUp
<1>0. Index /\ Numbers /\ up = TRUE
  <2>1. Without(Early \cup {"absent_key", "erased_in_use"})
    BY TroubleGrows, WithoutBefore
  <2> QED BY <2>1 DEF StaysUp, NumbersInv, IndexInv, Without, Early
<1>1. /\ "same_key" \notin trouble' /\ "overlap" \notin trouble' /\ "bad_abort" \notin trouble'
      /\ "deleted_early" \notin trouble' /\ "absent_key" \notin trouble'
      /\ "erased_in_use" \notin trouble'
  BY DEF Without, Early, Disorder
<1>2. CASE UNCHANGED vars \/ TablesBreak \/ EraseBreaks
  BY <1>0, <1>1, <1>2, BreakEffect DEF vars
<1>3. ASSUME NEW n \in DOMAIN sets,
             Check(n) \/ Number(n) \/ MakeStripe(n) \/ Enter(n) \/ Dispatch(n)
      PROVE  up' = up
  <2>1. ASSUME Check(n) PROVE up' = up
    BY <1>1, <2>1, CheckEffect
  <2>2. ASSUME MakeStripe(n) PROVE up' = up
    BY <2>2 DEF MakeStripe
  <2> QED BY <1>0, <1>3, <2>1, <2>2, NumberEffect, EnterEffect, DispatchUp
<1>4. ASSUME NEW t \in storing, NEW k \in conns, Store(t, k) \/ StoreFails(t, k) PROVE up' = up
  BY <1>4, StoreEffect DEF Finishes
<1>5. ASSUME NEW c \in Clients, NEW k \in Keys, Set(c, k) \/ Get(c, k) PROVE up' = up
  <2>1. ASSUME Set(c, k) PROVE up' = up
    BY <2>1 DEF Set
  <2> QED BY <1>0, <1>1, <1>5, <2>1, GetUp
<1>6. ASSUME NEW c \in Clients, GiveUp(c) \/ Connect(c) \/ Read(c) \/ List(c) \/ EraseStripes(c)
                                  \/ ForgetObjects(c) \/ Reset(c) \/ Snapshot(c) \/ Revert(c)
      PROVE  up' = up
  BY <1>6 DEF GiveUp, Connect, Read, List, EraseStripes, ForgetObjects, Reset, Snapshot, Revert
<1>7. ASSUME NEW c \in Clients, Commit(c) \/ Abort(c) \/ DeleteBlocks(c) PROVE up' = up
  <2>1. ASSUME Commit(c) PROVE up' = up
    <3> PICK n : n = client[c].set
      OBVIOUS
    <3> PICK k : k = sets[n].key
      OBVIOUS
    <3>1. Commits(c, n, k)
      <4>1. k \notin DOMAIN committed /\ k \in DOMAIN updating
        BY <1>0, <2>1, Committed
      <4> QED BY <2>1, <4>1, CommitEffect
    <3> QED BY <3>1 DEF Commits
  <2>2. ASSUME Abort(c) PROVE up' = up
    <3> PICK n : n = client[c].set
      OBVIOUS
    <3> PICK k : k = sets[n].key
      OBVIOUS
    <3>1. nextStripe \in Int
      BY DEF TypeInv, NumbersOK
    <3> PICK id \in Int : nextStripe = id + 1
      BY <3>1, OneMore
    <3>2. Aborts(c, n, k)
      BY <1>0, <1>1, <2>2, Aborted
    <3> QED BY <3>2 DEF Aborts
  <2>3. ASSUME DeleteBlocks(c) PROVE up' = up
    <3>1. client[c].state = "listed"
      BY <2>3, DeleteBlocksEffect
    <3>2. client[c].ids \subseteq DOMAIN stripes
      BY <1>0, <3>1, ListedThere
    <3> QED BY <2>3, <3>2, DeleteBlocksEffect
  <2> QED BY <1>7, <2>1, <2>2, <2>3
<1>8. ASSUME NEW id \in DOMAIN stripes, Repair(id) \/ Lose(id) PROVE up' = up
  BY <1>8 DEF Repair, Lose
<1>9. ASSUME NEW c \in Clients, ReadTorn(c) \/ \E o \in Clients : ReadsCross(c, o)
      PROVE  up' = up
  BY <1>9, BrokenReadEffect DEF ReadsBreak
<1> QED BY <1>0, <1>2, <1>3, <1>4, <1>5, <1>6, <1>7, <1>8, <1>9 DEF Next

\* CoordinatorStaysUp: no assertion of a handler fails and no stripe is looked up in vain,
\* as long as sets do not overlap and differ in their keys, gets are of objects that are
\* there, an abort takes back the last set, a reset comes alone, nothing is deleted that is
\* in use and no call is in the stripe table while another one erases from it (the
\* assertions of coordinator.cpp 84-249, and 366-376).
THEOREM StaysUpHolds == Spec => []CoordinatorStaysUp
<1>1. Init => StaysUp
  BY DEF Init, StaysUp
<1>2. TypeInv /\ NumbersInv /\ IndexInv /\ StaysUp /\ [Next]_vars => StaysUp'
  BY NextUp
<1>3. StaysUp => CoordinatorStaysUp
  BY DEF StaysUp, CoordinatorStaysUp, Without, Early, Disorder
<1> QED BY <1>1, <1>2, <1>3, TablesHold, PTL DEF Spec

----------------------------------------------------------------------------
(* Block numbers: each belongs to one stripe, as long as the values of sets are *)
(* not mixed up.                                                               *)

Blocks ==
  /\ \A id \in DOMAIN stripes : stripes[id].block < nextBlock
  /\ \A id, jd \in DOMAIN stripes : stripes[id].block = stripes[jd].block => id = jd
  /\ \A n \in DOMAIN sets : \A i \in DOMAIN sets[n].parts : sets[n].parts[i][1] < nextBlock
  /\ \A n, m \in DOMAIN sets : \A i \in DOMAIN sets[n].parts, j \in DOMAIN sets[m].parts :
       sets[n].parts[i][1] = sets[m].parts[j][1] => n = m /\ i = j
  /\ \A n \in DOMAIN sets : \A i \in DOMAIN sets[n].parts : \A id \in DOMAIN stripes :
       sets[n].parts[i][1] = stripes[id].block <=> id = sets[n].ids[i]
  /\ fresh => \A id \in DOMAIN initial : id < nextStripe

\* Threads that accept: one at a proxy, for a set that is answered with it and not stored.
Threads ==
  /\ \A t, u \in storing : t.proxy = u.proxy => t = u
  /\ \A t \in storing : /\ t.set \in DOMAIN sets /\ sets[t.set].stage = "answered"
                        /\ t.parts = sets[t.set].parts /\ t.proxy \in sets[t.set].proxy
  /\ \A n \in DOMAIN sets : sets[n].stage = "answered" =>
       \A p \in sets[n].proxy : \E t \in storing : t.set = n /\ t.proxy = p

\* Steps that make no stripe.
LEMMA BlocksKept ==
  ASSUME Blocks, nextBlock' = nextBlock,
         \A id \in DOMAIN stripes' :
           id \in DOMAIN stripes /\ stripes'[id].block = stripes[id].block,
         \A n \in DOMAIN sets' :
           \/ /\ n \in DOMAIN sets
              /\ sets'[n].ids = sets[n].ids /\ sets'[n].parts = sets[n].parts
           \/ sets'[n].parts = <<>>,
         fresh' => \A id \in DOMAIN initial' : id < nextStripe'
  PROVE  Blocks'
<1>1. ASSUME NEW n \in DOMAIN sets', NEW i \in DOMAIN sets'[n].parts
      PROVE  n \in DOMAIN sets /\ sets'[n].ids = sets[n].ids /\ sets'[n].parts = sets[n].parts
  <2>1. DOMAIN <<>> = {}
    OBVIOUS
  <2> QED BY <2>1
<1>2. \A id, jd \in DOMAIN stripes' : stripes'[id].block = stripes'[jd].block => id = jd
  BY DEF Blocks
<1>3. \A id \in DOMAIN stripes' : stripes'[id].block < nextBlock'
  BY DEF Blocks
<1>4. \A n \in DOMAIN sets' : \A i \in DOMAIN sets'[n].parts : sets'[n].parts[i][1] < nextBlock'
  BY <1>1 DEF Blocks
<1>5. ASSUME NEW n \in DOMAIN sets', NEW m \in DOMAIN sets',
             NEW i \in DOMAIN sets'[n].parts, NEW j \in DOMAIN sets'[m].parts,
             sets'[n].parts[i][1] = sets'[m].parts[j][1]
      PROVE  n = m /\ i = j
  BY <1>1, <1>5 DEF Blocks
<1>6. ASSUME NEW n \in DOMAIN sets', NEW i \in DOMAIN sets'[n].parts, NEW id \in DOMAIN stripes'
      PROVE  sets'[n].parts[i][1] = stripes'[id].block <=> id = sets'[n].ids[i]
  BY <1>1 DEF Blocks
<1> QED BY <1>2, <1>3, <1>4, <1>5, <1>6 DEF Blocks

\* Steps that neither begin nor end a thread.
LEMMA ThreadsAlike ==
  ASSUME Threads, storing' = storing,
         \A n \in DOMAIN sets : sets[n].stage = "answered" =>
           n \in DOMAIN sets' /\ sets'[n] = sets[n],
         \A n \in DOMAIN sets' : sets'[n].stage = "answered" =>
           n \in DOMAIN sets /\ sets'[n] = sets[n]
  PROVE  Threads'
BY DEF Threads

\* A set has a part for each of its stripes.
LEMMA PartsFact ==
  ASSUME TypeInv, NEW n \in DOMAIN sets
  PROVE  /\ sets[n].ids \in Seq(Int) /\ sets[n].parts \in Seq(Nat \X Proxies)
         /\ DOMAIN sets[n].parts = DOMAIN sets[n].ids
         /\ sets[n].ids # <<>> => 1 \in DOMAIN sets[n].ids
<1>1. /\ sets[n].ids \in Seq(Int) /\ sets[n].parts \in Seq(Nat \X Proxies)
      /\ Len(sets[n].parts) = Len(sets[n].ids)
  BY DEF TypeInv, SetsOK, SetOK, SetRecord
<1> QED BY <1>1

\* A sequence with one more element.
LEMMA AppendFacts ==
  ASSUME NEW S, NEW s \in Seq(S), NEW x \in S
  PROVE  /\ DOMAIN Append(s, x) = DOMAIN s \cup {Len(s) + 1} /\ Len(s) + 1 \notin DOMAIN s
         /\ Append(s, x)[Len(s) + 1] = x
         /\ \A i \in DOMAIN s : Append(s, x)[i] = s[i]
OBVIOUS

\* The new stripe has a block number that nothing has.
LEMMA MakeStripeBlocks ==
  ASSUME TypeInv, Numbers, Blocks, Threads, NEW n \in DOMAIN sets, MakeStripe(n)
  PROVE  Blocks' /\ Threads'
<1> PICK id : id = sets[n].id
  OBVIOUS
<1>0. PICK p \in Proxies : Makes(n, id, p)
  BY MakeStripeEffect
<1>1. /\ sets[n].stage = "numbering" /\ id \in Int /\ nextStripe' = id + 1
      /\ nextBlock' = nextBlock + 1
      /\ DOMAIN stripes' = DOMAIN stripes \cup {id}
      /\ stripes'[id] = [block |-> nextBlock, at |-> p,
                         objects |-> IF sets[n].ids = <<>> THEN {sets[n].key} ELSE {}]
      /\ \A jd \in DOMAIN stripes : jd # id => stripes'[jd] = stripes[jd]
      /\ DOMAIN sets' = DOMAIN sets /\ \A m \in DOMAIN sets \ {n} : sets'[m] = sets[m]
      /\ sets'[n].ids = Append(sets[n].ids, id) /\ sets'[n].stage = "checked"
      /\ sets'[n].parts = Append(sets[n].parts, <<nextBlock, p>>)
      /\ UNCHANGED <<initial, fresh, storing>>
  BY <1>0 DEF Makes
<1>2. nextStripe \in Int /\ nextStripe <= id /\ nextBlock \in Nat
  BY <1>1 DEF TypeInv, NumbersOK, Numbers, IdsBelow
<1>3. stripes'[id].block = nextBlock
  BY <1>1
<1>4. \A jd \in DOMAIN stripes : /\ jd # id /\ stripes'[jd] = stripes[jd]
                                 /\ stripes[jd].block \in Nat /\ stripes[jd].block < nextBlock
  <2>1. \A jd \in DOMAIN stripes : jd < nextStripe /\ jd \in Int
    BY DEF Numbers, IdsBelow, TypeInv, StripesOK
  <2>2. \A jd \in DOMAIN stripes : stripes[jd].block \in Nat
    BY <1>2 DEF TypeInv, StripesOK
  <2> QED BY <1>1, <1>2, <2>1, <2>2 DEF Blocks
<1>5. ASSUME NEW m \in DOMAIN sets, NEW i \in DOMAIN sets[m].parts
      PROVE  /\ sets[m].parts[i][1] \in Nat /\ sets[m].parts[i][1] < nextBlock
             /\ sets[m].ids[i] # id
  <2>1. sets[m].parts[i] \in Nat \X Proxies /\ i \in DOMAIN sets[m].ids /\ sets[m].ids \in Seq(Int)
    BY PartsFact
  <2>2. sets[m].ids[i] < nextStripe /\ sets[m].ids[i] \in Int
    BY <2>1 DEF Numbers, IdsBelow
  <2> QED BY <1>1, <1>2, <2>1, <2>2 DEF Blocks
<1>6. PICK l : l = Len(sets[n].parts) + 1
  OBVIOUS
<1>7. /\ DOMAIN sets'[n].parts = DOMAIN sets[n].parts \cup {l} /\ l \notin DOMAIN sets[n].parts
      /\ sets'[n].parts[l] = <<nextBlock, p>> /\ sets'[n].ids[l] = id
      /\ \A i \in DOMAIN sets[n].parts : /\ sets'[n].parts[i] = sets[n].parts[i]
                                         /\ sets'[n].ids[i] = sets[n].ids[i]
  <2>1. /\ sets[n].ids \in Seq(Int) /\ sets[n].parts \in Seq(Nat \X Proxies)
        /\ Len(sets[n].parts) = Len(sets[n].ids) /\ <<nextBlock, p>> \in Nat \X Proxies
    BY <1>2 DEF TypeInv, SetsOK, SetOK, SetRecord
  <2>2. /\ DOMAIN sets'[n].parts = DOMAIN sets[n].parts \cup {l} /\ l \notin DOMAIN sets[n].parts
        /\ sets'[n].parts[l] = <<nextBlock, p>>
        /\ \A i \in DOMAIN sets[n].parts : sets'[n].parts[i] = sets[n].parts[i]
    <3> PICK S : S = Nat \X Proxies
      OBVIOUS
    <3> PICK x : x = <<nextBlock, p>>
      OBVIOUS
    <3>1. sets[n].parts \in Seq(S) /\ x \in S /\ sets'[n].parts = Append(sets[n].parts, x)
      BY <1>1, <2>1
    <3> QED BY <1>6, <3>1, AppendFacts
  <2>3. sets'[n].ids[l] = id /\ \A i \in DOMAIN sets[n].ids : sets'[n].ids[i] = sets[n].ids[i]
    <3>1. l = Len(sets[n].ids) + 1
      BY <1>6, <2>1
    <3> QED BY <1>1, <2>1, <3>1, AppendFacts
  <2>4. DOMAIN sets[n].ids = DOMAIN sets[n].parts
    BY <2>1
  <2> QED BY <2>2, <2>3, <2>4
<1>8. ASSUME NEW m \in DOMAIN sets', NEW i \in DOMAIN sets'[m].parts
      PROVE  \/ m = n /\ i = l /\ sets'[m].parts[i][1] = nextBlock /\ sets'[m].ids[i] = id
             \/ /\ m \in DOMAIN sets /\ i \in DOMAIN sets[m].parts
                /\ sets'[m].parts[i] = sets[m].parts[i] /\ sets'[m].ids[i] = sets[m].ids[i]
  <2>1. <<nextBlock, p>>[1] = nextBlock
    OBVIOUS
  <2> QED BY <1>1, <1>7, <2>1
<1>9. \A jd \in DOMAIN stripes' : jd = id \/ jd \in DOMAIN stripes
  BY <1>1
<1>10. \A jd \in DOMAIN stripes' : stripes'[jd].block < nextBlock'
  BY <1>1, <1>2, <1>3, <1>4, <1>9
<1>11. \A jd, kd \in DOMAIN stripes' : stripes'[jd].block = stripes'[kd].block => jd = kd
  BY <1>2, <1>3, <1>4, <1>9 DEF Blocks
<1>12. \A m \in DOMAIN sets' : \A i \in DOMAIN sets'[m].parts : sets'[m].parts[i][1] < nextBlock'
  BY <1>1, <1>2, <1>5, <1>8
<1>13. ASSUME NEW q \in DOMAIN sets', NEW m \in DOMAIN sets',
              NEW i \in DOMAIN sets'[q].parts, NEW j \in DOMAIN sets'[m].parts,
              sets'[q].parts[i][1] = sets'[m].parts[j][1]
       PROVE  q = m /\ i = j
  <2>1. CASE q = n /\ i = l /\ m = n /\ j = l
    BY <2>1
  <2>2. CASE ~(q = n /\ i = l) /\ ~(m = n /\ j = l)
    BY <1>8, <1>13, <2>2 DEF Blocks
  <2>3. CASE (q = n /\ i = l) /\ ~(m = n /\ j = l)
    BY <1>2, <1>5, <1>7, <1>8, <1>13, <2>3
  <2>4. CASE ~(q = n /\ i = l) /\ (m = n /\ j = l)
    BY <1>2, <1>5, <1>7, <1>8, <1>13, <2>4
  <2> QED BY <2>1, <2>2, <2>3, <2>4
<1>14. ASSUME NEW m \in DOMAIN sets', NEW i \in DOMAIN sets'[m].parts, NEW jd \in DOMAIN stripes'
       PROVE  sets'[m].parts[i][1] = stripes'[jd].block <=> jd = sets'[m].ids[i]
  <2>1. CASE m = n /\ i = l
    <3>1. sets'[m].parts[i][1] = nextBlock /\ sets'[m].ids[i] = id
      BY <1>7, <2>1
    <3>2. CASE jd = id
      BY <1>3, <3>1, <3>2
    <3>3. CASE jd # id
      BY <1>2, <1>4, <1>9, <3>1, <3>3
    <3> QED BY <3>2, <3>3
  <2>2. CASE ~(m = n /\ i = l)
    <3>1. /\ m \in DOMAIN sets /\ i \in DOMAIN sets[m].parts
          /\ sets'[m].parts[i] = sets[m].parts[i] /\ sets'[m].ids[i] = sets[m].ids[i]
      BY <1>8, <2>2
    <3>2. CASE jd = id
      BY <1>2, <1>3, <1>5, <3>1, <3>2
    <3>3. CASE jd # id
      BY <1>4, <1>9, <3>1, <3>3 DEF Blocks
    <3> QED BY <3>2, <3>3
  <2> QED BY <2>1, <2>2
<1>15. fresh' => \A jd \in DOMAIN initial' : jd < nextStripe'
  <2>1. \A jd \in DOMAIN initial : jd \in Int
    BY DEF TypeInv, TablesOK
  <2> QED BY <1>1, <1>2, <2>1 DEF Blocks
<1>16. Threads'
  <2>1. \A m \in DOMAIN sets : sets[m].stage = "answered" => m # n
    BY <1>1
  <2>2. \A m \in DOMAIN sets' : sets'[m].stage = "answered" => m # n
    BY <1>1
  <2> QED BY <1>1, <2>1, <2>2, ThreadsAlike
<1> QED BY <1>10, <1>11, <1>12, <1>13, <1>14, <1>15, <1>16 DEF Blocks

----------------------------------------------------------------------------
(* Values: under a block number lies what the set of its stripe has stored.    *)

\* The places of a stripe's blocks: now, and after a revert to a fresh snapshot.
Where(id) ==
  {stripes[id].at} \cup (IF fresh /\ id \in DOMAIN initial THEN {initial[id]} ELSE {})

\* What lies there is the first part of the value of set n.
Holds(id, n) ==
  \A x \in Where(id) :
    <<stripes[id].block, x>> \in DOMAIN disk => disk[<<stripes[id].block, x>>] = <<n, 1>>

ObjectsHold ==
  \A k \in DOMAIN committed, id \in DOMAIN stripes, n \in Nat :
    committed[k][1] = id /\ current[k] = n => Holds(id, n)

\* A set that is not stored yet will store where its first stripe is.
SetsHold ==
  \A n \in DOMAIN sets, id \in DOMAIN stripes :
    sets[n].ids # <<>> /\ sets[n].ids[1] = id =>
      IF sets[n].stage = "stored" THEN Holds(id, n) ELSE Where(id) \subseteq {sets[n].parts[1][2]}

\* Client c reads a place where the value of set n lies, or nothing, and no set will
\* store another value there.
Reads(c, n) ==
  LET spot == client[c].parts[1]
  IN /\ spot \in Nat \X Proxies /\ spot[1] < nextBlock
     /\ spot \in DOMAIN disk => disk[spot] = <<n, 1>>
     /\ \A m \in DOMAIN sets : \A i \in DOMAIN sets[m].parts : sets[m].parts[i][1] # spot[1]
     /\ \A id \in DOMAIN stripes : stripes[id].block = spot[1] => Holds(id, n)
GetsHold ==
  \A c \in Clients, n \in Nat : client[c].state = "get" /\ client[c].want = n => Reads(c, n)

GotRight ==
  \A c \in Clients : client[c].state = "got" =>
    client[c].got = <<>> \/ client[c].got = <<(<<client[c].want, 1>>)>>

Values == Blocks /\ Threads /\ ObjectsHold /\ SetsHold /\ GetsHold /\ GotRight
ValuesInv == Without(MixUps) => Values

\* A stripe whose blocks stay, at places it had, holds what it held.
LEMMA HoldsKept ==
  ASSUME NEW id, NEW n, Holds(id, n), stripes'[id].block = stripes[id].block,
         Where(id)' \subseteq Where(id),
         \A x \in Where(id) : <<stripes[id].block, x>> \in DOMAIN disk' =>
           /\ <<stripes[id].block, x>> \in DOMAIN disk
           /\ disk'[<<stripes[id].block, x>>] = disk[<<stripes[id].block, x>>]
  PROVE  Holds(id, n)'
BY DEF Holds

\* A stripe that stays where it is.
LEMMA WhereKept ==
  ASSUME NEW id, stripes'[id].at = stripes[id].at, fresh' => fresh /\ initial' = initial
  PROVE  Where(id)' \subseteq Where(id)
BY DEF Where

\* Steps that make, write and read nothing: stripes stay at places they had, and what is
\* stored may only go.
LEMMA ValuesKept ==
  ASSUME Values, nextBlock' = nextBlock,
         \A id \in DOMAIN stripes' : /\ id \in DOMAIN stripes
                                     /\ stripes'[id].block = stripes[id].block
                                     /\ Where(id)' \subseteq Where(id),
         \A spot \in DOMAIN disk' : spot \in DOMAIN disk /\ disk'[spot] = disk[spot],
         \A k \in DOMAIN committed' :
           k \in DOMAIN committed /\ committed'[k] = committed[k] /\ current'[k] = current[k],
         \A n \in DOMAIN sets' :
           \/ /\ n \in DOMAIN sets
              /\ sets'[n].ids = sets[n].ids /\ sets'[n].parts = sets[n].parts
              /\ sets'[n].stage = "stored" <=> sets[n].stage = "stored"
           \/ sets'[n].ids = <<>> /\ sets'[n].parts = <<>>,
         \A c \in Clients : client'[c].state \in {"get", "got"} => client'[c] = client[c],
         fresh' => \A id \in DOMAIN initial' : id < nextStripe'
  PROVE  Blocks' /\ ObjectsHold' /\ SetsHold' /\ GetsHold' /\ GotRight'
<1>1. Blocks'
  BY BlocksKept DEF Values
<1>2. ASSUME NEW id \in DOMAIN stripes', NEW n, Holds(id, n) PROVE Holds(id, n)'
  BY <1>2, HoldsKept
<1>3. ObjectsHold'
  BY <1>2 DEF Values, ObjectsHold
<1>4. SetsHold'
  <2>1. ASSUME NEW n \in DOMAIN sets', NEW id \in DOMAIN stripes',
               sets'[n].ids # <<>> /\ sets'[n].ids[1] = id
        PROVE  IF sets'[n].stage = "stored" THEN Holds(id, n)'
                                            ELSE Where(id)' \subseteq {sets'[n].parts[1][2]}
    <3>1. /\ n \in DOMAIN sets /\ id \in DOMAIN stripes
          /\ sets'[n].ids = sets[n].ids /\ sets'[n].parts = sets[n].parts
          /\ sets'[n].stage = "stored" <=> sets[n].stage = "stored"
      BY <2>1
    <3>2. IF sets[n].stage = "stored" THEN Holds(id, n)
                                      ELSE Where(id) \subseteq {sets[n].parts[1][2]}
      BY <2>1, <3>1 DEF Values, SetsHold
    <3>3. CASE sets[n].stage = "stored"
      BY <1>2, <3>1, <3>2, <3>3
    <3>4. CASE sets[n].stage # "stored"
      BY <3>1, <3>2, <3>4
    <3> QED BY <3>3, <3>4
  <2> QED BY <2>1 DEF SetsHold
<1>5. GetsHold'
  <2>1. ASSUME NEW c \in Clients, NEW n \in Nat, client'[c].state = "get", client'[c].want = n
        PROVE  Reads(c, n)'
    <3>1. client'[c] = client[c]
      BY <2>1
    <3>2. Reads(c, n)
      BY <2>1, <3>1 DEF Values, GetsHold
    <3> PICK spot : spot = client[c].parts[1]
      OBVIOUS
    <3>3. /\ spot \in Nat \X Proxies /\ spot[1] < nextBlock'
          /\ spot \in DOMAIN disk' => disk'[spot] = <<n, 1>>
      BY <3>2 DEF Reads
    <3>4. ASSUME NEW m \in DOMAIN sets', NEW i \in DOMAIN sets'[m].parts
          PROVE  sets'[m].parts[i][1] # spot[1]
      <4>1. DOMAIN <<>> = {}
        OBVIOUS
      <4> QED BY <3>2, <4>1 DEF Reads
    <3>5. ASSUME NEW id \in DOMAIN stripes', stripes'[id].block = spot[1] PROVE Holds(id, n)'
      BY <1>2, <3>2, <3>5 DEF Reads
    <3> QED BY <3>1, <3>3, <3>4, <3>5 DEF Reads
  <2> QED BY <2>1 DEF GetsHold
<1>6. GotRight'
  BY DEF Values, GotRight
<1> QED BY <1>1, <1>3, <1>4, <1>5, <1>6

\* Steps that change neither stripes nor what is stored.
LEMMA QuietValues ==
  ASSUME Values, UNCHANGED <<stripes, nextBlock, nextStripe, initial, fresh, disk>>,
         \A k \in DOMAIN committed' :
           k \in DOMAIN committed /\ committed'[k] = committed[k] /\ current'[k] = current[k],
         \A n \in DOMAIN sets' :
           \/ /\ n \in DOMAIN sets
              /\ sets'[n].ids = sets[n].ids /\ sets'[n].parts = sets[n].parts
              /\ sets'[n].stage = "stored" <=> sets[n].stage = "stored"
           \/ sets'[n].ids = <<>> /\ sets'[n].parts = <<>>,
         \A c \in Clients : client'[c].state \in {"get", "got"} => client'[c] = client[c]
  PROVE  Blocks' /\ ObjectsHold' /\ SetsHold' /\ GetsHold' /\ GotRight'
<1>1. \A id \in DOMAIN stripes' : /\ id \in DOMAIN stripes
                                  /\ stripes'[id].block = stripes[id].block
                                  /\ Where(id)' \subseteq Where(id)
  BY WhereKept
<1>2. \A spot \in DOMAIN disk' : spot \in DOMAIN disk /\ disk'[spot] = disk[spot]
  OBVIOUS
<1>3. fresh' => \A id \in DOMAIN initial' : id < nextStripe'
  BY DEF Values, Blocks
<1> QED BY <1>1, <1>2, <1>3, ValuesKept

\* Check, Number and Enter keep the values.
LEMMA HandlerValues ==
  ASSUME TypeInv, Values, NEW n \in DOMAIN sets, Check(n) \/ Number(n) \/ Enter(n)
  PROVE  Values'
<1>1. UNCHANGED <<stripes, nextBlock, nextStripe, initial, fresh, disk, committed, current,
                  client, storing>>
  BY CheckEffect, NumberEffect, EnterEffect
<1>2. CASE sets' = sets
  <2>1. Blocks' /\ ObjectsHold' /\ SetsHold' /\ GetsHold' /\ GotRight'
    BY <1>1, <1>2, QuietValues
  <2>2. Threads'
    BY <1>1, <1>2, ThreadsAlike DEF Values
  <2> QED BY <2>1, <2>2 DEF Values
<1>3. ASSUME NEW s \in {"checked", "numbering", "entered"}, Moved(n, s),
             sets[n].stage \in {"called", "checked"}
      PROVE  Values'
  <2>1. \A m \in DOMAIN sets' :
          /\ m \in DOMAIN sets
          /\ sets'[m].ids = sets[m].ids /\ sets'[m].parts = sets[m].parts
          /\ sets'[m].stage = "stored" <=> sets[m].stage = "stored"
    BY <1>3 DEF Moved
  <2>2. Blocks' /\ ObjectsHold' /\ SetsHold' /\ GetsHold' /\ GotRight'
    BY <1>1, <2>1, QuietValues
  <2>3. DOMAIN sets' = DOMAIN sets
    BY <1>3 DEF Moved
  <2>4. \A m \in DOMAIN sets : sets[m].stage = "answered" => sets'[m] = sets[m]
    BY <1>3 DEF Moved
  <2>5. \A m \in DOMAIN sets : sets'[m].stage = "answered" => sets'[m] = sets[m]
    BY <1>3 DEF Moved
  <2>6. Threads'
    BY <1>1, <2>3, <2>4, <2>5, ThreadsAlike DEF Values
  <2> QED BY <2>2, <2>6 DEF Values
<1>4. \/ sets' = sets
      \/ /\ sets[n].stage \in {"called", "checked"}
         /\ \E s \in {"checked", "numbering", "entered"} : Moved(n, s)
  BY CheckEffect, NumberEffect, EnterEffect
<1> QED BY <1>2, <1>3, <1>4

\* Dispatch starts a thread where none accepts.
LEMMA DispatchValues ==
  ASSUME TypeInv, Values, NEW n \in DOMAIN sets, Dispatch(n), "shared_proxy" \notin trouble'
  PROVE  Values'
<1>1. /\ sets[n].stage = "entered"
      /\ UNCHANGED <<stripes, nextBlock, nextStripe, initial, fresh, disk, committed, current,
                     client>>
  BY DispatchEffect
<1>2. CASE sets' = sets /\ storing' = storing
  <2>1. Blocks' /\ ObjectsHold' /\ SetsHold' /\ GetsHold' /\ GotRight'
    BY <1>1, <1>2, QuietValues
  <2>2. Threads'
    BY <1>2, ThreadsAlike DEF Values
  <2> QED BY <2>1, <2>2 DEF Values
<1> PICK p : p = stripes[LastStripe].at
  OBVIOUS
<1> DEFINE new == [proxy |-> p, set |-> n, parts |-> sets[n].parts]
<1>3. CASE /\ Moved(n, "answered") /\ sets'[n].proxy = {p}
           /\ storing' = storing \cup {new}
           /\ ~\E t \in storing : t.proxy = p
  <2>1. \A m \in DOMAIN sets' :
          /\ m \in DOMAIN sets
          /\ sets'[m].ids = sets[m].ids /\ sets'[m].parts = sets[m].parts
          /\ sets'[m].stage = "stored" <=> sets[m].stage = "stored"
    BY <1>1, <1>3 DEF Moved
  <2>2. Blocks' /\ ObjectsHold' /\ SetsHold' /\ GetsHold' /\ GotRight'
    BY <1>1, <2>1, QuietValues
  <2>3. /\ DOMAIN sets' = DOMAIN sets /\ sets'[n].stage = "answered"
        /\ sets'[n].parts = sets[n].parts /\ \A m \in DOMAIN sets \ {n} : sets'[m] = sets[m]
    BY <1>3 DEF Moved
  <2>4. new.proxy = p /\ new.set = n /\ new.parts = sets[n].parts
    OBVIOUS
  <2>5. \A t, u \in storing' : t.proxy = u.proxy => t = u
    <3> HIDE DEF new
    <3> QED BY <1>3, <2>4 DEF Values, Threads
  <2>6. \A t \in storing' : /\ t.set \in DOMAIN sets' /\ sets'[t.set].stage = "answered"
                            /\ t.parts = sets'[t.set].parts /\ t.proxy \in sets'[t.set].proxy
    <3> HIDE DEF new
    <3>1. ASSUME NEW t \in storing
          PROVE  /\ t.set \in DOMAIN sets' /\ sets'[t.set].stage = "answered"
                 /\ t.parts = sets'[t.set].parts /\ t.proxy \in sets'[t.set].proxy
      <4>1. /\ t.set \in DOMAIN sets /\ sets[t.set].stage = "answered"
            /\ t.parts = sets[t.set].parts /\ t.proxy \in sets[t.set].proxy
        BY DEF Values, Threads
      <4>2. t.set # n
        BY <1>1, <4>1
      <4> QED BY <2>3, <4>1, <4>2
    <3>2. /\ new.set \in DOMAIN sets' /\ sets'[new.set].stage = "answered"
          /\ new.parts = sets'[new.set].parts /\ new.proxy \in sets'[new.set].proxy
      BY <1>3, <2>3, <2>4
    <3> QED BY <1>3, <3>1, <3>2
  <2>7. \A m \in DOMAIN sets' : sets'[m].stage = "answered" =>
          \A q \in sets'[m].proxy : \E t \in storing' : t.set = m /\ t.proxy = q
    <3> HIDE DEF new
    <3>1. ASSUME NEW m \in DOMAIN sets', sets'[m].stage = "answered", m # n,
                 NEW q \in sets'[m].proxy
          PROVE  \E t \in storing' : t.set = m /\ t.proxy = q
      <4>1. m \in DOMAIN sets /\ sets'[m] = sets[m]
        BY <2>3, <3>1
      <4>2. sets[m].stage = "answered" /\ q \in sets[m].proxy
        BY <3>1, <4>1
      <4>3. PICK t \in storing : t.set = m /\ t.proxy = q
        BY <4>1, <4>2 DEF Values, Threads
      <4> QED BY <1>3, <4>3
    <3>2. ASSUME NEW q \in sets'[n].proxy PROVE \E t \in storing' : t.set = n /\ t.proxy = q
      <4>1. q = p /\ new \in storing'
        BY <1>3
      <4> QED BY <2>4, <4>1
    <3> QED BY <3>1, <3>2
  <2>8. Threads'
    BY <2>5, <2>6, <2>7 DEF Threads
  <2> QED BY <2>2, <2>8 DEF Values
<1> QED BY <1>2, <1>3, DispatchEffect

\* A set begins with nothing.
LEMMA SetValues ==
  ASSUME TypeInv, Values, NEW c \in Clients, NEW k \in Keys, Set(c, k) PROVE Values'
<1> PICK n : n = left.set
  OBVIOUS
<1>1. /\ n \notin DOMAIN sets /\ Becomes(c, [state |-> "set", set |-> n])
      /\ DOMAIN sets' = DOMAIN sets \cup {n} /\ \A m \in DOMAIN sets : sets'[m] = sets[m]
      /\ UNCHANGED <<stripes, nextBlock, nextStripe, initial, fresh, disk, committed, current,
                     storing>>
  BY SetEffect
<1>2. sets'[n] = [key |-> k, stage |-> "called", ids |-> <<>>, id |-> 0,
                  listed |-> <<>>, parts |-> <<>>, proxy |-> {}]
  BY SetEffect
<1>3. sets'[n].ids = <<>> /\ sets'[n].parts = <<>> /\ sets'[n].stage = "called"
  BY <1>2
<1>4. \A d \in Clients : client'[d].state \in {"get", "got"} => client'[d] = client[d]
  BY <1>1 DEF Becomes
<1>5. Blocks' /\ ObjectsHold' /\ SetsHold' /\ GetsHold' /\ GotRight'
  BY <1>1, <1>3, <1>4, QuietValues
<1>6. Threads'
  BY <1>1, <1>3, ThreadsAlike DEF Values
<1> QED BY <1>5, <1>6 DEF Values

\* Steps after which the sets and the threads are the same.
LEMMA SameThreads ==
  ASSUME Threads, UNCHANGED <<sets, storing>> PROVE Threads'
BY ThreadsAlike

\* The calls of clients that write nothing and read nothing.
LEMMA ClientValues ==
  ASSUME TypeInv, Values, NEW c \in Clients,
         GiveUp(c) \/ Connect(c) \/ List(c) \/ ForgetObjects(c)
  PROVE  Values'
<1>1. UNCHANGED <<sets, stripes, nextBlock, nextStripe, initial, fresh, disk, storing>>
  BY DEF GiveUp, Connect, List, ForgetObjects, tables, history
<1>2. \A k \in DOMAIN committed' :
        k \in DOMAIN committed /\ committed'[k] = committed[k] /\ current'[k] = current[k]
  <2>1. ASSUME ForgetObjects(c), NEW k \in DOMAIN committed'
        PROVE  k \in DOMAIN committed /\ committed'[k] = committed[k] /\ current'[k] = current[k]
    <3>1. DOMAIN current = DOMAIN committed
      BY DEF TypeInv, TablesOK
    <3> QED BY <2>1, <3>1, ForgetObjectsEffect
  <2>2. ASSUME GiveUp(c) \/ Connect(c) \/ List(c) PROVE UNCHANGED <<committed, current>>
    BY <2>2 DEF GiveUp, Connect, List, tables, history
  <2> QED BY <2>1, <2>2
<1>3. \E x : Becomes(c, x) /\ x.state \notin {"get", "got"}
  <2>1. ASSUME GiveUp(c) \/ ForgetObjects(c) PROVE Becomes(c, Idle) /\ Idle.state = "idle"
    BY <2>1, GiveUpEffect, ForgetObjectsEffect DEF Idle
  <2>2. ASSUME Connect(c) PROVE \E x : Becomes(c, x) /\ x.state \notin {"get", "got"}
    <3> PICK n : n = client[c].set
      OBVIOUS
    <3>1. PICK p \in Proxies : Connects(c, n, p)
      BY <2>2, ConnectEffect
    <3>2. Becomes(c, [state |-> "sent", set |-> n])
      BY <3>1 DEF Connects
    <3>3. [state |-> "sent", set |-> n].state = "sent"
      OBVIOUS
    <3> QED BY <3>2, <3>3
  <2>3. ASSUME List(c) PROVE \E x : Becomes(c, x) /\ x.state \notin {"get", "got"}
    <3>1. PICK ids \in SUBSET DOMAIN stripes : Lists(c, ids)
      BY <2>3, ListEffect
    <3>2. Becomes(c, [state |-> "listed", ids |-> ids])
      BY <3>1 DEF Lists
    <3>3. [state |-> "listed", ids |-> ids].state = "listed"
      OBVIOUS
    <3> QED BY <3>2, <3>3
  <2> QED BY <2>1, <2>2, <2>3
<1>4. \A d \in Clients : client'[d].state \in {"get", "got"} => client'[d] = client[d]
  BY <1>3 DEF Becomes
<1>5. Blocks' /\ ObjectsHold' /\ SetsHold' /\ GetsHold' /\ GotRight'
  BY <1>1, <1>2, <1>4, QuietValues
<1>6. Threads'
  BY <1>1, SameThreads DEF Values
<1> QED BY <1>5, <1>6 DEF Values

\* The steps that only lose blocks, stripes or sets, or change places to ones that were
\* noted.
LEMMA DeleteBlocksValues ==
  ASSUME TypeInv, Values, NEW c \in Clients, DeleteBlocks(c) PROVE Values'
<1>1. /\ UNCHANGED <<sets, stripes, nextBlock, nextStripe, initial, fresh, committed, current,
                     storing>>
      /\ \A spot \in DOMAIN disk' : spot \in DOMAIN disk /\ disk'[spot] = disk[spot]
  BY DeleteBlocksEffect
<1>2. \A d \in Clients : client'[d].state \in {"get", "got"} => client'[d] = client[d]
  <2> PICK ids : ids = client[c].ids
    OBVIOUS
  <2> DEFINE x == [state |-> "deleting", ids |-> ids,
                   keys |-> UNION {stripes[id].objects : id \in ids}]
  <2>1. Becomes(c, x) \/ client' = client
    BY DeleteBlocksEffect
  <2>2. x.state = "deleting"
    OBVIOUS
  <2> HIDE DEF x
  <2> QED BY <2>1, <2>2 DEF Becomes
<1>3. \A id \in DOMAIN stripes : Where(id)' \subseteq Where(id)
  BY <1>1, WhereKept
<1>4. fresh' => \A id \in DOMAIN initial' : id < nextStripe'
  BY <1>1 DEF Values, Blocks
<1>5. Blocks' /\ ObjectsHold' /\ SetsHold' /\ GetsHold' /\ GotRight'
  BY <1>1, <1>2, <1>3, <1>4, ValuesKept
<1> QED BY <1>1, <1>5, SameThreads DEF Values

\* What is lost is not read.
LEMMA LoseValues ==
  ASSUME TypeInv, Values, NEW jd \in DOMAIN stripes, Lose(jd) PROVE Values'
<1>1. /\ UNCHANGED <<sets, stripes, nextBlock, nextStripe, initial, fresh, committed, current,
                     storing, client>>
      /\ \A spot \in DOMAIN disk' : spot \in DOMAIN disk /\ disk'[spot] = disk[spot]
  BY LoseEffect
<1>2. \A id \in DOMAIN stripes : Where(id)' \subseteq Where(id)
  BY <1>1, WhereKept
<1>3. fresh' => \A id \in DOMAIN initial' : id < nextStripe'
  BY <1>1 DEF Values, Blocks
<1>4. Blocks' /\ ObjectsHold' /\ SetsHold' /\ GetsHold' /\ GotRight'
  BY <1>1, <1>2, <1>3, ValuesKept
<1> QED BY <1>1, <1>4, SameThreads DEF Values

\* A stripe that is erased is not looked for.
LEMMA EraseStripesValues ==
  ASSUME TypeInv, Values, NEW c \in Clients, EraseStripes(c) PROVE Values'
<1> PICK ids : ids = client[c].ids
  OBVIOUS
<1> PICK keys : keys = client[c].keys
  OBVIOUS
<1>1. /\ UNCHANGED <<sets, nextBlock, nextStripe, initial, fresh, committed, current, storing,
                     disk>>
      /\ Becomes(c, [state |-> "erased", ids |-> ids, keys |-> keys])
      /\ \A id \in DOMAIN stripes' : id \in DOMAIN stripes /\ stripes'[id] = stripes[id]
  BY EraseStripesEffect
<1>2. \A d \in Clients : client'[d].state \in {"get", "got"} => client'[d] = client[d]
  BY <1>1 DEF Becomes
<1>3. \A id \in DOMAIN stripes' : Where(id)' \subseteq Where(id)
  BY <1>1, WhereKept
<1>4. fresh' => \A id \in DOMAIN initial' : id < nextStripe'
  BY <1>1 DEF Values, Blocks
<1>5. Blocks' /\ ObjectsHold' /\ SetsHold' /\ GetsHold' /\ GotRight'
  BY <1>1, <1>2, <1>3, <1>4, ValuesKept
<1> QED BY <1>1, <1>5, SameThreads DEF Values

\* The snapshot notes where the stripes are.
LEMMA SnapshotWhere ==
  ASSUME TypeInv, NEW c \in Clients, Snapshot(c)
  PROVE  \A id \in DOMAIN stripes : Where(id)' \subseteq Where(id)
<1>1. /\ DOMAIN initial' = DOMAIN stripes /\ stripes' = stripes
      /\ \A id \in DOMAIN stripes : initial'[id] = stripes[id].at
  BY SnapshotEffect
<1> QED BY <1>1 DEF Where

\* A snapshot notes the places of stripes that are there.
LEMMA SnapshotValues ==
  ASSUME TypeInv, Numbers, Values, NEW c \in Clients, Snapshot(c) PROVE Values'
<1>1. /\ UNCHANGED <<sets, stripes, nextBlock, nextStripe, committed, current, storing, disk,
                     client>>
      /\ DOMAIN initial' = DOMAIN stripes
  BY SnapshotEffect
<1>2. \A id \in DOMAIN stripes : Where(id)' \subseteq Where(id)
  BY SnapshotWhere
<1>3. fresh' => \A id \in DOMAIN initial' : id < nextStripe'
  BY <1>1 DEF Numbers, IdsBelow
<1>4. Blocks' /\ ObjectsHold' /\ SetsHold' /\ GetsHold' /\ GotRight'
  BY <1>1, <1>2, <1>3, ValuesKept
<1> QED BY <1>1, <1>4, SameThreads DEF Values

\* A revert goes to places that are noted.
LEMMA RevertWhere ==
  ASSUME TypeInv, NEW c \in Clients, Revert(c), "stale_revert" \notin trouble'
  PROVE  \A id \in DOMAIN stripes : Where(id)' \subseteq Where(id)
<1>1. /\ UNCHANGED <<fresh, initial>>
      /\ \A id \in DOMAIN stripes :
           stripes'[id].at = IF id \in DOMAIN initial THEN initial[id] ELSE stripes[id].at
      /\ ~fresh => stripes' = stripes
  BY RevertEffect
<1>2. CASE fresh
  BY <1>1, <1>2 DEF Where
<1>3. CASE ~fresh
  BY <1>1, <1>3 DEF Where
<1> QED BY <1>2, <1>3

\* A revert goes to where the values are.
LEMMA RevertValues ==
  ASSUME TypeInv, Values, NEW c \in Clients, Revert(c), "stale_revert" \notin trouble'
  PROVE  Values'
<1>1. /\ UNCHANGED <<sets, nextBlock, nextStripe, initial, fresh, committed, current, storing,
                     disk, client>>
      /\ DOMAIN stripes' = DOMAIN stripes
      /\ \A id \in DOMAIN stripes : stripes'[id].block = stripes[id].block
  BY RevertEffect
<1>2. \A id \in DOMAIN stripes : Where(id)' \subseteq Where(id)
  BY RevertWhere
<1>3. fresh' => \A id \in DOMAIN initial' : id < nextStripe'
  BY <1>1 DEF Values, Blocks
<1>4. Blocks' /\ ObjectsHold' /\ SetsHold' /\ GetsHold' /\ GotRight'
  BY <1>1, <1>2, <1>3, ValuesKept
<1> QED BY <1>1, <1>4, SameThreads DEF Values

\* An abort leaves the values of the others.
LEMMA AbortValues ==
  ASSUME TypeInv, Numbers, Values, NEW c \in Clients, Abort(c), "bad_abort" \notin trouble'
  PROVE  Values'
<1> PICK n : n = client[c].set
  OBVIOUS
<1> PICK k : k = sets[n].key
  OBVIOUS
<1>0. nextStripe \in Int
  BY DEF TypeInv, NumbersOK
<1> PICK id \in Int : nextStripe = id + 1
  BY <1>0, OneMore
<1>1. /\ Aborts(c, n, k) /\ sets[n].stage = "stored"
      /\ DOMAIN stripes' = DOMAIN stripes \ {id}
  BY Aborted
<1>2. /\ DOMAIN sets' = DOMAIN sets \ {n} /\ \A m \in DOMAIN sets' : sets'[m] = sets[m]
      /\ \A jd \in DOMAIN stripes' : stripes'[jd] = stripes[jd]
      /\ Becomes(c, Idle)
  BY <1>1 DEF Aborts, Forgets
<1>3. fresh' = FALSE /\ UNCHANGED <<nextBlock, committed, current, storing, disk>>
  BY AbortEffect
<1>4. \A d \in Clients : client'[d].state \in {"get", "got"} => client'[d] = client[d]
  <2>1. Idle.state = "idle"
    BY DEF Idle
  <2> QED BY <1>2, <2>1 DEF Becomes
<1>5. \A jd \in DOMAIN stripes' : Where(jd)' \subseteq Where(jd)
  BY <1>2, <1>3, WhereKept
<1>6. Blocks' /\ ObjectsHold' /\ SetsHold' /\ GetsHold' /\ GotRight'
  BY <1>1, <1>2, <1>3, <1>4, <1>5, ValuesKept
<1>7. Threads'
  BY <1>1, <1>2, <1>3, ThreadsAlike DEF Values
<1> QED BY <1>6, <1>7 DEF Values

\* Stutters and the end of the coordinator keep the values.
LEMMA OtherValues ==
  ASSUME TypeInv, Values, UNCHANGED vars \/ TablesBreak \/ EraseBreaks PROVE Values'
<1>1. UNCHANGED <<sets, stripes, nextBlock, nextStripe, initial, fresh, committed, current,
                  storing, disk, client>>
  BY BreakEffect DEF vars, tables, work, history
<1>2. Blocks' /\ ObjectsHold' /\ SetsHold' /\ GetsHold' /\ GotRight'
  BY <1>1, QuietValues
<1> QED BY <1>1, <1>2, SameThreads DEF Values

\* A reset that comes alone leaves no reads and no sets.
LEMMA ResetValues ==
  ASSUME TypeInv, Values, NEW c \in Clients, Reset(c), "reset_early" \notin trouble'
  PROVE  Values'
<1>1. /\ DOMAIN sets' = {} /\ DOMAIN stripes' = {} /\ DOMAIN committed' = {} /\ fresh' = FALSE
      /\ UNCHANGED <<client, sets, storing>>
      /\ \A d \in Clients : client[d].state \in {"idle", "got"}
  BY ResetEffect
<1>2. Blocks'
  BY <1>1 DEF Blocks
<1>3. ObjectsHold' /\ SetsHold'
  BY <1>1 DEF ObjectsHold, SetsHold
<1>4. GetsHold' /\ GotRight'
  BY <1>1 DEF Values, GetsHold, GotRight
<1> QED BY <1>1, <1>2, <1>3, <1>4, SameThreads DEF Values

\* What a set has stored is what the object is committed with.
LEMMA CommitValues ==
  ASSUME TypeInv, Numbers, Values, NEW c \in Clients, Commit(c) PROVE Values'
<1> PICK n : n = client[c].set
  OBVIOUS
<1> PICK k : k = sets[n].key
  OBVIOUS
<1>1. /\ k \notin DOMAIN committed /\ n \in DOMAIN sets /\ sets[n].stage = "stored"
      /\ 1 \in DOMAIN sets[n].ids /\ updating[k] = <<sets[n].ids[1]>> /\ k \in DOMAIN updating
  BY Committed
<1>2. /\ Commits(c, n, k)
      /\ UNCHANGED <<stripes, nextBlock, nextStripe, initial, fresh, disk, storing>>
  BY <1>1, CommitEffect
<1>3. /\ DOMAIN committed' = DOMAIN committed \cup {k} /\ committed'[k] = updating[k]
      /\ current'[k] = n
      /\ \A j \in DOMAIN committed : committed'[j] = committed[j]
      /\ \A j \in DOMAIN current : current'[j] = current[j]
      /\ DOMAIN sets' = DOMAIN sets \ {n} /\ \A m \in DOMAIN sets' : sets'[m] = sets[m]
      /\ Becomes(c, Idle)
  BY <1>2 DEF Commits, Forgets
<1>4. committed'[k][1] = sets[n].ids[1] /\ sets[n].ids # <<>> /\ DOMAIN current = DOMAIN committed
  BY <1>1, <1>3 DEF TypeInv, TablesOK
<1>5. \A d \in Clients : client'[d].state \in {"get", "got"} => client'[d] = client[d]
  BY <1>3 DEF Becomes, Idle
<1>6. \A id, m : Holds(id, m)' <=> Holds(id, m)
  BY <1>2 DEF Holds, Where
<1>7. \A id : Where(id)' = Where(id)
  BY <1>2 DEF Where
<1>8. Blocks'
  <2>1. fresh' => \A id \in DOMAIN initial' : id < nextStripe'
    BY <1>2 DEF Values, Blocks
  <2> QED BY <1>2, <1>3, <2>1, BlocksKept DEF Values
<1>9. ObjectsHold'
  <2>1. ASSUME NEW j \in DOMAIN committed', NEW id \in DOMAIN stripes', NEW m \in Nat,
               committed'[j][1] = id, current'[j] = m
        PROVE  Holds(id, m)'
    <3>1. CASE j = k
      <4>1. id \in DOMAIN stripes /\ sets[n].ids[1] = id /\ m = n
        BY <1>2, <1>3, <1>4, <2>1, <3>1
      <4>2. Holds(id, n)
        BY <1>1, <1>4, <4>1 DEF Values, SetsHold
      <4> QED BY <1>6, <4>1, <4>2
    <3>2. CASE j # k
      BY <1>2, <1>3, <1>4, <1>6, <2>1, <3>2 DEF Values, ObjectsHold
    <3> QED BY <3>1, <3>2
  <2> QED BY <2>1 DEF ObjectsHold
<1>10. SetsHold'
  BY <1>2, <1>3, <1>6, <1>7 DEF Values, SetsHold
<1>11. GetsHold' /\ GotRight'
  <2>1. ASSUME NEW d \in Clients, NEW m \in Nat, client'[d].state = "get", client'[d].want = m
        PROVE  Reads(d, m)'
    <3>1. client'[d] = client[d] /\ Reads(d, m)
      BY <1>5, <2>1 DEF Values, GetsHold
    <3> QED BY <1>2, <1>3, <1>6, <3>1 DEF Reads
  <2> QED BY <1>5, <2>1 DEF Values, GetsHold, GotRight
<1>12. Threads'
  BY <1>1, <1>2, <1>3, ThreadsAlike DEF Values
<1> QED BY <1>8, <1>9, <1>10, <1>11, <1>12 DEF Values

\* The new stripe's block is new: nothing lies there and nobody reads it.
LEMMA MakeStripeWhere ==
  ASSUME TypeInv, Numbers, Blocks, NEW n \in DOMAIN sets, MakeStripe(n),
         NEW id, id = sets[n].id, NEW p, Makes(n, id, p)
  PROVE  /\ id \notin DOMAIN stripes /\ Where(id)' \subseteq {p}
         /\ \A jd \in DOMAIN stripes : Where(jd)' = Where(jd)
         /\ \A k \in DOMAIN committed : committed[k][1] # id
         /\ \A m \in DOMAIN sets : \A i \in DOMAIN sets[m].ids : sets[m].ids[i] # id
<1>1. /\ sets[n].stage = "numbering" /\ id \in Int
      /\ stripes'[id] = [block |-> nextBlock, at |-> p,
                         objects |-> IF sets[n].ids = <<>> THEN {sets[n].key} ELSE {}]
      /\ \A jd \in DOMAIN stripes : jd # id => stripes'[jd] = stripes[jd]
      /\ UNCHANGED <<initial, fresh>>
  BY DEF Makes
<1>2. nextStripe \in Int /\ nextStripe <= id
  BY <1>1 DEF TypeInv, NumbersOK, Numbers, IdsBelow
<1>3. id \notin DOMAIN stripes
  <2>1. \A jd \in DOMAIN stripes : jd < nextStripe /\ jd \in Int
    BY DEF Numbers, IdsBelow, TypeInv, StripesOK
  <2> QED BY <1>2, <2>1
<1>4. fresh => id \notin DOMAIN initial
  <2>1. fresh => \A jd \in DOMAIN initial : jd < nextStripe /\ jd \in Int
    BY DEF Blocks, TypeInv, TablesOK
  <2> QED BY <1>2, <2>1
<1>5. stripes'[id].at = p
  BY <1>1
<1>6. Where(id)' \subseteq {p}
  BY <1>1, <1>4, <1>5 DEF Where
<1>7. \A jd \in DOMAIN stripes : Where(jd)' = Where(jd)
  BY <1>1, <1>3 DEF Where
<1>8. ASSUME NEW k \in DOMAIN committed PROVE committed[k][1] # id
  <2>1. PICK jd \in Int : committed[k] = <<jd>>
    BY DEF TypeInv, TablesOK, One
  <2>2. committed[k][1] = jd
    BY <2>1
  <2> QED BY <1>2, <2>2 DEF Numbers, IdsBelow
<1>9. ASSUME NEW m \in DOMAIN sets, NEW i \in DOMAIN sets[m].ids PROVE sets[m].ids[i] # id
  <2>1. sets[m].ids[i] \in Int /\ sets[m].ids[i] < nextStripe
    BY PartsFact DEF Numbers, IdsBelow
  <2> QED BY <1>2, <2>1
<1> QED BY <1>3, <1>6, <1>7, <1>8, <1>9

\* The new stripe will have its value where the set has its part.
LEMMA MakeStripeValues ==
  ASSUME TypeInv, Numbers, Values, NEW n \in DOMAIN sets, MakeStripe(n) PROVE Values'
<1> PICK id : id = sets[n].id
  OBVIOUS
<1>0. PICK p \in Proxies : Makes(n, id, p)
  BY MakeStripeEffect
<1>1. /\ id \notin DOMAIN stripes /\ Where(id)' \subseteq {p}
      /\ \A jd \in DOMAIN stripes : Where(jd)' = Where(jd)
      /\ \A k \in DOMAIN committed : committed[k][1] # id
      /\ \A m \in DOMAIN sets : \A i \in DOMAIN sets[m].ids : sets[m].ids[i] # id
  BY <1>0, MakeStripeWhere DEF Values
<1>2. /\ sets[n].stage = "numbering" /\ nextBlock' = nextBlock + 1
      /\ DOMAIN stripes' = DOMAIN stripes \cup {id}
      /\ \A jd \in DOMAIN stripes : jd # id => stripes'[jd] = stripes[jd]
      /\ DOMAIN sets' = DOMAIN sets /\ \A m \in DOMAIN sets \ {n} : sets'[m] = sets[m]
      /\ sets'[n].ids = Append(sets[n].ids, id) /\ sets'[n].stage = "checked"
      /\ sets'[n].parts = Append(sets[n].parts, <<nextBlock, p>>)
      /\ UNCHANGED <<committed, current, client, disk>>
  BY <1>0 DEF Makes
<1>3. Blocks' /\ Threads'
  BY MakeStripeBlocks DEF Values
<1>4. \A jd \in DOMAIN stripes : \A m : Holds(jd, m) => Holds(jd, m)'
  BY <1>1, <1>2 DEF Holds
<1>5. ObjectsHold'
  BY <1>1, <1>2, <1>4 DEF Values, ObjectsHold
<1> PICK l : l = Len(sets[n].parts) + 1
  OBVIOUS
<1>6. /\ sets[n].ids \in Seq(Int) /\ sets[n].parts \in Seq(Nat \X Proxies)
      /\ Len(sets[n].parts) = Len(sets[n].ids) /\ <<nextBlock, p>> \in Nat \X Proxies
      /\ nextBlock \in Nat
  BY DEF TypeInv, SetsOK, SetOK, SetRecord, NumbersOK
<1>7. /\ DOMAIN sets'[n].parts = DOMAIN sets[n].parts \cup {l} /\ l \notin DOMAIN sets[n].parts
      /\ sets'[n].parts[l] = <<nextBlock, p>>
      /\ \A i \in DOMAIN sets[n].parts : sets'[n].parts[i] = sets[n].parts[i]
  <2> PICK S : S = Nat \X Proxies
    OBVIOUS
  <2> PICK x : x = <<nextBlock, p>>
    OBVIOUS
  <2>1. sets[n].parts \in Seq(S) /\ x \in S /\ sets'[n].parts = Append(sets[n].parts, x)
    BY <1>2, <1>6
  <2> QED BY <2>1, AppendFacts
<1>8. /\ DOMAIN sets'[n].ids = DOMAIN sets[n].ids \cup {l} /\ sets'[n].ids[l] = id
      /\ \A i \in DOMAIN sets[n].ids : sets'[n].ids[i] = sets[n].ids[i]
  <2>1. l = Len(sets[n].ids) + 1 /\ id \in Int
    BY <1>0, <1>6 DEF Makes
  <2> QED BY <1>2, <1>6, <2>1, AppendFacts
<1>9. SetsHold'
  <2>1. ASSUME NEW m \in DOMAIN sets', NEW jd \in DOMAIN stripes',
               sets'[m].ids # <<>> /\ sets'[m].ids[1] = jd
        PROVE  IF sets'[m].stage = "stored" THEN Holds(jd, m)'
                                            ELSE Where(jd)' \subseteq {sets'[m].parts[1][2]}
    <3>1. CASE m # n
      <4>1. m \in DOMAIN sets /\ sets'[m] = sets[m] /\ sets[m].ids # <<>> /\ sets[m].ids[1] = jd
        BY <1>2, <2>1, <3>1
      <4>2. 1 \in DOMAIN sets[m].ids
        BY <4>1, PartsFact
      <4>3. jd \in DOMAIN stripes
        BY <1>1, <1>2, <4>1, <4>2
      <4>4. IF sets[m].stage = "stored" THEN Holds(jd, m)
                                       ELSE Where(jd) \subseteq {sets[m].parts[1][2]}
        BY <4>1, <4>3 DEF Values, SetsHold
      <4> QED BY <1>1, <1>4, <4>1, <4>3, <4>4
    <3>2. CASE m = n /\ sets[n].ids # <<>>
      <4>1. 1 \in DOMAIN sets[n].ids /\ 1 \in DOMAIN sets[n].parts
        BY <3>2, PartsFact
      <4>2. sets'[n].ids[1] = sets[n].ids[1] /\ sets'[n].parts[1] = sets[n].parts[1]
        BY <1>7, <1>8, <4>1
      <4>3. jd \in DOMAIN stripes
        BY <1>1, <1>2, <2>1, <3>2, <4>1, <4>2
      <4>4. Where(jd) \subseteq {sets[n].parts[1][2]}
        <5>1. sets[n].ids[1] = jd /\ sets[n].stage # "stored"
          BY <1>2, <2>1, <3>2, <4>2
        <5> QED BY <3>2, <4>3, <5>1 DEF Values, SetsHold
      <4> QED BY <1>1, <1>2, <3>2, <4>2, <4>3, <4>4
    <3>3. CASE m = n /\ sets[n].ids = <<>>
      <4>1. l = 1
        BY <1>6, <3>3
      <4>2. jd = id /\ sets'[n].parts[1] = <<nextBlock, p>>
        BY <1>7, <1>8, <2>1, <3>3, <4>1
      <4>3. <<nextBlock, p>>[2] = p
        OBVIOUS
      <4> QED BY <1>1, <1>2, <3>3, <4>2, <4>3
    <3> QED BY <3>1, <3>2, <3>3
  <2> QED BY <2>1 DEF SetsHold
<1>10. ASSUME NEW c \in Clients, NEW v \in Nat, client'[c].state = "get", client'[c].want = v
       PROVE  Reads(c, v)'
  <2> PICK spot : spot = client[c].parts[1]
    OBVIOUS
  <2>1. /\ spot \in Nat \X Proxies /\ spot[1] < nextBlock
        /\ spot \in DOMAIN disk => disk[spot] = <<v, 1>>
        /\ \A m \in DOMAIN sets : \A i \in DOMAIN sets[m].parts : sets[m].parts[i][1] # spot[1]
        /\ \A jd \in DOMAIN stripes : stripes[jd].block = spot[1] => Holds(jd, v)
    BY <1>2, <1>10 DEF Values, GetsHold, Reads
  <2>2. spot[1] < nextBlock' /\ spot[1] # nextBlock
    BY <1>2, <1>6, <2>1
  <2>3. ASSUME NEW m \in DOMAIN sets', NEW i \in DOMAIN sets'[m].parts
        PROVE  sets'[m].parts[i][1] # spot[1]
    <3>1. CASE m # n
      BY <1>2, <2>1, <3>1
    <3>2. CASE m = n /\ i # l
      BY <1>7, <2>1, <3>2
    <3>3. CASE m = n /\ i = l
      <4>1. <<nextBlock, p>>[1] = nextBlock
        OBVIOUS
      <4> QED BY <1>7, <2>2, <3>3, <4>1
    <3> QED BY <3>1, <3>2, <3>3
  <2>4. ASSUME NEW jd \in DOMAIN stripes', stripes'[jd].block = spot[1] PROVE Holds(jd, v)'
    <3>1. jd # id
      <4>1. stripes'[id].block = nextBlock
        BY <1>0 DEF Makes
      <4> QED BY <2>2, <2>4, <4>1
    <3>2. jd \in DOMAIN stripes /\ stripes'[jd] = stripes[jd]
      BY <1>2, <3>1
    <3> QED BY <1>4, <2>1, <2>4, <3>2
  <2>5. client'[c].parts[1] = spot
    BY <1>2
  <2> QED BY <1>2, <2>1, <2>2, <2>3, <2>4, <2>5 DEF Reads
<1>11. GetsHold' /\ GotRight'
  BY <1>2, <1>10 DEF Values, GetsHold, GotRight
<1> QED BY <1>3, <1>5, <1>9, <1>11 DEF Values

\* What a set stores, it stores under its own numbers: the thread that takes its
\* connection is the one that was told to.
LEMMA StoredParts ==
  ASSUME TypeInv, Threads, NEW t \in storing, NEW k \in conns, Finishes(t, k), NEW n, n = k.set
  PROVE  /\ n \in DOMAIN sets /\ sets[n].stage = "answered" /\ t.parts = sets[n].parts
         /\ \A u \in storing : u # t => u.set # n
<1>1. t.proxy = k.proxy
  BY DEF Finishes
<1>2. /\ n \in DOMAIN sets /\ sets[n].stage = "answered" /\ k.proxy \in sets[n].proxy
  BY DEF TypeInv, ConnsOK
<1>3. PICK u \in storing : u.set = n /\ u.proxy = k.proxy
  BY <1>2 DEF Threads
<1>4. u = t
  BY <1>1, <1>3 DEF Threads
<1>5. \A p, q \in sets[n].proxy : p = q
  BY <1>2 DEF TypeInv, SetsOK, SetOK
<1>6. ASSUME NEW v \in storing, v.set = n PROVE v = t
  <2>1. v.proxy \in sets[n].proxy
    BY <1>6 DEF Threads
  <2> QED BY <1>1, <1>2, <1>5, <2>1 DEF Threads
<1> QED BY <1>2, <1>3, <1>4, <1>6 DEF Threads

\* The first part of a set is of its first block.
LEMMA FirstPart ==
  ASSUME TypeInv, Blocks, NEW n \in DOMAIN sets, 1 \in DOMAIN sets[n].parts,
         NEW spot, spot = sets[n].parts[1]
  PROVE  Min({i \in DOMAIN sets[n].parts : sets[n].parts[i] = spot}) = 1
<1>1. ASSUME NEW i \in DOMAIN sets[n].parts, sets[n].parts[i] = spot PROVE i = 1
  BY <1>1 DEF Blocks
<1>2. {i \in DOMAIN sets[n].parts : sets[n].parts[i] = spot} = {1}
  BY <1>1
<1>3. Min({1}) = 1
  BY DEF Min
<1> QED BY <1>2, <1>3

\* A thread that stores ends with its set.
LEMMA StoreThreads ==
  ASSUME TypeInv, Threads, NEW t \in storing, NEW k \in conns, Finishes(t, k) PROVE Threads'
<1> PICK n : n = k.set
  OBVIOUS
<1>1. /\ n \in DOMAIN sets /\ sets[n].stage = "answered" /\ t.parts = sets[n].parts
      /\ \A u \in storing : u # t => u.set # n
  BY StoredParts
<1>2. storing' = storing \ {t} /\ Moved(n, "stored")
  BY DEF Finishes
<1>3. /\ DOMAIN sets' = DOMAIN sets /\ \A m \in DOMAIN sets \ {n} : sets'[m] = sets[m]
      /\ sets'[n].stage = "stored"
  BY <1>2 DEF Moved
<1>4. \A u \in storing' : u \in storing /\ u.set # n
  BY <1>1, <1>2
<1>5. \A u \in storing' : /\ u.set \in DOMAIN sets' /\ sets'[u.set].stage = "answered"
                          /\ u.parts = sets'[u.set].parts /\ u.proxy \in sets'[u.set].proxy
  BY <1>3, <1>4 DEF Threads
<1>6. ASSUME NEW m \in DOMAIN sets', sets'[m].stage = "answered", NEW p \in sets'[m].proxy
      PROVE  \E u \in storing' : u.set = m /\ u.proxy = p
  <2>1. m \in DOMAIN sets /\ m # n /\ sets'[m] = sets[m]
    BY <1>3, <1>6
  <2>2. PICK u \in storing : u.set = m /\ u.proxy = p
    BY <1>6, <2>1 DEF Threads
  <2>3. u # t
    <3>1. t.set = n
      <4>1. PICK v \in storing : v.set = n
        <5>1. k.proxy \in sets[n].proxy
          BY DEF TypeInv, ConnsOK
        <5> QED BY <1>1, <5>1 DEF Threads
      <4> QED BY <1>1, <4>1
    <3> QED BY <2>1, <2>2, <3>1
  <2> QED BY <1>2, <2>2, <2>3
<1>7. \A u, v \in storing' : u.proxy = v.proxy => u = v
  BY <1>4 DEF Threads
<1> QED BY <1>5, <1>6, <1>7 DEF Threads

\* Stripes of other blocks hold what they held.
LEMMA StoreElsewhere ==
  ASSUME TypeInv, Blocks, Threads, NEW t \in storing, NEW k \in conns, Finishes(t, k),
         NEW n, n = k.set, NEW id \in DOMAIN stripes, NEW m, Holds(id, m),
         \A i \in DOMAIN sets[n].parts : sets[n].parts[i][1] # stripes[id].block
  PROVE  Holds(id, m)'
<1>1. /\ n \in DOMAIN sets /\ t.parts = sets[n].parts
  BY StoredParts
<1>2. /\ DOMAIN disk' \subseteq DOMAIN disk \cup ToSet(t.parts)
      /\ \A spot \in DOMAIN disk \ ToSet(t.parts) : disk'[spot] = disk[spot]
      /\ UNCHANGED <<stripes, initial, fresh>>
  BY DEF Finishes
<1>3. \A x : <<stripes[id].block, x>> \notin ToSet(t.parts)
  <2>1. ASSUME NEW x, <<stripes[id].block, x>> \in ToSet(t.parts) PROVE FALSE
    <3>1. PICK i \in DOMAIN sets[n].parts : sets[n].parts[i] = <<stripes[id].block, x>>
      BY <1>1, <2>1 DEF ToSet
    <3>2. <<stripes[id].block, x>>[1] = stripes[id].block
      OBVIOUS
    <3> QED BY <3>1, <3>2
  <2> QED BY <2>1
<1>4. Where(id)' \subseteq Where(id)
  BY <1>2 DEF Where
<1> QED BY <1>2, <1>3, <1>4, HoldsKept

\* What is stored is where the set's first stripe is, and nowhere else; what fails to be
\* stored is not there, if nothing was there before.
LEMMA StoreValues ==
  ASSUME TypeInv, Numbers, Values, NEW t \in storing, NEW k \in conns, Finishes(t, k),
         "old_kept" \notin trouble'
  PROVE  Values'
<1> PICK n : n = k.set
  OBVIOUS
<1>1. /\ n \in DOMAIN sets /\ sets[n].stage = "answered" /\ t.parts = sets[n].parts
  BY StoredParts DEF Values
<1>2. /\ DOMAIN disk' \subseteq DOMAIN disk \cup ToSet(t.parts)
      /\ \A spot \in ToSet(t.parts) \cap DOMAIN disk' :
           disk'[spot] = <<n, Min({i \in DOMAIN t.parts : t.parts[i] = spot})>>
      /\ \A spot \in DOMAIN disk \ ToSet(t.parts) : disk'[spot] = disk[spot]
      /\ Moved(n, "stored")
      /\ UNCHANGED <<nextStripe, nextBlock, stripes, committed, initial, current, fresh>>
  BY DEF Finishes, Content
<1>13. \A d \in Clients : client'[d].state \in {"get", "got"} => client'[d] = client[d]
  <2>1. Stuck.state = "stuck"
    BY DEF Stuck
  <2> QED BY <2>1 DEF Finishes, Hangs
<1>3. /\ DOMAIN sets' = DOMAIN sets /\ \A m \in DOMAIN sets \ {n} : sets'[m] = sets[m]
      /\ sets'[n].ids = sets[n].ids /\ sets'[n].parts = sets[n].parts
      /\ sets'[n].stage = "stored"
  BY <1>2 DEF Moved
<1>4. Threads'
  BY StoreThreads DEF Values
<1>5. \A m \in DOMAIN sets' : /\ m \in DOMAIN sets
                              /\ sets'[m].ids = sets[m].ids /\ sets'[m].parts = sets[m].parts
  BY <1>3
<1>6. Blocks'
  <2>1. fresh' => \A id \in DOMAIN initial' : id < nextStripe'
    BY <1>2 DEF Values, Blocks
  <2> QED BY <1>2, <1>5, <2>1, BlocksKept DEF Values
<1>7. ASSUME NEW id \in DOMAIN stripes, NEW m, Holds(id, m),
             \A i \in DOMAIN sets[n].parts : sets[n].ids[i] # id
      PROVE  Holds(id, m)'
  <2>1. \A i \in DOMAIN sets[n].parts : sets[n].parts[i][1] # stripes[id].block
    BY <1>1, <1>7 DEF Values, Blocks
  <2> QED BY <1>7, <2>1, StoreElsewhere DEF Values
<1>8. /\ DOMAIN sets[n].parts = DOMAIN sets[n].ids
      /\ sets[n].ids # <<>> => 1 \in DOMAIN sets[n].ids
  BY <1>1, PartsFact
<1>9. ObjectsHold'
  <2>1. ASSUME NEW j \in DOMAIN committed, NEW id \in DOMAIN stripes, NEW m \in Nat,
               committed[j][1] = id, current[j] = m
        PROVE  Holds(id, m)'
    <3>1. Holds(id, m)
      BY <2>1 DEF Values, ObjectsHold
    <3>2. \A i \in DOMAIN sets[n].parts : sets[n].ids[i] # id
      BY <1>1, <1>8, <2>1 DEF Numbers, IdsApart
    <3> QED BY <1>7, <3>1, <3>2
  <2> QED BY <1>2, <2>1 DEF ObjectsHold
<1>10. SetsHold'
  <2>1. ASSUME NEW m \in DOMAIN sets, NEW id \in DOMAIN stripes,
               sets[m].ids # <<>> /\ sets[m].ids[1] = id, m # n
        PROVE  IF sets'[m].stage = "stored" THEN Holds(id, m)'
                                            ELSE Where(id)' \subseteq {sets'[m].parts[1][2]}
    <3>1. IF sets[m].stage = "stored" THEN Holds(id, m)
                                     ELSE Where(id) \subseteq {sets[m].parts[1][2]}
      BY <2>1 DEF Values, SetsHold
    <3>2. \A i \in DOMAIN sets[n].parts : sets[n].ids[i] # id
      <4>1. 1 \in DOMAIN sets[m].ids
        BY <2>1, PartsFact
      <4> QED BY <1>1, <1>8, <2>1, <4>1 DEF Numbers, IdsApart
    <3>3. Where(id)' = Where(id)
      BY <1>2 DEF Where
    <3> QED BY <1>3, <1>7, <2>1, <3>1, <3>2, <3>3
  <2>2. ASSUME NEW id \in DOMAIN stripes, sets[n].ids # <<>>, sets[n].ids[1] = id
        PROVE  Holds(id, n)'
    <3> PICK spot : spot = sets[n].parts[1]
      OBVIOUS
    <3>1. 1 \in DOMAIN sets[n].parts
      BY <1>8, <2>2
    <3>2. spot \in Nat \X Proxies
      BY <1>1, <3>1, PartsFact
    <3>3. spot[1] = stripes[id].block
      BY <1>1, <2>2, <3>1 DEF Values, Blocks
    <3>4. Where(id) \subseteq {spot[2]}
      BY <1>1, <2>2 DEF Values, SetsHold
    <3>5. spot \in ToSet(t.parts)
      BY <1>1, <3>1 DEF ToSet
    <3>6. spot \in DOMAIN disk' => disk'[spot] = <<n, 1>>
      <4>1. Min({i \in DOMAIN sets[n].parts : sets[n].parts[i] = spot}) = 1
        BY <1>1, <3>1, FirstPart DEF Values
      <4>2. spot \in DOMAIN disk' =>
              disk'[spot] = <<n, Min({i \in DOMAIN t.parts : t.parts[i] = spot})>>
        BY <1>2, <3>5
      <4> QED BY <1>1, <4>1, <4>2
    <3>7. spot = <<spot[1], spot[2]>>
      BY <3>2
    <3>8. Where(id)' = Where(id) /\ stripes' = stripes
      BY <1>2 DEF Where
    <3> QED BY <3>3, <3>4, <3>6, <3>7, <3>8 DEF Holds
  <2> QED BY <1>2, <1>3, <2>1, <2>2 DEF SetsHold
<1>11. ASSUME NEW c \in Clients, NEW v \in Nat, client'[c].state = "get", client'[c].want = v
       PROVE  Reads(c, v)'
  <2> PICK spot : spot = client[c].parts[1]
    OBVIOUS
  <2>6. client'[c] = client[c]
    BY <1>11, <1>13
  <2>1. /\ spot \in Nat \X Proxies /\ spot[1] < nextBlock
        /\ spot \in DOMAIN disk => disk[spot] = <<v, 1>>
        /\ \A m \in DOMAIN sets : \A i \in DOMAIN sets[m].parts : sets[m].parts[i][1] # spot[1]
        /\ \A jd \in DOMAIN stripes : stripes[jd].block = spot[1] => Holds(jd, v)
    BY <1>11, <2>6 DEF Values, GetsHold, Reads
  <2>2. spot \notin ToSet(t.parts)
    BY <1>1, <2>1 DEF ToSet
  <2>3. spot \in DOMAIN disk' => disk'[spot] = <<v, 1>>
    BY <1>2, <2>1, <2>2
  <2>4. \A m \in DOMAIN sets' : \A i \in DOMAIN sets'[m].parts : sets'[m].parts[i][1] # spot[1]
    BY <1>5, <2>1
  <2>5. ASSUME NEW jd \in DOMAIN stripes', stripes'[jd].block = spot[1] PROVE Holds(jd, v)'
    <3>1. Holds(jd, v)
      BY <1>2, <2>1, <2>5
    <3>2. \A i \in DOMAIN sets[n].parts : sets[n].parts[i][1] # stripes[jd].block
      BY <1>1, <1>2, <2>1, <2>5
    <3> QED BY <1>2, <3>1, <3>2, StoreElsewhere DEF Values
  <2> QED BY <1>2, <2>1, <2>3, <2>4, <2>5, <2>6 DEF Reads
<1>12. GetsHold' /\ GotRight'
  BY <1>11, <1>13 DEF Values, GetsHold, GotRight
<1> QED BY <1>4, <1>6, <1>9, <1>10, <1>12 DEF Values

\* A get reads where the object's stripe is, which no set writes any more.
LEMMA GetReads ==
  ASSUME TypeInv, Numbers, Values, NEW k \in DOMAIN committed, NEW id \in DOMAIN stripes,
         committed[k][1] = id, NEW v, v = current[k], NEW c \in Clients, NEW spot, spot = Spot(id),
         client'[c].parts[1] = spot,
         UNCHANGED <<nextBlock, stripes, sets, disk, initial, fresh>>
  PROVE  Reads(c, v)'
<1>1. /\ spot = <<stripes[id].block, stripes[id].at>> /\ v \in Nat
      /\ stripes[id].block \in Nat /\ stripes[id].at \in Proxies
  BY DEF TypeInv, TablesOK, NumbersOK, StripesOK, Spot
<1>2. spot \in Nat \X Proxies /\ spot[1] = stripes[id].block
  BY <1>1
<1>3. Holds(id, v)
  BY <1>1 DEF Values, ObjectsHold
<1>4. spot \in DOMAIN disk => disk[spot] = <<v, 1>>
  BY <1>1, <1>3 DEF Holds, Where
<1>5. ASSUME NEW m \in DOMAIN sets, NEW i \in DOMAIN sets[m].parts
      PROVE  sets[m].parts[i][1] # spot[1]
  <2>1. sets[m].ids[i] # id
    BY PartsFact DEF Numbers, IdsApart
  <2> QED BY <1>2, <2>1 DEF Values, Blocks
<1>6. \A jd \in DOMAIN stripes : stripes[jd].block = spot[1] => jd = id
  BY <1>2 DEF Values, Blocks
<1>7. spot[1] < nextBlock
  BY <1>2 DEF Values, Blocks
<1>8. Holds(id, v)'
  BY <1>3 DEF Holds, Where
<1> QED BY <1>2, <1>4, <1>5, <1>6, <1>7, <1>8 DEF Reads

\* All but the clients is the same.
LEMMA RestSame ==
  ASSUME Values, UNCHANGED <<nextStripe, nextBlock, stripes, committed, initial, sets, storing,
                             disk, current, fresh>>
  PROVE  Blocks' /\ Threads' /\ ObjectsHold' /\ SetsHold'
<1>1. Blocks' <=> Blocks
  BY DEF Blocks
<1>2. Threads' <=> Threads
  BY DEF Threads
<1>3. \A id, n : Holds(id, n)' <=> Holds(id, n)
  BY DEF Holds, Where
<1>4. \A id : Where(id)' = Where(id)
  BY DEF Where
<1> QED BY <1>1, <1>2, <1>3, <1>4 DEF Values, ObjectsHold, SetsHold

\* Steps of one client that touch neither stripes nor sets nor what is stored leave the
\* reads of the others.
LEMMA OtherReads ==
  ASSUME Values, NEW c \in Clients, NEW x, Becomes(c, x),
         UNCHANGED <<nextBlock, stripes, sets, disk, initial, fresh>>,
         NEW d \in Clients, d # c, NEW v \in Nat, client'[d].state = "get", client'[d].want = v
  PROVE  Reads(d, v)'
<1>1. client'[d] = client[d]
  BY DEF Becomes
<1>2. Reads(d, v)
  BY <1>1 DEF Values, GetsHold
<1> QED BY <1>1, <1>2 DEF Reads, Holds, Where

\* A get looks where the value of its object lies.
LEMMA GetValues ==
  ASSUME TypeInv, Numbers, Values, NEW c \in Clients, NEW k \in Keys, Get(c, k) PROVE Values'
<1>1. UNCHANGED <<nextStripe, nextBlock, stripes, committed, initial, sets, storing, disk,
                  current, fresh>>
  BY GetEffect
<1>2. Blocks' /\ Threads' /\ ObjectsHold' /\ SetsHold'
  BY <1>1, RestSame
<1>3. CASE client' = client
  BY <1>1, <1>2, <1>3 DEF Values, GetsHold, GotRight, Reads, Holds, Where
<1>4. CASE client' # client
  <2> PICK id : id = committed[k][1]
    OBVIOUS
  <2> PICK spot : spot = Spot(id)
    OBVIOUS
  <2> PICK v : v = current[k]
    OBVIOUS
  <2> DEFINE x == [state |-> "get", want |-> v, parts |-> <<spot>>]
  <2>1. k \in DOMAIN committed /\ ToSet(committed[k]) \subseteq DOMAIN stripes /\ Becomes(c, x)
    BY <1>4, GetEffect
  <2>2. id \in DOMAIN stripes
    <3>1. PICK jd \in Int : committed[k] = <<jd>>
      BY <2>1 DEF TypeInv, TablesOK, One
    <3>2. id = jd
      BY <3>1
    <3> QED BY <2>1, <3>1, <3>2, OneStripe
  <2>3. x.state = "get" /\ x.want = v /\ x.parts[1] = spot
    OBVIOUS
  <2> HIDE DEF x
  <2>4. client'[c] = x
    BY <2>1 DEF Becomes
  <2>5. Reads(c, v)'
    BY <1>1, <2>1, <2>2, <2>3, <2>4, GetReads
  <2>6. ASSUME NEW d \in Clients, NEW m \in Nat, client'[d].state = "get", client'[d].want = m
        PROVE  Reads(d, m)'
    BY <1>1, <2>1, <2>3, <2>4, <2>5, <2>6, OtherReads
  <2>7. GetsHold'
    BY <2>6 DEF GetsHold
  <2>8. GotRight'
    BY <2>1, <2>3, <2>4 DEF Values, GotRight, Becomes
  <2> QED BY <1>2, <2>7, <2>8 DEF Values
<1> QED BY <1>3, <1>4

\* What is read is what lies where the get looked.
LEMMA ReadValues ==
  ASSUME TypeInv, Values, NEW c \in Clients, Read(c) PROVE Values'
<1> PICK spot : spot = client[c].parts[1]
  OBVIOUS
<1> PICK v : v = client[c].want
  OBVIOUS
<1> PICK got : got = Stored(spot)
  OBVIOUS
<1> DEFINE x == [state |-> "got", want |-> v, got |-> got]
<1>1. /\ client[c].state = "get" /\ Becomes(c, x)
      /\ UNCHANGED <<nextStripe, nextBlock, stripes, committed, initial, sets, storing, disk,
                     current, fresh>>
  BY ReadEffect
<1>2. Blocks' /\ Threads' /\ ObjectsHold' /\ SetsHold'
  BY <1>1, RestSame
<1>3. x.state = "got" /\ x.want = v /\ x.got = got
  OBVIOUS
<1> HIDE DEF x
<1>4. client'[c] = x
  BY <1>1 DEF Becomes
<1>5. v \in Nat
  BY <1>1, ClientShapes DEF TypeInv
<1>6. spot \in DOMAIN disk => disk[spot] = <<v, 1>>
  BY <1>1, <1>5 DEF Values, GetsHold, Reads
<1>7. got = <<>> \/ got = <<(<<v, 1>>)>>
  BY <1>6 DEF Stored
<1>8. GotRight'
  BY <1>1, <1>3, <1>4, <1>7 DEF Values, GotRight, Becomes
<1>9. ASSUME NEW d \in Clients, NEW m \in Nat, client'[d].state = "get", client'[d].want = m
      PROVE  Reads(d, m)'
  BY <1>1, <1>3, <1>4, <1>9, OtherReads
<1>10. GetsHold'
  BY <1>9 DEF GetsHold
<1> QED BY <1>2, <1>8, <1>10 DEF Values

\* A repair writes what it has read, under the number of its stripe.
LEMMA RepairHolds ==
  ASSUME TypeInv, Blocks, NEW id \in DOMAIN stripes, NEW p, Relocates(id, p),
         NEW jd \in DOMAIN stripes, NEW v, Holds(jd, v),
         "read_broken" \notin trouble', "old_kept" \notin trouble'
  PROVE  Holds(jd, v)'
<1> PICK b : b = stripes[id].block
  OBVIOUS
<1>1. /\ \A kd \in DOMAIN stripes \ {id} : stripes'[kd] = stripes[kd]
      /\ stripes'[id] = [block |-> b, at |-> p, objects |-> stripes[id].objects]
      /\ DOMAIN disk' \subseteq DOMAIN disk \cup {<<b, p>>}
      /\ <<b, p>> \in DOMAIN disk' => disk'[<<b, p>>] = disk[Spot(id)]
      /\ \A spot \in DOMAIN disk : spot # <<b, p>> => disk'[spot] = disk[spot]
      /\ Spot(id) \in DOMAIN disk /\ UNCHANGED <<initial, fresh>>
  BY DEF Relocates
<1>2. stripes'[id].at = p /\ stripes'[id].block = b
  <2> DEFINE x == [block |-> b, at |-> p, objects |-> stripes[id].objects]
  <2>1. x.at = p /\ x.block = b
    OBVIOUS
  <2>2. stripes'[id] = x
    BY <1>1
  <2> HIDE DEF x
  <2> QED BY <2>1, <2>2
<1>3. CASE jd = id
  <2>1. Spot(id) = <<b, stripes[id].at>> /\ stripes[id].at \in Where(id)
    BY DEF Spot, Where
  <2>2. <<b, p>> \in DOMAIN disk' => disk'[<<b, p>>] = <<v, 1>>
    BY <1>1, <1>3, <2>1 DEF Holds
  <2>3. Where(id)' \subseteq Where(id) \cup {p}
    BY <1>1, <1>2 DEF Where
  <2>4. ASSUME NEW y \in Where(id)', <<b, y>> \in DOMAIN disk' PROVE disk'[<<b, y>>] = <<v, 1>>
    <3>1. CASE y = p
      BY <2>2, <2>4, <3>1
    <3>2. CASE y # p
      <4>1. y \in Where(id) /\ <<b, y>> # <<b, p>>
        BY <2>3, <3>2
      <4> QED BY <1>1, <1>3, <2>4, <4>1 DEF Holds
    <3> QED BY <3>1, <3>2
  <2> QED BY <1>2, <1>3, <2>4 DEF Holds
<1>4. CASE jd # id
  <2>1. stripes'[jd] = stripes[jd] /\ stripes[jd].block # b
    BY <1>1, <1>4 DEF Blocks
  <2>2. \A y : <<stripes[jd].block, y>> # <<b, p>>
    BY <2>1
  <2>3. Where(jd)' = Where(jd)
    BY <1>1, <2>1 DEF Where
  <2> QED BY <1>1, <2>1, <2>2, <2>3 DEF Holds
<1> QED BY <1>3, <1>4

\* A repair of a stripe that is written copies its value.
LEMMA RepairValues ==
  ASSUME TypeInv, Values, NEW id \in DOMAIN stripes, Repair(id), "repaired_early" \notin trouble',
         "read_broken" \notin trouble', "old_kept" \notin trouble'
  PROVE  Values'
<1>0. PICK p \in Proxies : Relocates(id, p)
  BY RepairEffect
<1> PICK b : b = stripes[id].block
  OBVIOUS
<1>1. /\ DOMAIN stripes' = DOMAIN stripes /\ Spot(id) \in DOMAIN disk
      /\ \A jd \in DOMAIN stripes \ {id} : stripes'[jd] = stripes[jd]
      /\ stripes'[id] = [block |-> b, at |-> p, objects |-> stripes[id].objects]
      /\ DOMAIN disk' \subseteq DOMAIN disk \cup {<<b, p>>}
      /\ <<b, p>> \in DOMAIN disk' => disk'[<<b, p>>] = disk[Spot(id)]
      /\ \A spot \in DOMAIN disk : spot # <<b, p>> => disk'[spot] = disk[spot]
      /\ Unwritten(id) => "repaired_early" \in trouble'
      /\ UNCHANGED <<nextStripe, nextBlock, committed, initial, sets, client, storing, current,
                     fresh>>
  BY <1>0 DEF Relocates
<1>2. ~Unwritten(id)
  BY <1>1
<1>3. \A jd \in DOMAIN stripes : stripes'[jd].block = stripes[jd].block
  <2>1. stripes'[id].block = b
    <3> DEFINE x == [block |-> b, at |-> p, objects |-> stripes[id].objects]
    <3>1. x.block = b
      OBVIOUS
    <3>2. stripes'[id] = x
      BY <1>1
    <3> HIDE DEF x
    <3> QED BY <3>1, <3>2
  <2>2. \A jd \in DOMAIN stripes : jd = id \/ stripes'[jd] = stripes[jd]
    BY <1>1
  <2> QED BY <2>1, <2>2
<1>4. Blocks'
  <2>1. fresh' => \A jd \in DOMAIN initial' : jd < nextStripe'
    BY <1>1 DEF Values, Blocks
  <2>2. \A n \in DOMAIN sets' : /\ n \in DOMAIN sets /\ sets'[n].ids = sets[n].ids
                                /\ sets'[n].parts = sets[n].parts
    BY <1>1
  <2> QED BY <1>1, <1>3, <2>1, <2>2, BlocksKept DEF Values
<1>5. ASSUME NEW jd \in DOMAIN stripes, NEW v, Holds(jd, v) PROVE Holds(jd, v)'
  BY <1>0, <1>5, RepairHolds DEF Values
<1>6. ObjectsHold'
  BY <1>1, <1>5 DEF Values, ObjectsHold
<1>7. SetsHold'
  <2>1. ASSUME NEW n \in DOMAIN sets, NEW jd \in DOMAIN stripes, sets[n].ids # <<>>,
               sets[n].ids[1] = jd, sets[n].stage # "stored"
        PROVE  Where(jd)' \subseteq {sets[n].parts[1][2]}
    <3>1. 1 \in DOMAIN sets[n].ids
      BY <2>1, PartsFact
    <3>2. jd # id
      BY <1>2, <2>1, <3>1 DEF Unwritten, ToSet
    <3>3. Where(jd)' = Where(jd)
      BY <1>1, <3>2 DEF Where
    <3> QED BY <2>1, <3>3 DEF Values, SetsHold
  <2>2. SetsHold
    BY DEF Values
  <2> QED BY <1>1, <1>5, <2>1, <2>2 DEF SetsHold
<1>8. ASSUME NEW c \in Clients, NEW v \in Nat, client'[c].state = "get", client'[c].want = v
      PROVE  Reads(c, v)'
  <2> PICK spot : spot = client[c].parts[1]
    OBVIOUS
  <2>1. /\ spot \in Nat \X Proxies /\ spot[1] < nextBlock
        /\ spot \in DOMAIN disk => disk[spot] = <<v, 1>>
        /\ \A m \in DOMAIN sets : \A i \in DOMAIN sets[m].parts : sets[m].parts[i][1] # spot[1]
        /\ \A jd \in DOMAIN stripes : stripes[jd].block = spot[1] => Holds(jd, v)
    BY <1>1, <1>8 DEF Values, GetsHold, Reads
  <2>2. spot \in DOMAIN disk' => disk'[spot] = <<v, 1>>
    <3>1. CASE spot = <<b, p>>
      <4>1. Holds(id, v)
        <5>1. <<b, p>>[1] = b
          OBVIOUS
        <5>2. spot[1] = stripes[id].block
          BY <3>1, <5>1
        <5> QED BY <2>1, <5>2
      <4>2. disk[Spot(id)] = <<v, 1>>
        BY <1>1, <4>1 DEF Holds, Spot, Where
      <4> QED BY <1>1, <3>1, <4>2
    <3>2. CASE spot # <<b, p>>
      BY <1>1, <2>1, <3>2
    <3> QED BY <3>1, <3>2
  <2>3. \A jd \in DOMAIN stripes' : stripes'[jd].block = spot[1] => Holds(jd, v)'
    BY <1>1, <1>3, <1>5, <2>1
  <2> QED BY <1>1, <2>1, <2>2, <2>3 DEF Reads
<1>9. GetsHold' /\ GotRight'
  BY <1>1, <1>8 DEF Values, GetsHold, GotRight
<1> QED BY <1>1, <1>4, <1>6, <1>7, <1>9, SameThreads DEF Values

\* Every step keeps the values, as long as nothing mixes them up.
LEMMA NextValues ==
  ASSUME TypeInv, NumbersInv, ValuesInv, [Next]_vars PROVE ValuesInv'
<1> SUFFICES ASSUME Without(MixUps)' PROVE Values'
  BY DEF ValuesInv
<1>0. Numbers /\ Values
  <2>1. Without(MixUps)
    BY TroubleGrows, WithoutBefore
  <2> QED BY <2>1 DEF NumbersInv, ValuesInv, Without, Disorder, MixUps
<1>1. /\ "shared_proxy" \notin trouble' /\ "bad_abort" \notin trouble'
      /\ "stale_revert" \notin trouble' /\ "reset_early" \notin trouble'
      /\ "repaired_early" \notin trouble' /\ "read_broken" \notin trouble'
      /\ "transfers_meet" \notin trouble' /\ "old_kept" \notin trouble'
  BY DEF Without, MixUps
<1>2. CASE UNCHANGED vars \/ TablesBreak \/ EraseBreaks
  BY <1>0, <1>2, OtherValues
<1>3. ASSUME NEW n \in DOMAIN sets,
             Check(n) \/ Number(n) \/ MakeStripe(n) \/ Enter(n) \/ Dispatch(n)
      PROVE  Values'
  BY <1>0, <1>1, <1>3, HandlerValues, MakeStripeValues, DispatchValues
<1>4. ASSUME NEW t \in storing, NEW k \in conns, Store(t, k) \/ StoreFails(t, k)
      PROVE  Values'
  BY <1>0, <1>1, <1>4, StoreEffect, StoreValues
<1>5. ASSUME NEW c \in Clients, NEW k \in Keys, Set(c, k) \/ Get(c, k) PROVE Values'
  BY <1>0, <1>5, SetValues, GetValues
<1>6. ASSUME NEW c \in Clients, GiveUp(c) \/ Connect(c) \/ List(c) \/ ForgetObjects(c)
      PROVE  Values'
  BY <1>0, <1>6, ClientValues
<1>7. ASSUME NEW c \in Clients, Commit(c) \/ Abort(c) \/ Read(c) PROVE Values'
  BY <1>0, <1>1, <1>7, CommitValues, AbortValues, ReadValues
<1>8. ASSUME NEW c \in Clients, DeleteBlocks(c) \/ EraseStripes(c) PROVE Values'
  BY <1>0, <1>8, DeleteBlocksValues, EraseStripesValues
<1>9. ASSUME NEW c \in Clients, Reset(c) \/ Snapshot(c) \/ Revert(c) PROVE Values'
  BY <1>0, <1>1, <1>9, ResetValues, SnapshotValues, RevertValues
<1>10. ASSUME NEW id \in DOMAIN stripes, Repair(id) \/ Lose(id) PROVE Values'
  BY <1>0, <1>1, <1>10, RepairValues, LoseValues
<1>11. ASSUME NEW c \in Clients, ReadTorn(c) \/ \E o \in Clients : ReadsCross(c, o)
       PROVE  Values'
  BY <1>1, <1>11, BrokenReadEffect DEF ReadsBreak
<1> QED BY <1>2, <1>3, <1>4, <1>5, <1>6, <1>7, <1>8, <1>9, <1>10, <1>11 DEF Next

\* At first there are no values.
LEMMA InitValues == Init => ValuesInv
<1> SUFFICES ASSUME Init PROVE Values
  BY DEF ValuesInv
<1>1. /\ DOMAIN stripes = {} /\ DOMAIN committed = {} /\ DOMAIN sets = {} /\ storing = {}
      /\ fresh = FALSE
  BY DEF Init, Empty
<1>2. \A c \in Clients : client[c].state = "idle"
  BY DEF Init, Idle
<1>3. Blocks /\ Threads /\ ObjectsHold /\ SetsHold
  BY <1>1 DEF Blocks, Threads, ObjectsHold, SetsHold
<1>4. GetsHold /\ GotRight
  BY <1>2 DEF GetsHold, GotRight
<1> QED BY <1>3, <1>4 DEF Values

\* ValuesInv is an invariant.
LEMMA ValuesHold == Spec => []ValuesInv
<1>1. TypeInv /\ NumbersInv /\ ValuesInv /\ [Next]_vars => ValuesInv'
  BY NextValues
<1> QED BY <1>1, InitValues, TablesHold, PTL DEF Spec

----------------------------------------------------------------------------
(* Presence: what is committed can be read, as long as nothing is lost and     *)
(* nothing is deleted that somebody works on.                                  *)

Damage == MixUps \cup {"lost", "deleted_early"}

\* The blocks of a stripe are at every place where it may be looked for.
Lies(id) == \A x \in Where(id) : <<stripes[id].block, x>> \in DOMAIN disk

ObjectsWhole ==
  \A k \in DOMAIN committed, id \in DOMAIN stripes :
    committed[k][1] = id /\ k \notin Deleting => Lies(id)
SetsWhole ==
  \A n \in DOMAIN sets, id \in DOMAIN stripes :
    sets[n].stage = "stored" /\ sets[n].ids[1] = id => Lies(id)
GetsWhole ==
  \A c \in Clients : /\ client[c].state = "get" => client[c].parts[1] \in DOMAIN disk
                     /\ client[c].state = "got" => client[c].got # <<>>

Whole == ObjectsWhole /\ SetsWhole /\ GetsWhole
WholeInv == Without(Damage) => Whole

\* A stripe whose blocks stay, at places it had.
LEMMA LiesKept ==
  ASSUME NEW id, Lies(id), stripes'[id].block = stripes[id].block,
         Where(id)' \subseteq Where(id), DOMAIN disk \subseteq DOMAIN disk'
  PROVE  Lies(id)'
BY DEF Lies

\* Steps that lose no block.
LEMMA TablesWhole ==
  ASSUME Whole,
         \A id \in DOMAIN stripes' :
           \/ id \in DOMAIN stripes /\ (Lies(id) => Lies(id)')
           \/ /\ \A k \in DOMAIN committed' : committed'[k][1] # id
              /\ \A n \in DOMAIN sets' : sets'[n].stage = "stored" => sets'[n].ids[1] # id,
         \A k \in DOMAIN committed' :
           /\ k \in DOMAIN committed /\ committed'[k] = committed[k]
           /\ k \in Deleting => k \in Deleting',
         \A n \in DOMAIN sets' : sets'[n].stage = "stored" =>
           n \in DOMAIN sets /\ sets[n].stage = "stored" /\ sets'[n].ids = sets[n].ids
  PROVE  ObjectsWhole' /\ SetsWhole'
<1>1. ObjectsWhole'
  BY DEF Whole, ObjectsWhole
<1>2. SetsWhole'
  BY DEF Whole, SetsWhole
<1> QED BY <1>1, <1>2

\* Clients that neither begin to read nor have read.
LEMMA ClientsWhole ==
  ASSUME Whole, DOMAIN disk \subseteq DOMAIN disk',
         \A c \in Clients : client'[c].state \in {"get", "got"} => client'[c] = client[c]
  PROVE  GetsWhole'
BY DEF Whole, GetsWhole

\* A client that removes nothing leaves the objects that are being deleted.
LEMMA DeletingStays ==
  ASSUME NEW c \in Clients, NEW x, Becomes(c, x), ~Removing(c)
  PROVE  \A k : k \in Deleting => k \in Deleting'
<1>1. ASSUME NEW d \in Clients, Removing(d) PROVE Removing(d)' /\ client'[d].keys = client[d].keys
  <2>1. d # c
    BY <1>1
  <2> QED BY <1>1, <2>1 DEF Becomes, Removing
<1>2. ASSUME NEW k, k \in Deleting PROVE k \in Deleting'
  <2>1. PICK d \in Clients : k \in Keys /\ Removing(d) /\ k \in client[d].keys
    BY <1>2, DeletingFact
  <2> QED BY <1>1, <2>1 DEF Deleting, InDeletion, Removing
<1> QED BY <1>2

\* If the clients stay, so do the objects that are being deleted.
LEMMA DeletingSame ==
  ASSUME client' = client PROVE \A k : k \in Deleting => k \in Deleting'
BY DEF Deleting, InDeletion

\* Check, Number, Enter and Dispatch store nothing.
LEMMA HandlerWhole ==
  ASSUME TypeInv, Whole, NEW n \in DOMAIN sets, Check(n) \/ Number(n) \/ Enter(n) \/ Dispatch(n)
  PROVE  Whole'
<1>1. UNCHANGED <<stripes, initial, fresh, disk, committed, client>>
  BY CheckEffect, NumberEffect, EnterEffect, DispatchEffect
<1>2. \A id : Lies(id) => Lies(id)'
  BY <1>1 DEF Lies, Where
<1>3. sets' = sets \/ \E s \in {"checked", "numbering", "entered", "answered"} : Moved(n, s)
  BY CheckEffect, NumberEffect, EnterEffect, DispatchEffect
<1>4. \A m \in DOMAIN sets' : sets'[m].stage = "stored" =>
        m \in DOMAIN sets /\ sets[m].stage = "stored" /\ sets'[m].ids = sets[m].ids
  BY <1>3 DEF Moved
<1>5. ObjectsWhole' /\ SetsWhole'
  BY <1>1, <1>2, <1>4, DeletingSame, TablesWhole
<1>6. GetsWhole'
  BY <1>1, ClientsWhole
<1> QED BY <1>5, <1>6 DEF Whole

\* A set that is stored has made a stripe.
LEMMA StoredIds ==
  ASSUME TypeInv, NEW n \in DOMAIN sets, sets[n].stage \in {"answered", "stored"}
  PROVE  sets[n].ids # <<>> /\ 1 \in DOMAIN sets[n].ids
<1>1. sets[n].ids \in Seq(Int) /\ Len(sets[n].ids) = size /\ size \in Nat \ {0}
  BY DEF TypeInv, NumbersOK, SetsOK, SetOK, SetRecord, Listing
<1> QED BY <1>1

\* A new stripe is of no set that is stored.
LEMMA MakeStripeWhole ==
  ASSUME TypeInv, Numbers, Values, Whole, NEW n \in DOMAIN sets, MakeStripe(n) PROVE Whole'
<1> PICK id : id = sets[n].id
  OBVIOUS
<1>0. PICK p \in Proxies : Makes(n, id, p)
  BY MakeStripeEffect
<1>1. /\ id \notin DOMAIN stripes
      /\ \A jd \in DOMAIN stripes : Where(jd)' = Where(jd)
      /\ \A k \in DOMAIN committed : committed[k][1] # id
      /\ \A m \in DOMAIN sets : \A i \in DOMAIN sets[m].ids : sets[m].ids[i] # id
  BY <1>0, MakeStripeWhere DEF Values
<1>2. /\ DOMAIN stripes' = DOMAIN stripes \cup {id}
      /\ \A jd \in DOMAIN stripes : jd # id => stripes'[jd] = stripes[jd]
      /\ DOMAIN sets' = DOMAIN sets /\ \A m \in DOMAIN sets \ {n} : sets'[m] = sets[m]
      /\ sets'[n].stage = "checked"
      /\ UNCHANGED <<committed, client, disk>>
  BY <1>0 DEF Makes
<1>3. \A jd \in DOMAIN stripes : Lies(jd) => Lies(jd)'
  BY <1>1, <1>2 DEF Lies
<1>4. \A m \in DOMAIN sets' : sets'[m].stage = "stored" =>
        m \in DOMAIN sets /\ sets[m].stage = "stored" /\ sets'[m].ids = sets[m].ids
  BY <1>2
<1>5. ASSUME NEW m \in DOMAIN sets', sets'[m].stage = "stored" PROVE sets'[m].ids[1] # id
  <2>1. m \in DOMAIN sets /\ sets[m].stage = "stored" /\ sets'[m].ids = sets[m].ids
    BY <1>4, <1>5
  <2>2. 1 \in DOMAIN sets[m].ids
    BY <2>1, StoredIds
  <2> QED BY <1>1, <2>1, <2>2
<1>6. \A jd \in DOMAIN stripes' : jd \in DOMAIN stripes \/ jd = id
  BY <1>2
<1>7. ObjectsWhole' /\ SetsWhole'
  BY <1>1, <1>2, <1>3, <1>4, <1>5, <1>6, DeletingSame, TablesWhole
<1>8. GetsWhole'
  BY <1>2, ClientsWhole
<1> QED BY <1>7, <1>8 DEF Whole

\* A set begins.
LEMMA SetWhole ==
  ASSUME TypeInv, Whole, NEW c \in Clients, NEW k \in Keys, Set(c, k) PROVE Whole'
<1> PICK n : n = left.set
  OBVIOUS
<1>1. /\ n \notin DOMAIN sets /\ client[c].state \in {"idle", "got"}
      /\ Becomes(c, [state |-> "set", set |-> n])
      /\ DOMAIN sets' = DOMAIN sets \cup {n} /\ \A m \in DOMAIN sets : sets'[m] = sets[m]
      /\ UNCHANGED <<stripes, initial, fresh, disk, committed>>
  BY SetEffect
<1>2. sets'[n].stage = "called"
  <2>1. sets'[n] = [key |-> k, stage |-> "called", ids |-> <<>>, id |-> 0,
                    listed |-> <<>>, parts |-> <<>>, proxy |-> {}]
    BY SetEffect
  <2> QED BY <2>1
<1>3. \A id : Lies(id) => Lies(id)'
  BY <1>1 DEF Lies, Where
<1>4. \A j : j \in Deleting => j \in Deleting'
  BY <1>1, DeletingStays DEF Removing
<1>5. \A m \in DOMAIN sets' : sets'[m].stage = "stored" =>
        m \in DOMAIN sets /\ sets[m].stage = "stored" /\ sets'[m].ids = sets[m].ids
  BY <1>1, <1>2
<1>6. \A d \in Clients : client'[d].state \in {"get", "got"} => client'[d] = client[d]
  BY <1>1 DEF Becomes
<1>7. ObjectsWhole' /\ SetsWhole'
  BY <1>1, <1>3, <1>4, <1>5, TablesWhole
<1>8. GetsWhole'
  BY <1>1, <1>6, ClientsWhole
<1> QED BY <1>7, <1>8 DEF Whole

\* Steps of one client that neither write nor read nor forget an object.
LEMMA ClientWhole ==
  ASSUME TypeInv, Whole, NEW c \in Clients, GiveUp(c) \/ Connect(c) \/ List(c) PROVE Whole'
<1>1. UNCHANGED <<sets, stripes, initial, fresh, disk, committed>>
  BY DEF GiveUp, Connect, List, tables, history
<1>2. \E x : Becomes(c, x) /\ x.state \notin {"get", "got"} /\ ~Removing(c)
  <2>1. ASSUME GiveUp(c) PROVE Becomes(c, Idle) /\ Idle.state = "idle" /\ ~Removing(c)
    BY <2>1, GiveUpEffect DEF Idle, Removing
  <2>2. ASSUME Connect(c)
        PROVE  \E x : Becomes(c, x) /\ x.state \notin {"get", "got"} /\ ~Removing(c)
    <3> PICK n : n = client[c].set
      OBVIOUS
    <3>1. PICK p \in Proxies : Connects(c, n, p)
      BY <2>2, ConnectEffect
    <3>2. client[c].state = "set" /\ Becomes(c, [state |-> "sent", set |-> n])
      BY <3>1 DEF Connects
    <3>3. [state |-> "sent", set |-> n].state = "sent"
      OBVIOUS
    <3> QED BY <3>2, <3>3 DEF Removing
  <2>3. ASSUME List(c)
        PROVE  \E x : Becomes(c, x) /\ x.state \notin {"get", "got"} /\ ~Removing(c)
    <3>1. PICK ids \in SUBSET DOMAIN stripes : Lists(c, ids)
      BY <2>3, ListEffect
    <3>2. Becomes(c, [state |-> "listed", ids |-> ids])
      BY <3>1 DEF Lists
    <3>3. [state |-> "listed", ids |-> ids].state = "listed"
      OBVIOUS
    <3>4. ~Removing(c)
      BY <2>3 DEF List, Free, Removing
    <3> QED BY <3>2, <3>3, <3>4
  <2> QED BY <2>1, <2>2, <2>3
<1>3. \A d \in Clients : client'[d].state \in {"get", "got"} => client'[d] = client[d]
  BY <1>2 DEF Becomes
<1>4. \A id : Lies(id) => Lies(id)'
  BY <1>1 DEF Lies, Where
<1>5. \A j : j \in Deleting => j \in Deleting'
  BY <1>2, DeletingStays
<1>6. ObjectsWhole' /\ SetsWhole'
  BY <1>1, <1>4, <1>5, TablesWhole
<1>7. GetsWhole'
  BY <1>1, <1>3, ClientsWhole
<1> QED BY <1>6, <1>7 DEF Whole

\* What is erased or forgotten is no longer looked for.
LEMMA EraseStripesWhole ==
  ASSUME TypeInv, Whole, NEW c \in Clients, EraseStripes(c) PROVE Whole'
<1> PICK ids : ids = client[c].ids
  OBVIOUS
<1> PICK keys : keys = client[c].keys
  OBVIOUS
<1> DEFINE x == [state |-> "erased", ids |-> ids, keys |-> keys]
<1>1. /\ client[c].state = "deleting" /\ Becomes(c, x)
      /\ \A id \in DOMAIN stripes' : id \in DOMAIN stripes /\ stripes'[id] = stripes[id]
      /\ UNCHANGED <<sets, initial, fresh, disk, committed>>
  BY EraseStripesEffect
<1>2. x.state = "erased" /\ x.keys = keys
  OBVIOUS
<1> HIDE DEF x
<1>3. client'[c].state = "erased" /\ client'[c].keys = client[c].keys
  BY <1>1, <1>2 DEF Becomes
<1>4. \A d \in Clients \ {c} : client'[d] = client[d]
  BY <1>1 DEF Becomes
<1>5. ASSUME NEW k, k \in Deleting PROVE k \in Deleting'
  <2>1. PICK d \in Clients : k \in Keys /\ Removing(d) /\ k \in client[d].keys
    BY <1>5, DeletingFact
  <2> QED BY <1>3, <1>4, <2>1 DEF Deleting, InDeletion, Removing
<1>6. ASSUME NEW id \in DOMAIN stripes', Lies(id) PROVE Lies(id)'
  BY <1>1, <1>6 DEF Lies, Where
<1>7. \A d \in Clients : client'[d].state \in {"get", "got"} => client'[d] = client[d]
  BY <1>3, <1>4
<1>8. ObjectsWhole' /\ SetsWhole'
  BY <1>1, <1>5, <1>6, TablesWhole
<1>9. GetsWhole'
  BY <1>1, <1>7, ClientsWhole
<1> QED BY <1>8, <1>9 DEF Whole

\* Objects that are forgotten are not looked for.
LEMMA ForgetObjectsWhole ==
  ASSUME TypeInv, Whole, NEW c \in Clients, ForgetObjects(c) PROVE Whole'
<1> PICK keys : keys = client[c].keys
  OBVIOUS
<1>1. /\ DOMAIN committed' = DOMAIN committed \ keys /\ Becomes(c, Idle)
      /\ \A k \in DOMAIN committed' : committed'[k] = committed[k]
      /\ UNCHANGED <<sets, stripes, initial, fresh, disk>>
  BY ForgetObjectsEffect
<1>2. client'[c].state = "idle" /\ \A d \in Clients \ {c} : client'[d] = client[d]
  <2>1. Idle.state = "idle"
    BY DEF Idle
  <2> QED BY <1>1, <2>1 DEF Becomes
<1>3. ASSUME NEW k \in DOMAIN committed', k \in Deleting PROVE k \in Deleting'
  <2>1. PICK d \in Clients : k \in Keys /\ Removing(d) /\ k \in client[d].keys
    BY <1>3, DeletingFact
  <2>2. d # c
    BY <1>1, <2>1
  <2> QED BY <1>2, <2>1, <2>2 DEF Deleting, InDeletion, Removing
<1>4. \A id : Lies(id) => Lies(id)'
  BY <1>1 DEF Lies, Where
<1>5. \A d \in Clients : client'[d].state \in {"get", "got"} => client'[d] = client[d]
  BY <1>2
<1>6. ObjectsWhole' /\ SetsWhole'
  BY <1>1, <1>3, <1>4, TablesWhole
<1>7. GetsWhole'
  BY <1>1, <1>5, ClientsWhole
<1> QED BY <1>6, <1>7 DEF Whole

\* The snapshot and the revert only move between places that are noted.
LEMMA PlacesWhole ==
  ASSUME TypeInv, Whole, NEW c \in Clients, Snapshot(c) \/ Revert(c),
         "stale_revert" \notin trouble'
  PROVE  Whole'
<1>1. /\ UNCHANGED <<sets, committed, disk, client>> /\ DOMAIN stripes' = DOMAIN stripes
      /\ \A id \in DOMAIN stripes : stripes'[id].block = stripes[id].block
  BY SnapshotEffect, RevertEffect
<1>2. \A id \in DOMAIN stripes : Where(id)' \subseteq Where(id)
  BY SnapshotWhere, RevertWhere
<1>3. \A id \in DOMAIN stripes : Lies(id) => Lies(id)'
  BY <1>1, <1>2, LiesKept
<1>4. ObjectsWhole' /\ SetsWhole'
  BY <1>1, <1>3, DeletingSame, TablesWhole
<1>5. GetsWhole'
  BY <1>1, ClientsWhole
<1> QED BY <1>4, <1>5 DEF Whole

\* An abort takes no block away.
LEMMA AbortWhole ==
  ASSUME TypeInv, Numbers, Whole, NEW c \in Clients, Abort(c), "bad_abort" \notin trouble'
  PROVE  Whole'
<1> PICK n : n = client[c].set
  OBVIOUS
<1> PICK k : k = sets[n].key
  OBVIOUS
<1>0. nextStripe \in Int
  BY DEF TypeInv, NumbersOK
<1> PICK id \in Int : nextStripe = id + 1
  BY <1>0, OneMore
<1>1. Aborts(c, n, k) /\ DOMAIN stripes' = DOMAIN stripes \ {id}
  BY Aborted
<1>2. /\ DOMAIN sets' = DOMAIN sets \ {n} /\ \A m \in DOMAIN sets' : sets'[m] = sets[m]
      /\ \A jd \in DOMAIN stripes' : stripes'[jd] = stripes[jd]
      /\ Becomes(c, Idle)
  BY <1>1 DEF Aborts, Forgets
<1>3. client[c].state = "sent" /\ fresh' = FALSE /\ UNCHANGED <<committed, disk>>
  BY AbortEffect
<1>4. \A d \in Clients : client'[d].state \in {"get", "got"} => client'[d] = client[d]
  <2>1. Idle.state = "idle"
    BY DEF Idle
  <2> QED BY <1>2, <2>1 DEF Becomes
<1>5. \A jd \in DOMAIN stripes' : Where(jd)' \subseteq Where(jd)
  BY <1>2, <1>3, WhereKept
<1>6. \A jd \in DOMAIN stripes' : jd \in DOMAIN stripes /\ (Lies(jd) => Lies(jd)')
  BY <1>1, <1>2, <1>3, <1>5, LiesKept
<1>7. \A j : j \in Deleting => j \in Deleting'
  BY <1>2, <1>3, DeletingStays DEF Removing
<1>8. ObjectsWhole' /\ SetsWhole'
  BY <1>2, <1>3, <1>6, <1>7, TablesWhole
<1>9. GetsWhole'
  BY <1>3, <1>4, ClientsWhole
<1> QED BY <1>8, <1>9 DEF Whole

\* Stutters and the end of the coordinator keep the blocks.
LEMMA OtherWhole ==
  ASSUME TypeInv, Whole, UNCHANGED vars \/ TablesBreak \/ EraseBreaks PROVE Whole'
<1>1. UNCHANGED <<sets, stripes, initial, fresh, committed, disk, client>>
  BY BreakEffect DEF vars, tables, work, history
<1>2. \A id : Lies(id) => Lies(id)'
  BY <1>1 DEF Lies, Where
<1>3. ObjectsWhole' /\ SetsWhole'
  BY <1>1, <1>2, DeletingSame, TablesWhole
<1>4. GetsWhole'
  BY <1>1, ClientsWhole
<1> QED BY <1>3, <1>4 DEF Whole

\* After a reset nothing is looked for.
LEMMA ResetWhole ==
  ASSUME TypeInv, NEW c \in Clients, Reset(c), Whole, "reset_early" \notin trouble' PROVE Whole'
<1>1. /\ DOMAIN sets' = {} /\ DOMAIN stripes' = {} /\ DOMAIN committed' = {}
      /\ UNCHANGED <<client, disk>>
  BY ResetEffect
<1>2. ObjectsWhole' /\ SetsWhole'
  BY <1>1 DEF ObjectsWhole, SetsWhole
<1>3. GetsWhole'
  BY <1>1, ClientsWhole
<1> QED BY <1>2, <1>3 DEF Whole

\* A set that stores puts its first part where its first stripe is.
LEMMA StoreWhole ==
  ASSUME TypeInv, Values, Whole, NEW t \in storing, NEW k \in conns, Finishes(t, k),
         "lost" \notin trouble'
  PROVE  Whole'
<1> PICK n : n = k.set
  OBVIOUS
<1>1. n \in DOMAIN sets /\ sets[n].stage = "answered" /\ t.parts = sets[n].parts
  BY StoredParts DEF Values
<1>2. /\ DOMAIN disk' = DOMAIN disk \cup ToSet(t.parts) /\ Moved(k.set, "stored")
      /\ UNCHANGED <<stripes, initial, fresh, committed, client>>
  BY DEF Finishes
<1>3. /\ DOMAIN sets' = DOMAIN sets /\ \A m \in DOMAIN sets \ {n} : sets'[m] = sets[m]
      /\ sets'[n].ids = sets[n].ids
  BY <1>2 DEF Moved
<1>4. \A id : Lies(id) => Lies(id)'
  BY <1>2 DEF Lies, Where
<1>5. ObjectsWhole'
  <2>1. \A j : j \in Deleting => j \in Deleting'
    BY <1>2, DeletingSame
  <2> QED BY <1>2, <1>4, <2>1 DEF Whole, ObjectsWhole
<1>6. ASSUME NEW id \in DOMAIN stripes, sets[n].ids[1] = id PROVE Lies(id)'
  <2> PICK spot : spot = sets[n].parts[1]
    OBVIOUS
  <2>1. sets[n].ids # <<>> /\ 1 \in DOMAIN sets[n].parts /\ spot \in Nat \X Proxies
    BY <1>1, StoredIds, PartsFact
  <2>2. spot[1] = stripes[id].block
    BY <1>1, <1>6, <2>1 DEF Values, Blocks
  <2>3. Where(id) \subseteq {spot[2]}
    BY <1>1, <1>6, <2>1 DEF Values, SetsHold
  <2>4. spot \in ToSet(t.parts)
    BY <1>1, <2>1 DEF ToSet
  <2>5. spot = <<spot[1], spot[2]>>
    BY <2>1
  <2>6. Where(id)' = Where(id)
    BY <1>2 DEF Where
  <2> QED BY <1>2, <2>2, <2>3, <2>4, <2>5, <2>6 DEF Lies
<1>7. SetsWhole'
  <2>1. ASSUME NEW m \in DOMAIN sets, NEW id \in DOMAIN stripes, m # n,
               sets'[m].stage = "stored", sets'[m].ids[1] = id
        PROVE  Lies(id)'
    BY <1>3, <1>4, <2>1 DEF Whole, SetsWhole
  <2> QED BY <1>2, <1>3, <1>6, <2>1 DEF SetsWhole
<1>8. GetsWhole'
  BY <1>2, ClientsWhole
<1> QED BY <1>5, <1>7, <1>8 DEF Whole

\* The object that is committed is where its set has stored it.
LEMMA CommitWhole ==
  ASSUME TypeInv, Numbers, Whole, NEW c \in Clients, Commit(c) PROVE Whole'
<1> PICK n : n = client[c].set
  OBVIOUS
<1> PICK k : k = sets[n].key
  OBVIOUS
<1>1. /\ k \notin DOMAIN committed /\ n \in DOMAIN sets /\ sets[n].stage = "stored"
      /\ updating[k] = <<sets[n].ids[1]>> /\ k \in DOMAIN updating
  BY Committed
<1>2. /\ Commits(c, n, k) /\ client[c].state = "sent"
      /\ UNCHANGED <<stripes, initial, fresh, disk>>
  BY <1>1, CommitEffect
<1>3. /\ DOMAIN committed' = DOMAIN committed \cup {k} /\ committed'[k] = updating[k]
      /\ \A j \in DOMAIN committed : committed'[j] = committed[j]
      /\ DOMAIN sets' = DOMAIN sets \ {n} /\ \A m \in DOMAIN sets' : sets'[m] = sets[m]
      /\ Becomes(c, Idle)
  BY <1>2 DEF Commits, Forgets
<1>4. committed'[k][1] = sets[n].ids[1]
  BY <1>1, <1>3
<1>5. \A j : j \in Deleting => j \in Deleting'
  BY <1>2, <1>3, DeletingStays DEF Removing
<1>6. \A id : Lies(id) => Lies(id)'
  BY <1>2 DEF Lies, Where
<1>7. ObjectsWhole'
  <2>1. ASSUME NEW j \in DOMAIN committed', NEW id \in DOMAIN stripes, committed'[j][1] = id,
               j \notin Deleting'
        PROVE  Lies(id)'
    <3>1. CASE j = k
      BY <1>1, <1>4, <1>6, <2>1, <3>1 DEF Whole, SetsWhole
    <3>2. CASE j # k
      BY <1>3, <1>5, <1>6, <2>1, <3>2 DEF Whole, ObjectsWhole
    <3> QED BY <3>1, <3>2
  <2> QED BY <1>2, <2>1 DEF ObjectsWhole
<1>8. SetsWhole'
  BY <1>2, <1>3, <1>6 DEF Whole, SetsWhole
<1>9. \A d \in Clients : client'[d].state \in {"get", "got"} => client'[d] = client[d]
  <2>1. Idle.state = "idle"
    BY DEF Idle
  <2> QED BY <1>3, <2>1 DEF Becomes
<1>10. GetsWhole'
  BY <1>2, <1>9, ClientsWhole
<1> QED BY <1>7, <1>8, <1>10 DEF Whole

\* A get finds its object, and the read after it.
LEMMA GetWhole ==
  ASSUME TypeInv, Index, Whole, NEW c \in Clients, NEW k \in Keys, Get(c, k),
         "deleted_early" \notin trouble'
  PROVE  Whole'
<1>1. /\ UNCHANGED <<stripes, committed, initial, sets, disk, fresh>>
      /\ client[c].state \in {"idle", "got"}
  BY GetEffect
<1>2. \A id : Lies(id) => Lies(id)'
  BY <1>1 DEF Lies, Where
<1>3. CASE client' = client
  <2>1. ObjectsWhole' /\ SetsWhole'
    BY <1>1, <1>2, <1>3, DeletingSame, TablesWhole
  <2>2. GetsWhole'
    BY <1>1, <1>3, ClientsWhole
  <2> QED BY <2>1, <2>2 DEF Whole
<1>4. CASE client' # client
  <2> PICK id : id = committed[k][1]
    OBVIOUS
  <2> PICK spot : spot = Spot(id)
    OBVIOUS
  <2> DEFINE x == [state |-> "get", want |-> current[k], parts |-> <<spot>>]
  <2>1. k \in DOMAIN committed /\ ToSet(committed[k]) \subseteq DOMAIN stripes /\ Becomes(c, x)
    BY <1>4, GetEffect
  <2>2. id \in DOMAIN stripes
    <3>1. PICK jd \in Int : committed[k] = <<jd>>
      BY <2>1 DEF TypeInv, TablesOK, One
    <3>2. id = jd
      <4>1. <<jd>>[1] = jd
        OBVIOUS
      <4> QED BY <3>1, <4>1
    <3> QED BY <2>1, <3>1, <3>2, OneStripe
  <2>3. x.state = "get" /\ x.parts[1] = spot
    OBVIOUS
  <2> HIDE DEF x
  <2>4. client'[c] = x
    BY <2>1 DEF Becomes
  <2>5. k \notin Deleting
    <3>1. ~\E o \in Clients : InDeletion(o, {k})
      BY <2>1, GetEffect
    <3> QED BY <3>1 DEF Deleting
  <2>6. Lies(id)
    BY <2>1, <2>2, <2>5 DEF Whole, ObjectsWhole
  <2>7. spot \in DOMAIN disk
    BY <2>6 DEF Lies, Spot, Where
  <2>8. \A j : j \in Deleting => j \in Deleting'
    BY <1>1, <2>1, DeletingStays DEF Removing
  <2>9. ObjectsWhole' /\ SetsWhole'
    BY <1>1, <1>2, <2>8, TablesWhole
  <2>10. GetsWhole'
    BY <1>1, <2>1, <2>3, <2>4, <2>7 DEF Whole, GetsWhole, Becomes
  <2> QED BY <2>9, <2>10 DEF Whole
<1> QED BY <1>3, <1>4

\* A read finds what its get has seen.
LEMMA ReadWhole ==
  ASSUME TypeInv, Whole, NEW c \in Clients, Read(c) PROVE Whole'
<1> PICK spot : spot = client[c].parts[1]
  OBVIOUS
<1> PICK got : got = Stored(spot)
  OBVIOUS
<1> DEFINE x == [state |-> "got", want |-> client[c].want, got |-> got]
<1>1. /\ client[c].state = "get" /\ Becomes(c, x)
      /\ UNCHANGED <<stripes, committed, initial, sets, disk, fresh>>
  BY ReadEffect
<1>2. x.state = "got" /\ x.got = got
  OBVIOUS
<1> HIDE DEF x
<1>3. client'[c] = x
  BY <1>1 DEF Becomes
<1>4. got # <<>>
  <2>1. spot \in DOMAIN disk
    BY <1>1 DEF Whole, GetsWhole
  <2>2. got = <<disk[spot]>>
    BY <2>1 DEF Stored
  <2> QED BY <2>2
<1>5. \A id : Lies(id) => Lies(id)'
  BY <1>1 DEF Lies, Where
<1>6. \A j : j \in Deleting => j \in Deleting'
  BY <1>1, DeletingStays DEF Removing
<1>7. ObjectsWhole' /\ SetsWhole'
  BY <1>1, <1>5, <1>6, TablesWhole
<1>8. GetsWhole'
  BY <1>1, <1>2, <1>3, <1>4 DEF Whole, GetsWhole, Becomes
<1> QED BY <1>7, <1>8 DEF Whole

\* A repair adds a place and takes none away.
LEMMA RepairWhole ==
  ASSUME TypeInv, Whole, NEW id \in DOMAIN stripes, Repair(id), "lost" \notin trouble'
  PROVE  Whole'
<1>0. PICK p \in Proxies : Relocates(id, p)
  BY RepairEffect
<1> PICK b : b = stripes[id].block
  OBVIOUS
<1>1. /\ DOMAIN stripes' = DOMAIN stripes
      /\ \A jd \in DOMAIN stripes \ {id} : stripes'[jd] = stripes[jd]
      /\ stripes'[id] = [block |-> b, at |-> p, objects |-> stripes[id].objects]
      /\ DOMAIN disk \subseteq DOMAIN disk' /\ <<b, p>> \in DOMAIN disk'
      /\ UNCHANGED <<committed, initial, sets, client, fresh>>
  BY <1>0 DEF Relocates
<1>2. stripes'[id].at = p /\ stripes'[id].block = b
  <2> DEFINE x == [block |-> b, at |-> p, objects |-> stripes[id].objects]
  <2>1. x.block = b /\ x.at = p
    OBVIOUS
  <2>2. stripes'[id] = x
    BY <1>1
  <2> HIDE DEF x
  <2> QED BY <2>1, <2>2
<1>3. Where(id)' \subseteq Where(id) \cup {p}
  BY <1>1, <1>2 DEF Where
<1>4. Lies(id) => Lies(id)'
  BY <1>1, <1>2, <1>3 DEF Lies
<1>5. \A jd \in DOMAIN stripes \ {id} : Lies(jd) => Lies(jd)'
  BY <1>1 DEF Lies, Where
<1>6. ObjectsWhole' /\ SetsWhole'
  BY <1>1, <1>4, <1>5, DeletingSame, TablesWhole
<1>7. GetsWhole'
  BY <1>1, ClientsWhole
<1> QED BY <1>6, <1>7 DEF Whole

\* The blocks that are deleted are of stripes of the objects that are deleted.
LEMMA DeleteBlocksWhole ==
  ASSUME TypeInv, Blocks, Whole, NEW c \in Clients, DeleteBlocks(c), Index',
         "deleted_early" \notin trouble'
  PROVE  Whole'
<1> PICK ids : ids = client[c].ids
  OBVIOUS
<1> PICK keys : keys = UNION {stripes[id].objects : id \in ids}
  OBVIOUS
<1> DEFINE x == [state |-> "deleting", ids |-> ids, keys |-> keys]
<1>1. /\ client[c].state = "listed"
      /\ UNCHANGED <<stripes, committed, initial, sets, fresh>>
  BY DeleteBlocksEffect
<1>2. CASE disk' = disk /\ client' = client
  <2>1. \A id : Lies(id) => Lies(id)'
    BY <1>1, <1>2 DEF Lies, Where
  <2>2. ObjectsWhole' /\ SetsWhole'
    BY <1>1, <1>2, <2>1, DeletingSame, TablesWhole
  <2>3. GetsWhole'
    BY <1>2, ClientsWhole
  <2> QED BY <2>2, <2>3 DEF Whole
<1>3. CASE ~(disk' = disk /\ client' = client)
  <2>1. /\ ids \subseteq DOMAIN stripes
        /\ DOMAIN disk \ {Spot(id) : id \in ids} \subseteq DOMAIN disk'
        /\ Becomes(c, x) /\ MadeBySets(ids) = {} /\ InUse(ids) = {c}
    <3>1. ids \subseteq DOMAIN stripes
      <4>1. ~(ids \subseteq DOMAIN stripes) => disk' = disk /\ client' = client
        BY DEF DeleteBlocks
      <4> QED BY <1>3, <4>1
    <3>2. Becomes(c, [state |-> "deleting", ids |-> ids,
                      keys |-> UNION {stripes[id].objects : id \in ids}])
      BY <3>1, DeleteBlocksEffect
    <3>3. Becomes(c, x)
      BY <3>2
    <3>4. DOMAIN disk \ {Spot(id) : id \in ids} \subseteq DOMAIN disk'
      BY <3>1, DeleteBlocksEffect
    <3>5. MadeBySets(ids) = {} /\ InUse(ids) = {c}
      BY <3>1, DeleteBlocksEffect
    <3> QED BY <3>1, <3>3, <3>4, <3>5
  <2>2. x.state = "deleting" /\ x.ids = ids /\ x.keys = keys
    OBVIOUS
  <2> HIDE DEF x
  <2>3. client'[c] = x
    BY <2>1 DEF Becomes
  \* Stripes that are not deleted keep their blocks.
  <2>4. ASSUME NEW jd \in DOMAIN stripes, jd \notin ids, Lies(jd) PROVE Lies(jd)'
    <3>1. \A y : <<stripes[jd].block, y>> \notin {Spot(id) : id \in ids}
      <4>1. ASSUME NEW y, NEW id \in ids, <<stripes[jd].block, y>> = Spot(id) PROVE FALSE
        <5>1. <<stripes[jd].block, y>> = <<stripes[id].block, stripes[id].at>>
          BY <4>1 DEF Spot
        <5>2. stripes[jd].block = stripes[id].block
          BY <5>1
        <5> QED BY <2>1, <2>4, <5>2 DEF Blocks
      <4> QED BY <4>1
    <3>2. Where(jd)' = Where(jd)
      BY <1>1 DEF Where
    <3> QED BY <1>1, <2>1, <2>4, <3>1, <3>2 DEF Lies
  <2>5. ObjectsWhole'
    <3>1. ASSUME NEW k \in DOMAIN committed, NEW jd \in DOMAIN stripes, committed[k][1] = jd,
                 k \notin Deleting'
          PROVE  Lies(jd)'
      <4>1. k \notin Deleting
        BY <1>1, <2>1, <3>1, DeletingStays DEF Removing
      <4>2. Removing(c)' /\ client'[c].ids = ids /\ client'[c].keys = keys
        BY <2>2, <2>3 DEF Removing
      <4>3. k \in Keys
        BY DEF TypeInv, TablesOK
      <4>4. k \notin keys
        BY <3>1, <4>2, <4>3 DEF Deleting, InDeletion, Removing
      <4>5. jd \notin ids
        BY <1>1, <3>1, <4>2, <4>4 DEF Index, RemovedTogether
      <4>6. Lies(jd)
        BY <3>1, <4>1 DEF Whole, ObjectsWhole
      <4> QED BY <2>4, <4>5, <4>6
    <3> QED BY <1>1, <3>1 DEF ObjectsWhole
  <2>6. SetsWhole'
    <3>1. ASSUME NEW n \in DOMAIN sets, NEW jd \in DOMAIN stripes, sets[n].stage = "stored",
                 sets[n].ids[1] = jd
          PROVE  Lies(jd)'
      <4>1. 1 \in DOMAIN sets[n].ids
        BY <3>1, StoredIds
      <4>2. jd \notin ids
        BY <2>1, <3>1, <4>1 DEF MadeBySets, ToSet
      <4>3. Lies(jd)
        BY <3>1 DEF Whole, SetsWhole
      <4> QED BY <2>4, <4>2, <4>3
    <3> QED BY <1>1, <3>1 DEF SetsWhole
  <2>7. GetsWhole'
    <3>1. ASSUME NEW d \in Clients, client[d].state = "get", d # c
          PROVE  client[d].parts[1] \in DOMAIN disk'
      <4> PICK spot : spot = client[d].parts[1]
        OBVIOUS
      <4>1. client[d].parts = <<spot>>
        BY <3>1, ClientShapes DEF TypeInv
      <4>2. spot \in ToSet(client[d].parts)
        BY <4>1, OneStripe
      <4>3. ASSUME NEW id \in ids, Spot(id) = spot PROVE FALSE
        <5>1. d \in InUse(ids)
          BY <3>1, <4>2, <4>3 DEF InUse
        <5> QED BY <2>1, <3>1, <5>1
      <4>4. spot \in DOMAIN disk
        BY <3>1 DEF Whole, GetsWhole
      <4> QED BY <2>1, <4>3, <4>4
    <3> QED BY <2>1, <2>2, <2>3, <3>1 DEF Whole, GetsWhole, Becomes
  <2> QED BY <2>5, <2>6, <2>7 DEF Whole
<1> QED BY <1>2, <1>3

\* Every step keeps what is committed in its place, as long as nothing is lost and nothing
\* that is worked on is deleted.
LEMMA NextWhole ==
  ASSUME TypeInv, NumbersInv, IndexInv, IndexInv', ValuesInv, WholeInv, [Next]_vars
  PROVE  WholeInv'
<1> SUFFICES ASSUME Without(Damage)' PROVE Whole'
  BY DEF WholeInv
<1>0. Numbers /\ Index /\ Values /\ Whole /\ Index' /\ Blocks
  <2>1. Without(Damage)
    BY TroubleGrows, WithoutBefore
  <2>2. Without(Disorder) /\ Without(Early) /\ Without(MixUps) /\ Without(Early)'
    BY <2>1 DEF Without, Disorder, Early, MixUps, Damage
  <2> QED BY <2>1, <2>2 DEF NumbersInv, IndexInv, ValuesInv, WholeInv, Values
<1>1. /\ "bad_abort" \notin trouble' /\ "stale_revert" \notin trouble'
      /\ "reset_early" \notin trouble' /\ "lost" \notin trouble'
      /\ "deleted_early" \notin trouble' /\ "read_broken" \notin trouble'
      /\ "transfers_meet" \notin trouble'
  BY DEF Without, Damage, MixUps
<1>2. CASE UNCHANGED vars \/ TablesBreak \/ EraseBreaks
  BY <1>0, <1>2, OtherWhole
<1>3. ASSUME NEW n \in DOMAIN sets,
             Check(n) \/ Number(n) \/ MakeStripe(n) \/ Enter(n) \/ Dispatch(n)
      PROVE  Whole'
  BY <1>0, <1>3, HandlerWhole, MakeStripeWhole
<1>4. ASSUME NEW t \in storing, NEW k \in conns, Store(t, k) \/ StoreFails(t, k)
      PROVE  Whole'
  BY <1>0, <1>1, <1>4, StoreEffect, StoreWhole
<1>5. ASSUME NEW c \in Clients, NEW k \in Keys, Set(c, k) \/ Get(c, k) PROVE Whole'
  BY <1>0, <1>1, <1>5, SetWhole, GetWhole
<1>6. ASSUME NEW c \in Clients, GiveUp(c) \/ Connect(c) \/ List(c) PROVE Whole'
  BY <1>0, <1>6, ClientWhole
<1>7. ASSUME NEW c \in Clients, Commit(c) \/ Abort(c) \/ Read(c) PROVE Whole'
  BY <1>0, <1>1, <1>7, CommitWhole, AbortWhole, ReadWhole
<1>8. ASSUME NEW c \in Clients, DeleteBlocks(c) \/ EraseStripes(c) \/ ForgetObjects(c) PROVE Whole'
  BY <1>0, <1>1, <1>8, DeleteBlocksWhole, EraseStripesWhole, ForgetObjectsWhole
<1>9. ASSUME NEW c \in Clients, Reset(c) \/ Snapshot(c) \/ Revert(c) PROVE Whole'
  BY <1>0, <1>1, <1>9, ResetWhole, PlacesWhole
<1>10. ASSUME NEW id \in DOMAIN stripes, Repair(id) PROVE Whole'
  BY <1>0, <1>1, <1>10, RepairWhole
<1>11. ASSUME NEW id \in DOMAIN stripes, Lose(id) PROVE Whole'
  BY <1>1, <1>11, LoseEffect
<1>12. ASSUME NEW c \in Clients, ReadTorn(c) \/ \E o \in Clients : ReadsCross(c, o)
       PROVE  Whole'
  BY <1>1, <1>12, BrokenReadEffect DEF ReadsBreak
<1> QED BY <1>2, <1>3, <1>4, <1>5, <1>6, <1>7, <1>8, <1>9, <1>10, <1>11, <1>12 DEF Next

\* At first nothing is committed.
LEMMA InitWhole == Init => WholeInv
<1> SUFFICES ASSUME Init PROVE Whole
  BY DEF WholeInv
<1>1. DOMAIN committed = {} /\ DOMAIN sets = {}
  BY DEF Init, Empty
<1>2. \A c \in Clients : client[c].state = "idle"
  BY DEF Init, Idle
<1> QED BY <1>1, <1>2 DEF Whole, ObjectsWhole, SetsWhole, GetsWhole

\* The first part of a value, or nothing, is a prefix of it, and all of it if the value is
\* one stripe.
LEMMA FirstOfValue ==
  ASSUME size \in Nat \ {0}, NEW n, NEW got,
         got = <<>> \/ got = <<(<<n, 1>>)>>
  PROVE  /\ IsPrefix(got, Value(n))
         /\ size = 1 /\ got # <<>> => got = Value(n)
<1> PICK x : x = <<n, 1>>
  OBVIOUS
<1> PICK v : v = Value(n)
  OBVIOUS
<1> PICK S : S = {n} \X Nat
  OBVIOUS
<1>1. v \in Seq(S) /\ Len(v) = size /\ v[1] = x
  BY DEF Value
<1>2. Len(<<>>) = 0 /\ SubSeq(<<>>, 1, 0) = <<>> /\ SubSeq(v, 1, 0) = <<>>
  BY <1>1
<1>3. CASE got = <<>>
  BY <1>1, <1>2, <1>3 DEF IsPrefix
<1>4. CASE got = <<x>>
  <2>0. x \in S
    OBVIOUS
  <2>1. Len(got) = 1 /\ got[1] = x /\ got \in Seq(S)
    BY <1>4, <2>0
  <2>2. SubSeq(got, 1, 1) = got
    BY <2>1, SubSeqFull
  <2>3. SubSeq(v, 1, 1) = got
    <3>1. SubSeq(v, 1, 1) \in Seq(S) /\ Len(SubSeq(v, 1, 1)) = 1 /\ SubSeq(v, 1, 1)[1] = x
      BY <1>1
    <3> QED BY <2>1, <3>1, SeqEqual
  <2>4. IsPrefix(got, v)
    BY <1>1, <2>1, <2>2, <2>3 DEF IsPrefix
  <2>5. size = 1 => got = v
    <3>1. size = 1 => SubSeq(v, 1, 1) = v
      BY <1>1, SubSeqFull
    <3> QED BY <2>3, <3>1
  <2> QED BY <2>4, <2>5
<1> QED BY <1>3, <1>4

\* ReadsReturnTheValue: a get that is answered returns what the last set of its key wrote,
\* or the first part of it, or nothing, and never another value, whatever was written,
\* deleted, repaired, reverted or aborted meanwhile, as long as nothing mixes values up; and
\* all of a value of one stripe, if no block was lost and nothing was deleted that is in use
\* (request_get, decode_and_get_object and the check of run_client.cpp 735).
THEOREM ReadsHold == Spec => []ReadsReturnTheValue
<1>1. TypeInv /\ NumbersInv /\ IndexInv /\ ValuesInv /\ WholeInv /\ [Next]_vars
        /\ TypeInv' /\ NumbersInv' /\ IndexInv' => WholeInv'
  BY NextWhole
<1>2. TypeInv /\ ValuesInv /\ WholeInv => ReadsReturnTheValue
  <2> SUFFICES ASSUME TypeInv, ValuesInv, WholeInv, NEW c \in Clients, client[c].state = "got",
                      trouble \cap MixUps = {}
               PROVE  /\ IsPrefix(client[c].got, Value(client[c].want))
                      /\ size = 1 /\ trouble \cap {"lost", "deleted_early"} = {} =>
                           client[c].got = Value(client[c].want)
    BY DEF ReadsReturnTheValue
  <2> PICK got : got = client[c].got
    OBVIOUS
  <2> PICK v : v = client[c].want
    OBVIOUS
  <2>1. size \in Nat \ {0}
    BY DEF TypeInv, NumbersOK
  <2>2. got = <<>> \/ got = <<(<<v, 1>>)>>
    BY DEF ValuesInv, Values, GotRight, Without
  <2>3. trouble \cap {"lost", "deleted_early"} = {} => got # <<>>
    BY DEF WholeInv, Whole, GetsWhole, Without, Damage
  <2> QED BY <2>1, <2>2, <2>3, FirstOfValue
<1> QED BY <1>1, <1>2, InitWhole, TablesHold, ValuesHold, PTL DEF Spec
=============================================================================
