----------------------------- MODULE ObjectStore -----------------------------
(***************************************************************************)
(* Objects: request_set, commit_object, request_get, list_stripes,         *)
(* request_delete_by_stripe, the snapshot and the reset of coordinator.cpp, *)
(* the client's set, get and delete (client.cpp), and the threads of the    *)
(* proxies that store and read an object (proxy.cpp 311-745).               *)
(*                                                                          *)
(* The coordinator serves calls on four threads and holds mutex_ only around *)
(* the object tables, so a set is several steps.  A set is known by its      *)
(* number, which also stands for the value it writes: its part for the i-th  *)
(* stripe is <<number, i>>.  The blocks of one stripe are taken as one: they *)
(* have one number and one place, that of block 0.  All values of a behaviour *)
(* have one length, as in run_client.cpp, and every client sets one key at a *)
(* time.                                                                    *)
(*                                                                          *)
(* trouble is a history variable: it names what happened that the program    *)
(* gives no protection from.  No action reads it.                           *)
(*                                                                          *)
(* The proxies do not look whether a datanode has done what it was told: a    *)
(* write, a deletion or a read that fails counts as done (kinds "fail" and   *)
(* "torn"), and transfers of one datanode may take each other's connections  *)
(* (DatanodeTransfer).                                                       *)
(***************************************************************************)
EXTENDS Integers, Sequences, FiniteSets, SequencesExt, FiniteSetsExt, Functions

CONSTANTS
  Clients, Keys,
  Proxies,    \* one for each cluster
  Workloads   \* size, the stripes of every value, and how many calls and faults of
              \* each kind there may be: the bounds of a behaviour

Kinds == {"set", "get", "delete", "reset", "snapshot", "revert", "repair", "giveUp",
          "abort", "lose", "fail", "torn"}

ASSUME WorkloadsAssumption ==
  \A w \in Workloads : w.size \in Nat \ {0} /\ \A k \in Kinds : w[k] \in Nat

VARIABLES
  up,         \* the coordinator runs
  size,       \* stripes of every value
  nextStripe, \* cur_stripe_id_
  nextBlock,  \* cur_block_id_, in units of a stripe's blocks
  stripes,    \* stripe_table_
  updating,   \* updating_object_table_: the stripes listed for a key
  committed,  \* commited_object_table_
  initial,    \* initial_placement_
  sets,       \* the handlers of request_set that have not been committed
  client,     \* what each client does
  storing,    \* threads of encode_and_store_object in accept
  conns,      \* connections of clients to the proxies' acceptors
  disk,       \* what is stored under each block number at each place
  left,       \* how many calls and faults of each kind may still come
  current,    \* history: the set whose value a committed key has
  fresh,      \* history: no stripe number was given again since the snapshot
  trouble     \* history: see above

tables  == <<nextStripe, nextBlock, stripes, updating, committed, initial>>
work    == <<sets, client, storing, conns, disk>>
history == <<current, fresh, trouble>>
vars    == <<up, size, tables, work, left, history>>

Empty         == [x \in {} |-> {}]
Drop(f, S)    == Restrict(f, DOMAIN f \ S)
With(f, x, v) == [y \in DOMAIN f \cup {x} |-> IF y = x THEN v ELSE f[y]]
Use(kind)     == left[kind] > 0 /\ left' = [left EXCEPT ![kind] = @ - 1]
Suffer(S)     == trouble' = trouble \cup S

Idle    == [state |-> "idle"]
Stuck   == [state |-> "stuck"]   \* it waits for a value that never comes
Free(c) == up /\ client[c].state \in {"idle", "got"}

\* What set n writes, cut into its stripes.
Value(n) == [i \in 1 .. size |-> <<n, i>>]

\* The part of no set: blocks read or written in part, or mixed of two values.
Torn == <<0, 0>>

\* The place of a stripe's blocks, and what lies there.
Spot(id)     == <<stripes[id].block, stripes[id].at>>
Stored(spot) == IF spot \in DOMAIN disk THEN <<disk[spot]>> ELSE <<>>

\* Sets that are between mutex_.unlock() at line 97 and their answer.
Unlocked == {n \in DOMAIN sets : sets[n].stage \in {"checked", "numbering", "entered"}}
\* Sets whose client still waits.
Waiting  == {n \in DOMAIN sets :
               \E c \in Clients : client[c].state \in {"set", "sent"} /\ client[c].set = n}

Ends == up' = FALSE

\* A call of client o that looks stripe_table_ up or goes through it may be under way.
InTable(o) ==
  \/ Free(o) \/ client[o].state \in {"listed", "deleting"}
  \/ client[o].state = "set" /\ sets[client[o].set].stage \in {"checked", "numbering", "entered"}

Init ==
  /\ up = TRUE
  /\ \E w \in Workloads : size = w.size /\ left = [k \in Kinds |-> w[k]]
  /\ nextStripe = 0 /\ nextBlock = 0
  /\ stripes = Empty /\ updating = Empty /\ committed = Empty /\ initial = Empty
  /\ sets = Empty /\ client = [c \in Clients |-> Idle]
  /\ storing = {} /\ conns = {} /\ disk = Empty
  /\ current = Empty /\ fresh = FALSE /\ trouble = {}

----------------------------------------------------------------------------
(* request_set. *)

Set(c, k) ==
  /\ Free(c) /\ Use("set")
  /\ client' = [client EXCEPT ![c] = [state |-> "set", set |-> left.set]]
  /\ sets' = With(sets, left.set,
                  [key |-> k, stage |-> "called", ids |-> <<>>, id |-> 0,
                   listed |-> <<>>, parts |-> <<>>, proxy |-> {}])
  /\ UNCHANGED <<up, size, tables, storing, conns, disk, history>>

\* The check looks at committed objects only; a failed assertion ends the process.
Check(n) ==
  LET k    == sets[n].key
      same == \E m \in Waiting \ {n} : sets[m].key = k
  IN /\ up /\ sets[n].stage = "called"
     /\ IF k \in DOMAIN committed
          THEN Ends /\ UNCHANGED sets
          ELSE UNCHANGED up /\ sets' = [sets EXCEPT ![n].stage = "checked"]
     /\ Suffer((IF k \in DOMAIN committed \/ same THEN {"same_key"} ELSE {})
                 \cup (IF Unlocked # {} THEN {"overlap"} ELSE {}))
     /\ UNCHANGED <<size, tables, client, storing, conns, disk, left, current, fresh>>

\* cur_stripe_id_++ is a read and a write, which no lock holds together.
Number(n) ==
  /\ up /\ sets[n].stage = "checked" /\ Len(sets[n].ids) < size
  /\ sets' = [sets EXCEPT ![n].stage = "numbering", ![n].id = nextStripe]
  /\ UNCHANGED <<up, size, tables, client, storing, conns, disk, left, history>>

\* Mutant of Listed: cumulative_len starts again with every stripe.
ListedEachTime(n) == Len(sets[n].ids) < size
\* cumulative_len is not reset between the stripes of a set, so only the first of
\* them is entered with its object, on both sides.
Listed(n) == sets[n].ids = <<>>

\* Mutant of BlockAfter: cur_block_id_ is not counted on.
BlockNotCounted(n) == nextBlock
BlockAfter(n) == nextBlock + 1

\* new_stripe and generate_placement.
MakeStripe(n) ==
  /\ up /\ sets[n].stage = "numbering"
  /\ \E p \in Proxies :
       /\ stripes' = With(stripes, sets[n].id,
                          [block |-> nextBlock, at |-> p,
                           objects |-> IF Listed(n) THEN {sets[n].key} ELSE {}])
       /\ sets' = [sets EXCEPT ![n].stage = "checked",
                               ![n].ids = Append(@, sets[n].id),
                               ![n].listed = IF Listed(n) THEN Append(@, sets[n].id) ELSE @,
                               ![n].parts = Append(@, <<nextBlock, p>>)]
  /\ nextStripe' = sets[n].id + 1
  /\ nextBlock' = BlockAfter(n)
  /\ UNCHANGED <<up, size, updating, committed, initial, client, storing, conns, disk,
                 left, history>>

\* A handler of another call may look stripe_table_ up, or insert into it, while
\* new_stripe inserts: that is a data race, which may end the process.
TablesBreak ==
  /\ up
  /\ \E n \in Unlocked, c \in Clients :
       sets[n].stage = "numbering" /\ ~(client[c].state = "set" /\ client[c].set = n)
  /\ Ends /\ Suffer({"overlap"})
  /\ UNCHANGED <<size, tables, work, left, current, fresh>>

\* The object gets into updating_object_table_, over whatever it had there.
Enter(n) ==
  /\ up /\ sets[n].stage = "checked" /\ Len(sets[n].ids) = size
  /\ updating' = With(updating, sets[n].key, sets[n].listed)
  /\ sets' = [sets EXCEPT ![n].stage = "entered"]
  /\ UNCHANGED <<up, size, nextStripe, nextBlock, stripes, committed, initial, client,
                 storing, conns, disk, left, history>>

\* Mutant of LastStripe: off by one.
StripeAfterLast == nextStripe
LastStripe == nextStripe - 1

\* The proxy is that of the stripe made last, by whichever set; without such a
\* stripe operator[] makes one that has no block 0.
Dispatch(n) ==
  /\ up /\ sets[n].stage = "entered"
  /\ IF LastStripe \in DOMAIN stripes
       THEN LET p == stripes[LastStripe].at
            IN /\ storing' = storing \cup {[proxy |-> p, set |-> n, parts |-> sets[n].parts]}
               /\ sets' = [sets EXCEPT ![n].stage = "answered", ![n].proxy = {p}]
               /\ Suffer(IF \E t \in storing : t.proxy = p THEN {"shared_proxy"} ELSE {})
               /\ UNCHANGED up
       ELSE Ends /\ UNCHANGED <<storing, sets, trouble>>
  /\ UNCHANGED <<size, tables, client, conns, disk, left, current, fresh>>

\* call_for gives the set up after 500 s, or the client ends before it connects.
GiveUp(c) ==
  /\ up /\ client[c].state = "set" /\ Use("giveUp")
  /\ client' = [client EXCEPT ![c] = Idle]
  /\ UNCHANGED <<up, size, tables, sets, storing, conns, disk, history>>

\* The client connects to the proxy that the answer names and sends key and value.
Connect(c) ==
  LET n == client[c].set
  IN /\ up /\ client[c].state = "set" /\ sets[n].stage = "answered"
     /\ \E p \in sets[n].proxy : conns' = conns \cup {[proxy |-> p, set |-> n]}
     /\ client' = [client EXCEPT ![c].state = "sent"]
     /\ UNCHANGED <<up, size, tables, sets, storing, disk, left, history>>

Content(t, k, spot) == <<k.set, Min({i \in DOMAIN t.parts : t.parts[i] = spot})>>

\* The thread is over and the client has its answer.
Stores(t, k) ==
  /\ storing' = storing \ {t} /\ conns' = conns \ {k}
  /\ sets' = [sets EXCEPT ![k.set].stage = "stored"]
  /\ UNCHANGED <<up, size, tables, current, fresh>>

\* encode_and_store_object: any thread of the proxy takes any connection; it
\* checks the lengths only and stores what comes under its own block numbers.
Store(t, k) ==
  /\ up /\ t.proxy = k.proxy
  /\ disk' = [spot \in DOMAIN disk \cup ToSet(t.parts) |->
                IF spot \in ToSet(t.parts) THEN Content(t, k, spot) ELSE disk[spot]]
  /\ Stores(t, k)
  /\ UNCHANGED <<client, left, trouble>>

\* write_to_datanode only prints that a write failed, and the answer is 1 all the
\* same.  What lay under the failed parts' numbers stays, or is mixed with what is
\* written.  A datanode fails, or its thread that serves a get takes the connection of
\* the write: then the get waits for the thread that waits for the write.
StoreFails(t, k) ==
  /\ up /\ t.proxy = k.proxy
  /\ \E failed \in (SUBSET ToSet(t.parts)) \ {{}} :
       /\ \E mixed \in SUBSET (failed \cap DOMAIN disk) :
            disk' = [spot \in DOMAIN disk \cup (ToSet(t.parts) \ failed) |->
                       IF spot \in ToSet(t.parts) \ failed THEN Content(t, k, spot)
                       ELSE IF spot \in mixed THEN Torn ELSE disk[spot]]
       /\ Suffer({"lost"} \cup IF failed \cap DOMAIN disk = {} THEN {} ELSE {"old_kept"})
  /\ \/ Use("fail") /\ UNCHANGED client
     \/ /\ \E c \in Clients : client[c].state = "get" /\ client' = [client EXCEPT ![c] = Stuck]
        /\ UNCHANGED left
  /\ Stores(t, k)

\* The client has the answer of the proxy, which is always 1, and commits.
Commit(c) ==
  LET n == client[c].set
      k == sets[n].key
  IN /\ up /\ client[c].state = "sent" /\ sets[n].stage = "stored"
     /\ IF k \notin DOMAIN committed /\ k \in DOMAIN updating
          THEN /\ committed' = With(committed, k, updating[k])
               /\ updating' = Drop(updating, {k})
               /\ current' = With(current, k, n)
               /\ sets' = Drop(sets, {n})
               /\ client' = [client EXCEPT ![c] = Idle]
               /\ UNCHANGED up
          ELSE Ends /\ UNCHANGED <<committed, updating, current, sets, client>>
     /\ UNCHANGED <<size, nextStripe, nextBlock, stripes, initial, storing, conns, disk,
                    left, fresh, trouble>>

\* Sets that have made one of the stripes and have not been committed.
MadeBySets(ids) == {n \in DOMAIN sets : ToSet(sets[n].ids) \cap ids # {}}
\* Clients that are about to read one of the stripes, or delete it.
InUse(ids) ==
  {c \in Clients :
     \/ client[c].state = "get" /\ \E id \in ids : Spot(id) \in ToSet(client[c].parts)
     \/ client[c].state \in {"listed", "deleting", "erased"} /\ client[c].ids \cap ids # {}}

\* Client o is deleting one of the objects.
InDeletion(o, S) ==
  client[o].state \in {"deleting", "erased"} /\ client[o].keys \cap S # {}

\* updating_object_table_[key]: operator[] makes an empty entry where there is none.
Entry(k) == IF k \in DOMAIN updating THEN updating[k] ELSE <<>>

\* An abort gives back as many numbers as stripes were listed, and takes them to
\* be the last ones.
TakenBack(n) == Len(Entry(sets[n].key))

\* commit_object with commit = false.  No proxy of this repository answers 0, so
\* the client does so only when it cancels.
Abort(c) ==
  LET n    == client[c].set
      k    == sets[n].key
      last == sets[n].ids = <<nextStripe - 1>> /\ ToSet(sets[n].ids) \subseteq DOMAIN stripes
                /\ InUse(ToSet(sets[n].ids)) = {}
  IN /\ up /\ client[c].state = "sent" /\ sets[n].stage = "stored" /\ Use("abort")
     /\ IF k \notin DOMAIN committed
          THEN /\ stripes' = Drop(stripes, ToSet(Entry(k)))
               /\ nextStripe' = nextStripe - TakenBack(n)
               /\ updating' = Drop(updating, {k})
               /\ sets' = Drop(sets, {n})
               /\ client' = [client EXCEPT ![c] = Idle]
               /\ UNCHANGED up
          ELSE Ends /\ UNCHANGED <<stripes, nextStripe, updating, sets, client>>
     /\ Suffer(IF last THEN {} ELSE {"bad_abort"})
     /\ fresh' = FALSE
     /\ UNCHANGED <<size, nextBlock, committed, initial, storing, conns, disk, current>>

----------------------------------------------------------------------------
(* request_get and decode_and_get_object. *)

\* The stripe of the object is looked up at once; its blocks are read later.  For a
\* stripe that is gone operator[] makes an empty one, on which the proxy's
\* assertion at 480 fails: the model stops there as well.
Get(c, k) ==
  /\ Free(c) /\ Use("get")
  /\ IF k \in DOMAIN committed /\ ToSet(committed[k]) \subseteq DOMAIN stripes
       THEN /\ client' = [client EXCEPT ![c] =
                 [state |-> "get", want |-> current[k],
                  parts |-> [i \in DOMAIN committed[k] |-> Spot(committed[k][i])]]]
            /\ UNCHANGED up
       ELSE Ends /\ UNCHANGED client
  /\ Suffer(IF k \notin DOMAIN committed              THEN {"absent_key"}
            ELSE IF \E o \in Clients : InDeletion(o, {k}) THEN {"deleted_early"} ELSE {})
  /\ UNCHANGED <<size, tables, sets, storing, conns, disk, current, fresh>>

\* What can be read is appended.  A stripe of which a block cannot be read is
\* decoded, but its blocks are not appended (proxy.cpp 699-703).  If too few can be
\* read to decode, the thread fails its assertion at 638 and no answer comes: that
\* is a Read that is not taken.
There(c) == FlattenSeq([i \in DOMAIN client[c].parts |-> Stored(client[c].parts[i])])
Got(c, parts) == [state |-> "got", want |-> client[c].want, got |-> parts]

Read(c) ==
  /\ up /\ client[c].state = "get"
  /\ client' = [client EXCEPT ![c] = Got(c, There(c))]
  /\ UNCHANGED <<up, size, tables, sets, storing, conns, disk, left, history>>

\* read_from_datanode drops the errors of its reads, prints its exceptions and returns
\* true: the block is of zeros, or ends in zeros, and counts.
ReadTorn(c) ==
  /\ up /\ client[c].state = "get" /\ Use("torn")
  /\ client' = [client EXCEPT ![c] = Got(c, <<Torn>>)]
  /\ Suffer({"read_broken"})
  /\ UNCHANGED <<up, size, tables, sets, storing, conns, disk, current, fresh>>

\* Two gets read at one datanode at a time: its threads may take each other's
\* connection, and nobody compares keys.  Each has blocks of the other then, or all of
\* them, or a block is not there.
ReadsCross(c, o) ==
  /\ up /\ c # o /\ client[c].state = "get" /\ client[o].state = "get"
  /\ \E x \in {<<>>, <<Torn>>, There(o)}, y \in {<<>>, <<Torn>>, There(c)} :
       client' = [client EXCEPT ![c] = Got(c, x), ![o] = Got(o, y)]
  /\ Suffer({"transfers_meet"})
  /\ UNCHANGED <<up, size, tables, sets, storing, conns, disk, left, current, fresh>>

----------------------------------------------------------------------------
(* Deletion, by the client's delete_all_stripes or delete_stripe. *)

\* list_stripes, or a stripe the client knows of.
List(c) ==
  /\ Free(c) /\ Use("delete")
  /\ \E ids \in {DOMAIN stripes} \cup {{id} : id \in DOMAIN stripes} :
       /\ ids # {}
       /\ client' = [client EXCEPT ![c] = [state |-> "listed", ids |-> ids]]
       /\ Suffer(IF InUse(ids) = {} THEN {} ELSE {"deleted_early"})
  /\ UNCHANGED <<up, size, tables, sets, storing, conns, disk, current, fresh>>

\* request_delete_by_stripe: the blocks go first, but delete_in_datanode does not
\* say if one does not go (kept).  A stripe that is not in the table has no code (ec is
\* null): the process ends.
DeleteBlocks(c) ==
  LET ids   == client[c].ids
      spots == {Spot(id) : id \in ids}
  IN /\ up /\ client[c].state = "listed"
     /\ IF ids \subseteq DOMAIN stripes
          THEN /\ \E kept \in SUBSET spots :
                    /\ disk' = Drop(disk, spots \ kept)
                    /\ IF kept = {} THEN UNCHANGED left ELSE Use("fail")
               /\ client' = [client EXCEPT ![c] =
                    [state |-> "deleting", ids |-> ids,
                     keys |-> UNION {stripes[id].objects : id \in ids}]]
               /\ Suffer(IF MadeBySets(ids) # {} \/ InUse(ids) # {c}
                         THEN {"deleted_early"} ELSE {})
               /\ UNCHANGED up
          ELSE Ends /\ UNCHANGED <<disk, client, left, trouble>>
     /\ UNCHANGED <<size, tables, sets, storing, conns, current, fresh>>

\* A deletion (375), an abort (240) and a reset (auxs.cpp 110) erase from stripe_table_
\* and hold no lock.
Erasing(c) ==
  \/ client[c].state = "deleting"
  \/ client[c].state = "sent" /\ sets[client[c].set].stage = "stored" /\ left.abort > 0
  \/ Free(c) /\ left.reset > 0

\* That is a data race with another call that is in the table: the process may end.
EraseBreaks ==
  /\ up
  /\ \E c, o \in Clients : c # o /\ Erasing(c) /\ InTable(o)
  /\ Ends /\ Suffer({"erased_in_use"})
  /\ UNCHANGED <<size, tables, work, left, current, fresh>>

\* The erasure, when it ends well.
EraseStripes(c) ==
  /\ up /\ client[c].state = "deleting"
  /\ stripes' = Drop(stripes, client[c].ids)
  /\ client' = [client EXCEPT ![c].state = "erased"]
  /\ UNCHANGED <<up, size, nextStripe, nextBlock, updating, committed, initial, sets,
                 storing, conns, disk, left, history>>

\* Mutant of Forgotten: the objects stay in the table.
ForgottenNever(c) == {}
Forgotten(c) == client[c].keys

ForgetObjects(c) ==
  /\ up /\ client[c].state = "erased"
  /\ committed' = Drop(committed, Forgotten(c))
  /\ current' = Drop(current, client[c].keys)
  /\ client' = [client EXCEPT ![c] = Idle]
  /\ UNCHANGED <<up, size, nextStripe, nextBlock, stripes, updating, initial, sets,
                 storing, conns, disk, left, fresh, trouble>>

----------------------------------------------------------------------------
(* Reset, snapshot, revert, repair and loss. *)

\* set_erasure_coding_parameters, the first call of every client program.  It
\* clears the tables and the numbers, but neither the snapshot nor the disks.
Reset(c) ==
  /\ Free(c) /\ Use("reset")
  /\ nextStripe' = 0 /\ nextBlock' = 0
  /\ stripes' = Empty /\ updating' = Empty /\ committed' = Empty
  /\ current' = Empty /\ fresh' = FALSE
  /\ Suffer(IF DOMAIN sets = {} /\ \A o \in Clients \ {c} : Free(o)
            THEN {} ELSE {"reset_early"})
  /\ UNCHANGED <<up, size, initial, work>>

Snapshot(c) ==
  /\ Free(c) /\ Use("snapshot")
  /\ initial' = [id \in DOMAIN stripes |-> stripes[id].at]
  /\ fresh' = TRUE
  /\ UNCHANGED <<up, size, nextStripe, nextBlock, stripes, updating, committed, work,
                 current, trouble>>

Revert(c) ==
  /\ Free(c) /\ Use("revert")
  /\ stripes' = [id \in DOMAIN stripes |->
                   IF id \in DOMAIN initial THEN [stripes[id] EXCEPT !.at = initial[id]]
                                            ELSE stripes[id]]
  /\ Suffer(IF fresh \/ stripes' = stripes THEN {} ELSE {"stale_revert"})
  /\ UNCHANGED <<up, size, nextStripe, nextBlock, updating, committed, initial, work,
                 current, fresh>>

\* A set has made the stripe and has not written it.
Unwritten(id) ==
  \E n \in DOMAIN sets : sets[n].stage # "stored" /\ id \in ToSet(sets[n].ids)

\* A repair writes the block to another place and moves it in blocks2nodes; what it
\* repairs is only said to be lost, and stays where it is (run_client.cpp 76-113).
\* It does not look at failed reads and writes either.
Repair(id) ==
  LET early == IF Unwritten(id) THEN {"repaired_early"} ELSE {}
  IN
  /\ up /\ id \in DOMAIN stripes /\ Spot(id) \in DOMAIN disk /\ Use("repair")
  /\ \E p \in Proxies \ {stripes[id].at} :
       LET spot == <<stripes[id].block, p>>
       IN /\ stripes' = [stripes EXCEPT ![id].at = p]
          /\ \/ disk' = With(disk, spot, disk[Spot(id)]) /\ Suffer(early)
             \/ disk' = With(disk, spot, Torn) /\ Suffer(early \cup {"read_broken"})
             \/ /\ UNCHANGED disk
                /\ Suffer(early \cup IF spot \in DOMAIN disk THEN {"old_kept"} ELSE {"lost"})
  /\ UNCHANGED <<up, size, nextStripe, nextBlock, updating, committed, initial, sets,
                 client, storing, conns, current, fresh>>

\* A block of a stripe is lost.
Lose(id) ==
  /\ up /\ id \in DOMAIN stripes /\ Spot(id) \in DOMAIN disk /\ Use("lose")
  /\ disk' = Drop(disk, {Spot(id)})
  /\ Suffer({"lost"})
  /\ UNCHANGED <<up, size, tables, sets, client, storing, conns, current, fresh>>

----------------------------------------------------------------------------
Next ==
  \/ \E n \in DOMAIN sets : Check(n) \/ Number(n) \/ MakeStripe(n) \/ Enter(n) \/ Dispatch(n)
  \/ TablesBreak \/ EraseBreaks
  \/ \E t \in storing, k \in conns : Store(t, k) \/ StoreFails(t, k)
  \/ \E c \in Clients, k \in Keys : Set(c, k) \/ Get(c, k)
  \/ \E c \in Clients :
       \/ GiveUp(c) \/ Connect(c) \/ Commit(c) \/ Abort(c)
       \/ Read(c) \/ ReadTorn(c) \/ (\E o \in Clients : ReadsCross(c, o))
       \/ List(c) \/ DeleteBlocks(c) \/ EraseStripes(c) \/ ForgetObjects(c)
       \/ Reset(c) \/ Snapshot(c) \/ Revert(c)
  \/ \E id \in DOMAIN stripes : Repair(id) \/ Lose(id)

Spec == Init /\ [][Next]_vars

----------------------------------------------------------------------------
\* Aborts of two sets that overlapped take nextStripe below 0, which stands for the
\* wrapped number of the code: cur_stripe_id_ is unsigned (coordinator.h 157).
TypeOK ==
  /\ up \in BOOLEAN /\ left \in [Kinds -> Nat]
  /\ nextStripe \in Int /\ nextBlock \in Nat
  /\ \A id \in DOMAIN stripes :
       stripes[id] \in [block : 0 .. nextBlock, at : Proxies, objects : SUBSET Keys]
  /\ DOMAIN updating \subseteq Keys /\ DOMAIN committed \subseteq Keys
  /\ \A k \in DOMAIN committed : Len(committed[k]) = 1
  /\ DOMAIN current = DOMAIN committed
  /\ \A t \in storing : t.proxy \in Proxies /\ Len(t.parts) = size
  /\ \A k \in conns : k.set \in DOMAIN sets

\* What mixes values up: two sets at once, of one key or with threads at one proxy
\* (of which one may wait for a client that gave up), an abort of a set that did not
\* make the last stripe and only that, a revert to places of other stripes, a repair of
\* a stripe that is not written yet (its block numbers may have been used before a
\* reset, so that there is something to read), a reset under way, a read that broke off, two
\* gets at one datanode, and a write that failed where something lay (after a reset).
MixUps == {"overlap", "same_key", "shared_proxy", "bad_abort", "stale_revert",
           "repaired_early", "reset_early", "read_broken", "transfers_meet", "old_kept"}

\* A get returns what the last set of the key wrote, or the first part of it, or
\* nothing, but never another value; and all of it if it is one stripe, no block was
\* lost (a write that failed is a loss) and nothing was deleted under a running call
\* (run_client.cpp 735).
ReadsReturnTheValue ==
  \A c \in Clients :
    client[c].state = "got" /\ trouble \cap MixUps = {} =>
      /\ IsPrefix(client[c].got, Value(client[c].want))
      /\ size = 1 /\ trouble \cap {"lost", "deleted_early"} = {} =>
           client[c].got = Value(client[c].want)

Deleting == {k \in Keys : \E c \in Clients : InDeletion(c, {k})}

\* The object table and the stripe table agree: a committed object is listed in
\* stripes that are there and list it, and a stripe lists only objects that are
\* committed with it or about to be.
IndexAgrees ==
  trouble \cap {"overlap", "same_key", "bad_abort", "reset_early", "deleted_early"} = {} =>
    /\ \A k \in DOMAIN committed \ Deleting : \A id \in ToSet(committed[k]) :
         id \in DOMAIN stripes /\ k \in stripes[id].objects
    /\ \A id \in DOMAIN stripes : \A k \in stripes[id].objects :
         \/ k \in DOMAIN committed /\ id \in ToSet(committed[k])
         \/ \E n \in DOMAIN sets : sets[n].key = k /\ id \in ToSet(sets[n].listed)

\* No assertion fails and nothing is looked up in vain, in whichever order calls on
\* different keys come, as long as handlers of sets do not overlap and no call is in the
\* stripe table while another one erases from it.
CoordinatorStaysUp ==
  ~up => trouble \cap {"overlap", "same_key", "absent_key", "bad_abort", "reset_early",
                       "deleted_early", "erased_in_use"} # {}
==============================================================================
