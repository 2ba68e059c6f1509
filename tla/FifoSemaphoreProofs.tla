------------------------ MODULE FifoSemaphoreProofs ------------------------
(***************************************************************************)
(* What FifoSemaphore does for any number of threads and permits.          *)
(***************************************************************************)
EXTENDS FifoSemaphore, FiniteSetTheorems, SequenceTheorems, TLAPS

\* Tickets are handed out once: a thread has none before acquire(), and no
\* two threads ever have the same one.
TicketsOnce ==
  /\ \A t \in Threads : pc[t] \in {"unborn", "started"} => ticket[t] = -1
  /\ \A t \in Threads :
       pc[t] \notin {"unborn", "started"} => ticket[t] \in 0 .. nextTicket - 1
  /\ \A t, u \in Threads :
       t # u /\ ticket[t] # -1 => ticket[t] # ticket[u]

\* The inductive invariant.
IInv ==
  /\ TypeOK
  /\ PermitsConserved
  /\ TicketsOnce
  /\ QueueIsWaiting
  /\ GrantsFollowTickets

----------------------------------------------------------------------------
LEMMA ThreadsFinite == IsFiniteSet(Threads)
BY FS_Interval, NThreadsAssumption DEF Threads

\* Appending keeps the queue as it was and puts the new ticket last.
LEMMA AppendedQueue ==
  ASSUME NEW q \in Seq(Nat), NEW k \in Nat
  PROVE  /\ Append(q, k) \in Seq(Nat)
         /\ Len(Append(q, k)) = Len(q) + 1
         /\ \A i \in 1 .. Len(q) : Append(q, k)[i] = q[i]
         /\ Append(q, k)[Len(q) + 1] = k
         /\ DOMAIN Append(q, k) = 1 .. Len(q) + 1
OBVIOUS

\* Dequeuing shifts the queue by one.
LEMMA DequeuedQueue ==
  ASSUME NEW q \in Seq(Nat), q # <<>>
  PROVE  /\ Tail(q) \in Seq(Nat)
         /\ Len(q) >= 1
         /\ Len(Tail(q)) = Len(q) - 1
         /\ \A i \in 1 .. Len(q) - 1 : Tail(q)[i] = q[i + 1]
         /\ DOMAIN Tail(q) = 1 .. Len(q) - 1
         /\ Head(q) = q[1]
OBVIOUS

\* A thread that is neither in nor out changes no permit.
LEMMA HoldersCount ==
  ASSUME TypeOK
  PROVE  /\ IsFiniteSet(Holders)
         /\ Cardinality(Holders) \in Nat
         /\ \A t \in Threads : t \in Holders => Cardinality(Holders) >= 1
  <1>1. Holders \subseteq Threads
    BY DEF Holders, In
  <1>2. IsFiniteSet(Holders)
    BY <1>1, ThreadsFinite, FS_Subset
  <1>3. Cardinality(Holders) \in Nat
    BY <1>2, FS_CardinalityType
  <1>4. ASSUME NEW t \in Threads, t \in Holders
        PROVE  Cardinality(Holders) >= 1
    BY <1>2, <1>3, <1>4, FS_EmptySet
  <1>5. QED
    BY <1>2, <1>3, <1>4

\* The permits when thread t passes acquire().
LEMMA PassCount ==
  ASSUME TypeOK, PermitsConserved, NEW t \in Threads,
         t \notin Holders, Holders' = Holders \cup {t},
         count > 0, count' = count - 1
  PROVE  PermitsConserved' /\ count' \in 0 .. Capacity
  <1>1. IsFiniteSet(Holders)
    BY HoldersCount
  <1>2. Cardinality(Holders') = Cardinality(Holders) + 1
    BY <1>1, FS_AddElement
  <1>3. QED
    BY <1>2, HoldersCount, CapacityAssumption DEF TypeOK, PermitsConserved

\* The permits when thread t releases its own.
LEMMA ReleaseCount ==
  ASSUME TypeOK, PermitsConserved, NEW t \in Threads,
         t \in Holders, Holders' = Holders \ {t}, count' = count + 1
  PROVE  PermitsConserved' /\ count' \in 0 .. Capacity
  <1>1. IsFiniteSet(Holders)
    BY HoldersCount
  <1>2. Cardinality(Holders') = Cardinality(Holders) - 1
    BY <1>1, FS_RemoveElement
  <1>3. QED
    BY <1>2, HoldersCount, CapacityAssumption DEF TypeOK, PermitsConserved

\* The ticket at the front of the queue is the smallest a waiting thread has.
LEMMA FrontIsSmallest ==
  ASSUME TypeOK, TicketsOnce, QueueIsWaiting, NEW t \in Waiting,
         waitQueue # <<>>, Head(waitQueue) = ticket[t]
  PROVE  \A u \in Waiting : u # t => ticket[t] < ticket[u]
  <1> SUFFICES ASSUME NEW u \in Waiting, u # t
               PROVE  ticket[t] < ticket[u]
    OBVIOUS
  <1>1. t \in Threads /\ u \in Threads
    BY DEF Waiting, In
  <1>2. PICK i \in DOMAIN waitQueue : waitQueue[i] = ticket[u]
    BY <1>1 DEF QueueIsWaiting
  <1>3. /\ DOMAIN waitQueue = 1 .. Len(waitQueue)
        /\ Len(waitQueue) >= 1
        /\ waitQueue[1] = ticket[t]
    BY DequeuedQueue DEF TypeOK
  <1>4. ticket[u] # ticket[t]
    BY <1>1 DEF TicketsOnce, Waiting, In
  <1>5. QED
    BY <1>2, <1>3, <1>4 DEF QueueIsWaiting

\* A thread takes a ticket: every waiting thread has an earlier one.
LEMMA NewTicketIsLast ==
  ASSUME TypeOK, TicketsOnce, QueueIsWaiting
  PROVE  \A i \in DOMAIN waitQueue : waitQueue[i] < nextTicket
  <1>1. \A t \in Waiting : ticket[t] < nextTicket
    BY DEF TypeOK, TicketsOnce, Waiting, In
  <1>2. QED
    BY <1>1 DEF QueueIsWaiting, TypeOK

----------------------------------------------------------------------------
LEMMA InitInv == Init => IInv
  <1> SUFFICES ASSUME Init
               PROVE  IInv
    OBVIOUS
  <1>1. TypeOK
    BY CapacityAssumption DEF Init, TypeOK, Places
  <1>2. Holders = {} /\ Waiting = {} /\ Granted = {}
    BY DEF Init, Holders, Waiting, Granted, In
  <1>3. PermitsConserved
    BY <1>2, FS_EmptySet, CapacityAssumption DEF Init, PermitsConserved
  <1>4. TicketsOnce
    BY DEF Init, TicketsOnce
  <1>5. QueueIsWaiting
    BY <1>2 DEF Init, QueueIsWaiting
  <1>6. GrantsFollowTickets
    BY <1>2 DEF GrantsFollowTickets
  <1>7. QED
    BY <1>1, <1>3, <1>4, <1>5, <1>6 DEF IInv

\* Steps that move no thread into or out of acquire() or a permit.
LEMMA QuietStep ==
  ASSUME IInv, UNCHANGED <<count, waitQueue, nextTicket, ticket>>,
         pc' \in [Threads -> Places],
         \A t \in Threads :
           /\ pc[t] \in {"unborn", "started"} <=> pc'[t] \in {"unborn", "started"}
           /\ t \in Holders <=> t \in Holders'
           /\ t \in Waiting <=> t \in Waiting'
           /\ t \in Granted <=> t \in Granted'
  PROVE  IInv'
  <1>1. Holders' = Holders /\ Waiting' = Waiting /\ Granted' = Granted
    BY DEF Holders, Waiting, Granted, In
  <1>2. TypeOK'
    BY DEF IInv, TypeOK
  <1>3. PermitsConserved'
    BY <1>1 DEF IInv, PermitsConserved
  <1>4. TicketsOnce'
    BY DEF IInv, TicketsOnce
  <1>5. QueueIsWaiting'
    BY <1>1 DEF IInv, QueueIsWaiting
  <1>6. GrantsFollowTickets'
    BY <1>1 DEF IInv, GrantsFollowTickets
  <1>7. QED
    BY <1>2, <1>3, <1>4, <1>5, <1>6 DEF IInv

LEMMA SpawnInv == ASSUME IInv, NEW t \in Threads, Spawn(t) PROVE IInv'
  <1>1. pc' \in [Threads -> Places]
    BY DEF IInv, TypeOK, Spawn, Places
  <1>2. QED
    BY <1>1, QuietStep DEF IInv, TypeOK, Spawn, Holders, Waiting, Granted, In

LEMMA SpuriousWakeInv ==
  ASSUME IInv, NEW t \in Threads, SpuriousWake(t) PROVE IInv'
  <1>1. pc' \in [Threads -> Places]
    BY DEF IInv, TypeOK, SpuriousWake, Places
  <1>2. QED
    BY <1>1, QuietStep
    DEF IInv, TypeOK, SpuriousWake, Holders, Waiting, Granted, In

LEMMA NotifyAllInv ==
  ASSUME IInv, NEW t \in Threads, NotifyAll(t) PROVE IInv'
  <1>1. pc' \in [Threads -> Places]
    BY DEF IInv, TypeOK, NotifyAll, Places
  <1>2. QED
    BY <1>1, QuietStep
    DEF IInv, TypeOK, NotifyAll, Holders, Waiting, Granted, In

\* A permit comes back: the thread stays among those that were granted one.
LEMMA ReleaseInv == ASSUME IInv, NEW t \in Threads, Release(t) PROVE IInv'
  <1>1. /\ t \in Holders /\ Holders' = Holders \ {t}
        /\ Waiting' = Waiting /\ Granted' = Granted
    BY DEF IInv, TypeOK, Release, Holders, Waiting, Granted, In
  <1>2. PermitsConserved' /\ count' \in 0 .. Capacity
    BY <1>1, ReleaseCount DEF IInv, Release
  <1>3. TypeOK'
    BY <1>2 DEF IInv, TypeOK, Release, Places
  <1>4. TicketsOnce'
    BY DEF IInv, TypeOK, TicketsOnce, Release
  <1>5. QueueIsWaiting'
    BY <1>1 DEF IInv, QueueIsWaiting, Release
  <1>6. GrantsFollowTickets'
    BY <1>1 DEF IInv, GrantsFollowTickets, Release
  <1>7. QED
    BY <1>2, <1>3, <1>4, <1>5, <1>6 DEF IInv

\* The tickets after thread t took one.
LEMMA TicketTaken ==
  ASSUME IInv, NEW t \in Threads, Acquire(t)
  PROVE  TicketsOnce'
  <1>1. /\ ticket'[t] = nextTicket /\ nextTicket' = nextTicket + 1
        /\ pc'[t] \notin {"unborn", "started"}
        /\ \A u \in Threads : u # t => ticket'[u] = ticket[u] /\ pc'[u] = pc[u]
    BY DEF IInv, TypeOK, Acquire
  <1>2. \A u \in Threads : u # t => ticket[u] # nextTicket
    BY DEF IInv, TypeOK, TicketsOnce
  <1>3. QED
    BY <1>1, <1>2 DEF IInv, TypeOK, TicketsOnce

LEMMA AcquireInv == ASSUME IInv, NEW t \in Threads, Acquire(t) PROVE IInv'
  <1> DEFINE queue == Append(waitQueue, nextTicket)
  <1> USE DEF IInv
  <1>1. /\ queue \in Seq(Nat)
        /\ DOMAIN queue = 1 .. Len(waitQueue) + 1
        /\ Len(queue) = Len(waitQueue) + 1
        /\ queue[Len(waitQueue) + 1] = nextTicket
        /\ \A i \in 1 .. Len(waitQueue) : queue[i] = waitQueue[i]
        /\ DOMAIN waitQueue = 1 .. Len(waitQueue)
        /\ Len(waitQueue) \in Nat
    BY AppendedQueue DEF TypeOK
  <1>2. /\ t \notin Waiting /\ t \notin Granted /\ t \notin Holders
        /\ pc[t] = "started" /\ ticket[t] = -1
        /\ ticket'[t] = nextTicket /\ nextTicket' = nextTicket + 1
        /\ \A u \in Threads : u # t => ticket'[u] = ticket[u]
        /\ ticket' \in [Threads -> Nat \cup {-1}]
        /\ nextTicket' \in Nat
    BY DEF TypeOK, TicketsOnce, Acquire, Waiting, Granted, Holders, In
  <1>3. \A u \in Waiting : u \in Threads /\ ticket[u] < nextTicket
    BY DEF TypeOK, TicketsOnce, Waiting, In
  <1>4. \A u \in Granted : u \in Threads /\ ticket[u] < nextTicket
    BY DEF TypeOK, TicketsOnce, Granted, In
  <1>5. TicketsOnce'
    BY TicketTaken
  <1>6. CASE MayPass(nextTicket, queue)
    <2>1. /\ waitQueue' = Tail(queue) /\ count' = count - 1
          /\ pc' = [pc EXCEPT ![t] = "holding"] /\ count > 0
      BY <1>6 DEF Acquire, MayPass
    <2>2. waitQueue = <<>>
      <3>1. queue[1] = nextTicket
        BY <1>1, <1>6 DEF MayPass
      <3>2. Len(waitQueue) = 0
        BY <3>1, <1>1, NewTicketIsLast DEF TypeOK
      <3>3. QED
        BY <3>2 DEF TypeOK
    <2>3. waitQueue' = <<>>
      BY <2>1, <2>2
    <2>4. /\ Holders' = Holders \cup {t} /\ Granted' = Granted \cup {t}
          /\ Waiting' = Waiting
      BY <2>1, <1>2 DEF TypeOK, Holders, Granted, Waiting, In
    <2>5. Waiting = {}
      BY <2>2 DEF QueueIsWaiting, Waiting, In
    <2>6. PermitsConserved' /\ count' \in 0 .. Capacity
      BY <2>1, <2>4, <1>2, PassCount
    <2>7. TypeOK'
      <3>1. waitQueue' \in Seq(Nat)
        BY <2>2, <2>3 DEF TypeOK
      <3>2. pc' \in [Threads -> Places]
        BY <2>1 DEF TypeOK, Places
      <3>3. QED
        BY <3>1, <3>2, <2>6, <1>2 DEF TypeOK
    <2>8. QueueIsWaiting'
      BY <2>3, <2>4, <2>5 DEF QueueIsWaiting
    <2>9. GrantsFollowTickets'
      BY <2>4, <2>5 DEF GrantsFollowTickets
    <2>10. QED
      BY <1>5, <2>6, <2>7, <2>8, <2>9
  <1>7. CASE ~MayPass(nextTicket, queue)
    <2>1. /\ waitQueue' = queue /\ count' = count
          /\ pc' = [pc EXCEPT ![t] = "asleep"]
      BY <1>7 DEF Acquire
    <2>2. /\ Holders' = Holders /\ Granted' = Granted
          /\ Waiting' = Waiting \cup {t}
      BY <2>1, <1>2 DEF TypeOK, Holders, Granted, Waiting, In
    <2>3. TypeOK'
      BY <2>1, <1>1, <1>2 DEF TypeOK, Places
    <2>4. PermitsConserved'
      BY <2>1, <2>2 DEF PermitsConserved
    <2>5. QueueIsWaiting'
      <3>1. \A i, j \in DOMAIN waitQueue' : i < j => waitQueue'[i] < waitQueue'[j]
        BY <2>1, <1>1, NewTicketIsLast DEF QueueIsWaiting
      <3>2. \A i \in DOMAIN waitQueue' :
              \E u \in Waiting' : waitQueue'[i] = ticket'[u]
        <4> SUFFICES ASSUME NEW i \in DOMAIN waitQueue'
                     PROVE  \E u \in Waiting' : waitQueue'[i] = ticket'[u]
          OBVIOUS
        <4>1. CASE i = Len(waitQueue) + 1
          BY <4>1, <2>1, <2>2, <1>1, <1>2
        <4>2. CASE i \in 1 .. Len(waitQueue)
          <5>1. PICK u \in Waiting : waitQueue[i] = ticket[u]
            BY <4>2, <1>1 DEF QueueIsWaiting
          <5>2. u # t /\ u \in Threads /\ u \in Waiting'
            BY <2>2, <1>2, <1>3
          <5>3. waitQueue'[i] = ticket'[u]
            BY <5>1, <5>2, <4>2, <2>1, <1>1, <1>2
          <5>4. QED
            BY <5>2, <5>3
        <4>3. QED
          BY <4>1, <4>2, <2>1, <1>1
      <3>3. ASSUME NEW u \in Threads, u \in Waiting'
            PROVE  \E i \in DOMAIN waitQueue' : waitQueue'[i] = ticket'[u]
        <4>1. CASE u = t
          BY <4>1, <2>1, <1>1, <1>2
        <4>2. CASE u # t
          <5>1. u \in Waiting
            BY <4>2, <3>3, <2>2
          <5>2. PICK i \in DOMAIN waitQueue : waitQueue[i] = ticket[u]
            BY <5>1 DEF QueueIsWaiting
          <5>3. i \in DOMAIN waitQueue' /\ waitQueue'[i] = ticket'[u]
            BY <5>2, <4>2, <2>1, <1>1, <1>2
          <5>4. QED
            BY <5>3
        <4>3. QED
          BY <4>1, <4>2
      <3>4. ASSUME NEW u \in Threads, NEW i \in DOMAIN waitQueue',
                   waitQueue'[i] = ticket'[u]
            PROVE  u \in Waiting'
        BY <2>1, <2>2, <1>1, <1>2, <1>5, <3>2, <3>4
        DEF QueueIsWaiting, TypeOK, TicketsOnce, Waiting, In
      <3>5. QED
        BY <3>1, <3>2, <3>3, <3>4 DEF QueueIsWaiting
    <2>6. GrantsFollowTickets'
      BY <2>2, <1>2, <1>3, <1>4 DEF GrantsFollowTickets
    <2>7. QED
      BY <1>5, <2>3, <2>4, <2>5, <2>6
  <1>8. QED
    BY <1>6, <1>7

\* What the queue holds after its front, the ticket of t, has left it.
LEMMA FrontLeaves ==
  ASSUME IInv, NEW t \in Waiting, waitQueue # <<>>,
         Head(waitQueue) = ticket[t], waitQueue' = Tail(waitQueue),
         UNCHANGED ticket, Waiting' = Waiting \ {t}
  PROVE  QueueIsWaiting' /\ waitQueue' \in Seq(Nat)
  <1> USE DEF IInv
  <1>1. /\ Len(waitQueue) >= 1 /\ Len(waitQueue) \in Nat
        /\ DOMAIN waitQueue = 1 .. Len(waitQueue)
        /\ DOMAIN waitQueue' = 1 .. Len(waitQueue) - 1
        /\ \A i \in 1 .. Len(waitQueue) - 1 : waitQueue'[i] = waitQueue[i + 1]
        /\ waitQueue[1] = ticket[t]
        /\ waitQueue' \in Seq(Nat)
    BY DequeuedQueue DEF TypeOK
  <1>2. t \in Threads /\ Waiting \subseteq Threads
    BY DEF Waiting, In
  <1>3. \A i, j \in DOMAIN waitQueue' : i < j => waitQueue'[i] < waitQueue'[j]
    BY <1>1 DEF QueueIsWaiting
  <1>4. ASSUME NEW i \in DOMAIN waitQueue'
        PROVE  \E u \in Waiting' : waitQueue'[i] = ticket'[u]
    <2>1. i + 1 \in DOMAIN waitQueue /\ waitQueue'[i] = waitQueue[i + 1]
      BY <1>1
    <2>2. PICK u \in Waiting : waitQueue[i + 1] = ticket[u]
      BY <2>1 DEF QueueIsWaiting
    <2>3. waitQueue[1] < waitQueue[i + 1]
      BY <2>1, <1>1 DEF QueueIsWaiting
    <2>4. waitQueue[1] \in Nat /\ waitQueue[i + 1] \in Nat
      BY <2>1, <1>1 DEF TypeOK
    <2>5. u # t
      BY <2>2, <2>3, <2>4, <1>1
    <2>6. QED
      BY <2>1, <2>2, <2>5
  <1>5. ASSUME NEW u \in Threads, u \in Waiting'
        PROVE  \E i \in DOMAIN waitQueue' : waitQueue'[i] = ticket'[u]
    <2>1. u \in Waiting /\ u # t
      BY <1>5
    <2>2. PICK i \in DOMAIN waitQueue : waitQueue[i] = ticket[u]
      BY <2>1 DEF QueueIsWaiting
    <2>3. ticket[u] # ticket[t]
      BY <2>1, <1>2 DEF TicketsOnce, Waiting, In
    <2>4. i # 1 /\ i \in 1 .. Len(waitQueue)
      BY <2>2, <2>3, <1>1
    <2>5. i - 1 \in DOMAIN waitQueue' /\ waitQueue'[i - 1] = waitQueue[i]
      BY <2>4, <1>1
    <2>6. QED
      BY <2>2, <2>5
  <1>6. ASSUME NEW u \in Threads, NEW i \in DOMAIN waitQueue',
               waitQueue'[i] = ticket'[u]
        PROVE  u \in Waiting'
    <2>1. PICK v \in Waiting' : waitQueue'[i] = ticket'[v]
      BY <1>4
    <2>2. v \in Threads /\ ticket[v] = ticket[u] /\ ticket[v] # -1
      BY <2>1, <1>2, <1>6 DEF TicketsOnce, TypeOK, Waiting, In
    <2>3. u = v
      BY <2>2 DEF TicketsOnce
    <2>4. QED
      BY <2>1, <2>3
  <1>7. QED
    BY <1>1, <1>3, <1>4, <1>5, <1>6 DEF QueueIsWaiting

LEMMA RecheckInv == ASSUME IInv, NEW t \in Threads, Recheck(t) PROVE IInv'
  <1> USE DEF IInv
  <1>1. t \in Waiting /\ t \notin Holders /\ t \notin Granted /\ pc[t] = "woken"
    BY DEF Recheck, Waiting, Holders, Granted, In
  <1>2. UNCHANGED <<nextTicket, ticket>>
    BY DEF Recheck
  <1>3. CASE MayPass(ticket[t], waitQueue)
    <2>1. /\ waitQueue' = Tail(waitQueue) /\ count' = count - 1
          /\ pc' = [pc EXCEPT ![t] = "holding"]
          /\ count > 0 /\ Head(waitQueue) = ticket[t]
      BY <1>3 DEF Recheck, MayPass
    <2>2. waitQueue # <<>>
      BY <1>1 DEF QueueIsWaiting
    <2>3. /\ Holders' = Holders \cup {t} /\ Granted' = Granted \cup {t}
          /\ Waiting' = Waiting \ {t}
      BY <2>1, <1>1 DEF TypeOK, Holders, Granted, Waiting, In
    <2>4. PermitsConserved' /\ count' \in 0 .. Capacity
      BY <2>1, <2>3, <1>1, PassCount
    <2>5. QueueIsWaiting' /\ waitQueue' \in Seq(Nat)
      BY <2>1, <2>2, <2>3, <1>1, <1>2, FrontLeaves
    <2>6. pc' \in [Threads -> Places]
      BY <2>1 DEF TypeOK, Places
    <2>7. TypeOK'
      BY <2>4, <2>5, <2>6, <1>2 DEF TypeOK
    <2>8. TicketsOnce'
      BY <2>1, <1>1, <1>2 DEF TypeOK, TicketsOnce
    <2>9. \A u \in Waiting' : ticket[t] < ticket[u]
      BY <2>1, <2>2, <2>3, <1>1, FrontIsSmallest
    <2>10. GrantsFollowTickets'
      BY <2>3, <2>9, <1>2 DEF GrantsFollowTickets
    <2>11. QED
      BY <2>4, <2>5, <2>7, <2>8, <2>10
  <1>4. CASE ~MayPass(ticket[t], waitQueue)
    <2>1. pc' = [pc EXCEPT ![t] = "asleep"] /\ UNCHANGED <<waitQueue, count>>
      BY <1>4 DEF Recheck
    <2>2. pc' \in [Threads -> Places]
      BY <2>1 DEF TypeOK, Places
    <2>3. QED
      BY <2>1, <2>2, <1>1, <1>2, QuietStep
      DEF TypeOK, Holders, Waiting, Granted, In
  <1>5. QED
    BY <1>3, <1>4

\* The invariant is inductive.
LEMMA StepInv == IInv /\ [Next]_vars => IInv'
  <1> SUFFICES ASSUME IInv, [Next]_vars
               PROVE  IInv'
    OBVIOUS
  <1>1. CASE UNCHANGED vars
    BY <1>1 DEF vars, IInv, TypeOK, PermitsConserved, TicketsOnce,
                QueueIsWaiting, GrantsFollowTickets, Waiting, Holders, Granted, In
  <1>2. ASSUME NEW t \in Threads,
               \/ Spawn(t) \/ Acquire(t) \/ Recheck(t)
               \/ SpuriousWake(t) \/ Release(t) \/ NotifyAll(t)
        PROVE  IInv'
    BY <1>2, SpawnInv, AcquireInv, RecheckInv, SpuriousWakeInv, ReleaseInv,
       NotifyAllInv
  <1>3. QED
    BY <1>1, <1>2 DEF Next

\* The semaphore keeps its inductive invariant.
THEOREM Invariance == Spec => []IInv
  BY InitInv, StepInv, PTL DEF Spec

\* Every variable keeps its type; in particular count_ never leaves
\* 0 .. Capacity.
THEOREM TypeCorrect == Spec => []TypeOK
  <1>1. IInv => TypeOK
    BY DEF IInv
  <1>2. QED
    BY <1>1, Invariance, PTL

\* No interleaving of acquire() and release() loses a permit or makes one up.
THEOREM PermitsAreConserved == Spec => []PermitsConserved
  <1>1. IInv => PermitsConserved
    BY DEF IInv
  <1>2. QED
    BY <1>1, Invariance, PTL

\* Permits are granted in the order in which acquire() was called.
THEOREM FirstComeFirstServed == Spec => []GrantsFollowTickets
  <1>1. IInv => GrantsFollowTickets
    BY DEF IInv
  <1>2. QED
    BY <1>1, Invariance, PTL

----------------------------------------------------------------------------
\* A step after which a sleeping front of the queue is one that slept there
\* before, or somebody holds a permit.
LEMMA FrontStep ==
  ASSUME IInv, FrontWillBeWoken, [Next]_vars
  PROVE  FrontWillBeWoken'
  <1> USE DEF IInv
  <1>1. IInv'
    BY StepInv
  <1>2. CASE UNCHANGED vars
    BY <1>2 DEF vars, FrontWillBeWoken, In
  <1>3. ASSUME NEW t \in Threads, t \in Holders' PROVE FrontWillBeWoken'
    BY <1>3 DEF FrontWillBeWoken, Holders, In
  <1>4. ASSUME count' = 0 PROVE FrontWillBeWoken'
    <2>1. Holders' # {}
      BY <1>1, <1>4, FS_EmptySet, CapacityAssumption DEF PermitsConserved
    <2>2. QED
      BY <2>1, <1>3 DEF Holders, In
  <1>5. ASSUME NEW t \in Threads, Spawn(t) PROVE FrontWillBeWoken'
    BY <1>5 DEF Spawn, TypeOK, FrontWillBeWoken, In
  <1>6. ASSUME NEW t \in Threads, SpuriousWake(t) PROVE FrontWillBeWoken'
    BY <1>6 DEF SpuriousWake, TypeOK, FrontWillBeWoken, In
  <1>7. ASSUME NEW t \in Threads, Release(t) PROVE FrontWillBeWoken'
    BY <1>7 DEF Release, TypeOK, FrontWillBeWoken, In
  <1>8. ASSUME NEW t \in Threads, NotifyAll(t) PROVE FrontWillBeWoken'
    BY <1>8 DEF NotifyAll, TypeOK, FrontWillBeWoken, In
  <1>9. ASSUME NEW t \in Threads, Recheck(t) PROVE FrontWillBeWoken'
    <2>1. CASE MayPass(ticket[t], waitQueue)
      BY <2>1, <1>9, <1>3 DEF Recheck, TypeOK, Holders, In
    <2>2. CASE ~MayPass(ticket[t], waitQueue) /\ count # 0
      <3>1. UNCHANGED <<waitQueue, ticket, count>>
        BY <2>2, <1>9 DEF Recheck
      <3>2. Head(waitQueue) # ticket[t]
        BY <2>2, CapacityAssumption DEF MayPass, TypeOK
      <3>3. In({"holding", "released"})' = In({"holding", "released"})
        BY <2>2, <1>9 DEF Recheck, TypeOK, In
      <3>4. \A u \in Threads : u # t => pc'[u] = pc[u]
        BY <2>2, <1>9 DEF Recheck, TypeOK
      <3>5. QED
        BY <3>1, <3>2, <3>3, <3>4 DEF FrontWillBeWoken
    <2>3. CASE ~MayPass(ticket[t], waitQueue) /\ count = 0
      BY <2>3, <1>9, <1>4 DEF Recheck
    <2>4. QED
      BY <2>1, <2>2, <2>3
  <1>10. ASSUME NEW t \in Threads, Acquire(t) PROVE FrontWillBeWoken'
    <2> DEFINE queue == Append(waitQueue, nextTicket)
    <2>1. CASE MayPass(nextTicket, queue)
      BY <2>1, <1>10, <1>3 DEF Acquire, TypeOK, Holders, In
    <2>2. CASE ~MayPass(nextTicket, queue) /\ count # 0
      <3>1. /\ waitQueue' = queue /\ pc' = [pc EXCEPT ![t] = "asleep"]
            /\ ticket' = [ticket EXCEPT ![t] = nextTicket]
        BY <2>2, <1>10 DEF Acquire
      <3>2. Head(queue) # nextTicket
        BY <2>2, CapacityAssumption DEF MayPass, TypeOK
      <3>3. /\ Len(queue) = Len(waitQueue) + 1 /\ Len(waitQueue) \in Nat
            /\ queue \in Seq(Nat) /\ queue # <<>>
            /\ \A i \in 1 .. Len(waitQueue) : queue[i] = waitQueue[i]
            /\ queue[Len(waitQueue) + 1] = nextTicket
        BY AppendedQueue DEF TypeOK
      <3>4. Head(queue) = queue[1]
        BY <3>3, DequeuedQueue
      <3>5. waitQueue # <<>> /\ Head(waitQueue) = Head(queue)
        <4>1. Len(waitQueue) # 0
          BY <3>2, <3>3, <3>4
        <4>2. waitQueue # <<>>
          BY <4>1
        <4>3. QED
          BY <4>1, <4>2, <3>3, <3>4, DequeuedQueue DEF TypeOK
      <3>6. In({"holding", "released"})' = In({"holding", "released"})
        BY <3>1, <1>10 DEF Acquire, TypeOK, In
      <3>7. \A u \in Threads :
              u # t => pc'[u] = pc[u] /\ ticket'[u] = ticket[u]
        BY <3>1 DEF TypeOK
      <3>8. ticket'[t] # Head(waitQueue')
        BY <3>1, <3>2 DEF TypeOK
      <3>9. QED
        BY <3>1, <3>5, <3>6, <3>7, <3>8 DEF FrontWillBeWoken
    <2>3. CASE ~MayPass(nextTicket, queue) /\ count = 0
      BY <2>3, <1>10, <1>4 DEF Acquire
    <2>4. QED
      BY <2>1, <2>2, <2>3
  <1>11. QED
    BY <1>2, <1>5, <1>6, <1>7, <1>8, <1>9, <1>10 DEF Next

\* No notification is lost for good, although it is sent after the mutex was
\* given up and although a woken thread that is not at the front sleeps again.
THEOREM NoLostWakeUp == Spec => []FrontWillBeWoken
  <1>1. Init => FrontWillBeWoken
    BY DEF Init, FrontWillBeWoken
  <1>2. IInv /\ FrontWillBeWoken /\ [Next]_vars => FrontWillBeWoken'
    BY FrontStep
  <1>3. QED
    BY <1>1, <1>2, Invariance, PTL DEF Spec

----------------------------------------------------------------------------
\* FifoSemaphore implements PermitLine: the refinement mapping of the module,
\* under names of its own.
LineOf == [i \in DOMAIN waitQueue |-> TicketHolder(waitQueue[i])]
GoneOf == In({"released", "done"})

\* A ticket names its thread.
LEMMA HolderOfTicket ==
  ASSUME IInv, NEW t \in Threads, ticket[t] # -1
  PROVE  TicketHolder(ticket[t]) = t
  BY DEF IInv, TicketsOnce, TicketHolder

\* The line is a sequence of waiting threads.
LineProperties ==
  /\ LineOf \in Seq(Threads)
  /\ Len(LineOf) = Len(waitQueue)
  /\ \A i \in 1 .. Len(waitQueue) :
       /\ LineOf[i] \in Waiting
       /\ ticket[LineOf[i]] = waitQueue[i]

LEMMA LineIsSeq == IInv => LineProperties
  <1> SUFFICES ASSUME IInv
               PROVE  LineProperties
    OBVIOUS
  <1> USE DEF IInv
  <1>1. DOMAIN waitQueue = 1 .. Len(waitQueue) /\ Len(waitQueue) \in Nat
    BY DEF TypeOK
  <1>2. ASSUME NEW i \in 1 .. Len(waitQueue)
        PROVE  LineOf[i] \in Waiting /\ ticket[LineOf[i]] = waitQueue[i]
    <2>1. PICK t \in Waiting : waitQueue[i] = ticket[t]
      BY <1>1 DEF QueueIsWaiting
    <2>2. t \in Threads /\ ticket[t] # -1
      BY <2>1 DEF TicketsOnce, TypeOK, Waiting, In
    <2>3. LineOf[i] = t
      BY <2>1, <2>2, <1>1, HolderOfTicket DEF LineOf
    <2>4. QED
      BY <2>1, <2>3
  <1>3. Waiting \subseteq Threads
    BY DEF Waiting, In
  <1>4. LineOf = [i \in 1 .. Len(waitQueue) |-> LineOf[i]]
    BY <1>1 DEF LineOf
  <1>5. LineOf \in Seq(Threads)
    BY <1>1, <1>2, <1>3, <1>4
  <1>6. Len(LineOf) = Len(waitQueue)
    BY <1>1, <1>4, <1>5, LenProperties
  <1>7. QED
    BY <1>2, <1>5, <1>6 DEF LineProperties

LEMMA LineIsSeqNext == IInv' => LineProperties'
  BY LineIsSeq, PTL

\* A queued thread stays the holder of its ticket.
LEMMA LineStep ==
  ASSUME IInv, IInv', NEW i \in DOMAIN waitQueue, NEW j \in DOMAIN waitQueue',
         waitQueue'[j] = waitQueue[i],
         \A t \in Waiting : ticket'[t] = ticket[t]
  PROVE  LineOf'[j] = LineOf[i]
  <1> USE DEF IInv
  <1>1. PICK t \in Waiting : waitQueue[i] = ticket[t]
    BY DEF QueueIsWaiting
  <1>2. t \in Threads /\ ticket[t] # -1 /\ ticket'[t] = ticket[t]
    BY <1>1 DEF TicketsOnce, TypeOK, Waiting, In
  <1>3. TicketHolder(ticket[t]) = t
    BY <1>2, HolderOfTicket
  <1>4. \A u \in Threads : ticket'[u] = ticket'[t] => u = t
    BY <1>2 DEF TicketsOnce
  <1>5. (CHOOSE u \in Threads : ticket'[u] = waitQueue'[j]) = t
    BY <1>1, <1>2, <1>4
  <1>6. LineOf'[j] = t
    BY <1>5 DEF LineOf, TicketHolder
  <1>7. LineOf[i] = t
    BY <1>1, <1>3 DEF LineOf
  <1>8. QED
    BY <1>6, <1>7

LEMMA RoomInside == ASSUME IInv, count > 0
                    PROVE  Cardinality(Holders) < Capacity
  BY HoldersCount, CapacityAssumption DEF IInv, TypeOK, PermitsConserved

LEMMA InitRefines == Init => Line!Init
  BY DEF Init, Line!Init, Holders, In

LEMMA AcquireRefines ==
  ASSUME IInv, IInv', NEW t \in Threads, Acquire(t)
  PROVE  Line!Next
  <1> DEFINE queue == Append(waitQueue, nextTicket)
  <1> USE DEF IInv
  <1>1. t \notin Holders \cup GoneOf /\ t \notin Waiting
    BY DEF Acquire, Holders, Waiting, GoneOf, In
  <1>2. \A u \in Threads : u # t => ticket'[u] = ticket[u]
    BY DEF Acquire, TypeOK
  <1>3. \A u \in Waiting : u \in Threads /\ u # t
    BY <1>1 DEF Waiting, In
  <1>4. CASE MayPass(nextTicket, queue)
    <2>1. /\ waitQueue' = Tail(queue) /\ count > 0
          /\ pc' = [pc EXCEPT ![t] = "holding"] /\ Head(queue) = nextTicket
      BY <1>4 DEF Acquire, MayPass
    <2>2. waitQueue = <<>>
      <3>1. queue[1] = nextTicket /\ Len(waitQueue) \in Nat
        BY <2>1, AppendedQueue, DequeuedQueue DEF TypeOK
      <3>2. Len(waitQueue) = 0
        BY <3>1, AppendedQueue, NewTicketIsLast DEF TypeOK
      <3>3. QED
        BY <3>2 DEF TypeOK
    <2>3. waitQueue' = <<>>
      BY <2>1, <2>2
    <2>4. LineOf = <<>> /\ LineOf' = <<>>
      BY <2>2, <2>3 DEF LineOf
    <2>5. Holders' = Holders \cup {t} /\ GoneOf' = GoneOf
      BY <2>1, <1>1 DEF TypeOK, Holders, GoneOf, Acquire, In
    <2>6. Cardinality(Holders) < Capacity
      BY <2>1, RoomInside
    <2>7. Line!WalkIn(t)
      BY <2>4, <2>5, <2>6, <1>1 DEF Line!WalkIn, Line!Cardinality, Cardinality, LineOf, GoneOf
    <2>8. QED
      BY <2>7 DEF Line!Next
  <1>5. CASE ~MayPass(nextTicket, queue)
    <2>1. /\ waitQueue' = queue /\ pc' = [pc EXCEPT ![t] = "asleep"]
          /\ ticket'[t] = nextTicket
      BY <1>5 DEF Acquire, TypeOK
    <2>2. /\ DOMAIN waitQueue = 1 .. Len(waitQueue)
          /\ DOMAIN waitQueue' = 1 .. Len(waitQueue) + 1
          /\ Len(waitQueue') = Len(waitQueue) + 1
          /\ waitQueue'[Len(waitQueue) + 1] = nextTicket
          /\ \A i \in 1 .. Len(waitQueue) : waitQueue'[i] = waitQueue[i]
          /\ Len(waitQueue) \in Nat
      BY <2>1, AppendedQueue DEF TypeOK
    <2>3. Holders' = Holders /\ GoneOf' = GoneOf
      BY <2>1, <1>1 DEF TypeOK, Holders, GoneOf, Acquire, In
    <2>4. /\ LineOf \in Seq(Threads) /\ Len(LineOf) = Len(waitQueue)
          /\ \A i \in 1 .. Len(waitQueue) : LineOf[i] \in Waiting
      BY LineIsSeq DEF LineProperties
    <2>5. \A i \in 1 .. Len(waitQueue) : LineOf'[i] = LineOf[i]
      BY <2>2, <1>2, <1>3, LineStep
    <2>6. LineOf'[Len(waitQueue) + 1] = t
      <3>1. ticket'[t] # -1 /\ \A u \in Threads : ticket'[u] = ticket'[t] => u = t
        BY <2>1 DEF TicketsOnce, TypeOK
      <3>2. (CHOOSE u \in Threads : ticket'[u] = nextTicket) = t
        BY <3>1, <2>1
      <3>3. QED
        BY <3>2, <2>2 DEF LineOf, TicketHolder
    <2>7. LineOf' = Append(LineOf, t)
      <3>1. LineOf' \in Seq(Threads) /\ Len(LineOf') = Len(waitQueue) + 1
        BY <2>2, LineIsSeqNext DEF LineProperties
      <3>2. /\ Append(LineOf, t) \in Seq(Threads)
            /\ Len(Append(LineOf, t)) = Len(waitQueue) + 1
            /\ \A i \in 1 .. Len(waitQueue) : Append(LineOf, t)[i] = LineOf[i]
            /\ Append(LineOf, t)[Len(waitQueue) + 1] = t
        BY <2>4, AppendProperties
      <3>3. \A i \in 1 .. Len(waitQueue) + 1 : LineOf'[i] = Append(LineOf, t)[i]
        BY <3>2, <2>2, <2>5, <2>6
      <3>4. QED
        BY <3>1, <3>2, <3>3, SeqEqual
    <2>8. t \notin {LineOf[i] : i \in DOMAIN LineOf}
      BY <2>4, <1>1, LenProperties
    <2>9. Line!Join(t)
      BY <2>3, <2>7, <2>8, <1>1 DEF Line!Join, Line!InLine, LineOf, GoneOf
    <2>10. QED
      BY <2>9 DEF Line!Next
  <1>6. QED
    BY <1>4, <1>5

LEMMA RecheckRefines ==
  ASSUME IInv, IInv', NEW t \in Threads, Recheck(t),
         MayPass(ticket[t], waitQueue)
  PROVE  Line!Next
  <1> USE DEF IInv
  <1>1. /\ waitQueue' = Tail(waitQueue) /\ count > 0
        /\ pc' = [pc EXCEPT ![t] = "holding"] /\ pc[t] = "woken"
        /\ Head(waitQueue) = ticket[t] /\ ticket' = ticket
    BY DEF Recheck, MayPass
  <1>2. t \in Waiting
    BY <1>1 DEF Waiting, In
  <1>3. waitQueue # <<>>
    BY <1>2 DEF QueueIsWaiting, Waiting, In
  <1>4. Holders' = Holders \cup {t} /\ GoneOf' = GoneOf
    BY <1>1 DEF TypeOK, Holders, GoneOf, In
  <1>5. /\ Len(waitQueue) \in Nat /\ Len(waitQueue) >= 1
        /\ Len(waitQueue') = Len(waitQueue) - 1
        /\ DOMAIN waitQueue = 1 .. Len(waitQueue)
        /\ DOMAIN waitQueue' = 1 .. Len(waitQueue) - 1
        /\ \A i \in 1 .. Len(waitQueue) - 1 : waitQueue'[i] = waitQueue[i + 1]
        /\ waitQueue[1] = ticket[t]
    BY <1>1, <1>3, DequeuedQueue DEF TypeOK
  <1>6. /\ LineOf \in Seq(Threads) /\ Len(LineOf) = Len(waitQueue)
        /\ LineOf' \in Seq(Threads) /\ Len(LineOf') = Len(waitQueue) - 1
    BY <1>5, LineIsSeq, LineIsSeqNext DEF LineProperties
  <1>7. LineOf # <<>>
    BY <1>5, <1>6, EmptySeq
  <1>8. Head(LineOf) = t
    <2>1. Head(LineOf) = LineOf[1]
      BY <1>6, <1>7
    <2>2. ticket[t] # -1
      BY <1>1 DEF TicketsOnce, TypeOK
    <2>3. LineOf[1] = TicketHolder(ticket[t])
      BY <1>5 DEF LineOf
    <2>4. QED
      BY <2>1, <2>2, <2>3, HolderOfTicket
  <1>9. LineOf' = Tail(LineOf)
    <2>1. /\ Tail(LineOf) \in Seq(Threads)
          /\ Len(Tail(LineOf)) = Len(waitQueue) - 1
          /\ \A i \in 1 .. Len(waitQueue) - 1 : Tail(LineOf)[i] = LineOf[i + 1]
      BY <1>6, <1>7, HeadTailProperties
    <2>2. \A i \in 1 .. Len(waitQueue) - 1 : LineOf'[i] = LineOf[i + 1]
      BY <1>1, <1>5, LineStep
    <2>3. QED
      BY <2>1, <2>2, <1>6, SeqEqual
  <1>10. Cardinality(Holders) < Capacity
    BY <1>1, RoomInside
  <1>11. Line!Admit
    BY <1>4, <1>7, <1>8, <1>9, <1>10
    DEF Line!Admit, Line!Cardinality, Cardinality, LineOf, GoneOf
  <1>12. QED
    BY <1>11 DEF Line!Next

\* A step that leaves the queue and the tickets alone, and moves no thread
\* into or out of a permit, is a stutter of the line.
LEMMA QuietRefines ==
  ASSUME UNCHANGED <<waitQueue, ticket>>, Holders' = Holders, GoneOf' = GoneOf
  PROVE  UNCHANGED Line!lvars
  BY DEF Line!lvars, GoneOf, TicketHolder

LEMMA StepRefines == IInv /\ IInv' /\ [Next]_vars => [Line!Next]_(Line!lvars)
  <1> SUFFICES ASSUME IInv, IInv', [Next]_vars
               PROVE  Line!Next \/ UNCHANGED Line!lvars
    OBVIOUS
  <1> USE DEF IInv
  <1>1. CASE UNCHANGED vars
    BY <1>1, QuietRefines DEF vars, Holders, GoneOf, In
  <1>2. ASSUME NEW t \in Threads, Spawn(t) PROVE UNCHANGED Line!lvars
    BY <1>2, QuietRefines DEF Spawn, TypeOK, Holders, GoneOf, In
  <1>3. ASSUME NEW t \in Threads, SpuriousWake(t) PROVE UNCHANGED Line!lvars
    BY <1>3, QuietRefines DEF SpuriousWake, TypeOK, Holders, GoneOf, In
  <1>4. ASSUME NEW t \in Threads, NotifyAll(t) PROVE UNCHANGED Line!lvars
    BY <1>4, QuietRefines DEF NotifyAll, TypeOK, Holders, GoneOf, In
  <1>5. ASSUME NEW t \in Threads, Release(t) PROVE Line!Next
    <2>1. /\ t \in Holders /\ Holders' = Holders \ {t}
          /\ GoneOf' = GoneOf \cup {t}
      BY <1>5 DEF Release, TypeOK, Holders, GoneOf, In
    <2>2. Line!Leave(t)
      BY <1>5, <2>1 DEF Line!Leave, Release, GoneOf, TicketHolder
    <2>3. QED
      BY <2>2 DEF Line!Next
  <1>6. ASSUME NEW t \in Threads, Recheck(t)
        PROVE  Line!Next \/ UNCHANGED Line!lvars
    <2>1. CASE MayPass(ticket[t], waitQueue)
      BY <2>1, <1>6, RecheckRefines
    <2>2. CASE ~MayPass(ticket[t], waitQueue)
      BY <2>2, <1>6, QuietRefines DEF Recheck, TypeOK, Holders, GoneOf, In
    <2>3. QED
      BY <2>1, <2>2
  <1>7. ASSUME NEW t \in Threads, Acquire(t) PROVE Line!Next
    BY <1>7, AcquireRefines
  <1>8. QED
    BY <1>1, <1>2, <1>3, <1>4, <1>5, <1>6, <1>7 DEF Next

\* The safety part of the refinement: whatever the threads do, the semaphore
\* behaves as a line of people before a room with Capacity places.
THEOREM ImplementsLine == Spec => Line!Spec
BY InitRefines, StepRefines, Invariance, PTL DEF Spec, Line!Spec
============================================================================
