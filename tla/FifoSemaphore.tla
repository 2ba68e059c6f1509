--------------------------- MODULE FifoSemaphore ---------------------------
(***************************************************************************)
(* FifoSemaphore of src/src/coordinator/repair.cpp: a mutex, a condition   *)
(* variable, a permit count and a queue of tickets.  It bounds how many    *)
(* help_repair RPCs the flow repair of the coordinator keeps in flight:    *)
(* every help thread acquires a permit, performs its RPC and releases.     *)
(*                                                                         *)
(* What a thread does while it holds the mutex is one step.  Waiting on    *)
(* the condition variable gives the mutex up, so being notified (asleep to *)
(* woken) and evaluating the predicate again (Recheck) are two steps, and  *)
(* release() notifies after it has given the mutex up, so the increment    *)
(* (Release) and the notification (NotifyAll) are two steps as well.       *)
(***************************************************************************)
EXTENDS Integers, Sequences, FiniteSets

CONSTANTS
  NThreads,   \* help threads the dispatcher creates, numbered in that order
  Capacity    \* the permits the semaphore is constructed with

ASSUME NThreadsAssumption == NThreads \in Nat
\* help_rpc_cap is replaced by hardware_concurrency() or 4 when it is not
\* positive, so a semaphore always has a permit.
ASSUME CapacityAssumption == Capacity \in Nat \ {0}

Threads == 1 .. NThreads

VARIABLES
  pc,         \* where each thread stands
  count,      \* count_
  waitQueue,  \* wait_queue_, tickets
  nextTicket, \* next_ticket_
  ticket      \* the local variable of acquire(), -1 before the call

vars == <<pc, count, waitQueue, nextTicket, ticket>>

\* "unborn" and "started": before acquire(); "asleep": in cv_.wait;
\* "woken": notified, does not have the mutex yet; "holding": returned from
\* acquire(), the RPC is in flight; "released": count_ incremented, not yet
\* notified; "done": returned from release().
Places == {"unborn", "started", "asleep", "woken", "holding", "released", "done"}

TypeOK ==
  /\ pc \in [Threads -> Places]
  /\ count \in 0 .. Capacity
  /\ waitQueue \in Seq(Nat)
  /\ nextTicket \in Nat
  /\ ticket \in [Threads -> Nat \cup {-1}]

In(places) == {t \in Threads : pc[t] \in places}
Waiting    == In({"asleep", "woken"})
Holders    == In({"holding"})
Granted    == In({"holding", "released", "done"})

----------------------------------------------------------------------------
Init ==
  /\ pc = [t \in Threads |-> "unborn"]
  /\ count = Capacity
  /\ waitQueue = <<>>
  /\ nextTicket = 0
  /\ ticket = [t \in Threads |-> -1]

\* The dispatcher creates the threads one after the other.
Spawn(t) ==
  /\ pc[t] = "unborn"
  /\ \A u \in Threads : u < t => pc[u] # "unborn"
  /\ pc' = [pc EXCEPT ![t] = "started"]
  /\ UNCHANGED <<count, waitQueue, nextTicket, ticket>>

\* Mutants of MayPass: the permit, or the place in the queue, is not looked at.
MayPassNoPermit(k, queue)  == Head(queue) = k
MayPassAnyTicket(k, queue) == count > 0

\* The predicate acquire() waits for, of ticket k.
MayPass(k, queue) == count > 0 /\ Head(queue) = k

\* Mutant of Acquire: a newcomer takes a free permit past the queue.
AcquireBarges(t) ==
  /\ pc[t] = "started"
  /\ ticket' = [ticket EXCEPT ![t] = nextTicket]
  /\ nextTicket' = nextTicket + 1
  /\ \/ /\ count > 0
        /\ count' = count - 1
        /\ pc' = [pc EXCEPT ![t] = "holding"]
        /\ UNCHANGED waitQueue
     \/ /\ count = 0
        /\ waitQueue' = Append(waitQueue, nextTicket)
        /\ pc' = [pc EXCEPT ![t] = "asleep"]
        /\ UNCHANGED count

\* acquire(): take a ticket and queue it; then pass, or wait.
Acquire(t) ==
  /\ pc[t] = "started"
  /\ ticket' = [ticket EXCEPT ![t] = nextTicket]
  /\ nextTicket' = nextTicket + 1
  /\ LET queue == Append(waitQueue, nextTicket)
     IN \/ /\ MayPass(nextTicket, queue)
           /\ waitQueue' = Tail(queue)
           /\ count' = count - 1
           /\ pc' = [pc EXCEPT ![t] = "holding"]
        \/ /\ ~MayPass(nextTicket, queue)
           /\ waitQueue' = queue
           /\ pc' = [pc EXCEPT ![t] = "asleep"]
           /\ UNCHANGED count

\* Mutant of Recheck: a thread that had to wait does not take the permit away.
RecheckKeepsCount(t) ==
  /\ pc[t] = "woken"
  /\ \/ /\ MayPass(ticket[t], waitQueue)
        /\ waitQueue' = Tail(waitQueue)
        /\ pc' = [pc EXCEPT ![t] = "holding"]
     \/ /\ ~MayPass(ticket[t], waitQueue)
        /\ pc' = [pc EXCEPT ![t] = "asleep"]
        /\ UNCHANGED waitQueue
  /\ UNCHANGED <<count, nextTicket, ticket>>

\* A woken thread gets the mutex back and evaluates the predicate again.
Recheck(t) ==
  /\ pc[t] = "woken"
  /\ \/ /\ MayPass(ticket[t], waitQueue)
        /\ waitQueue' = Tail(waitQueue)
        /\ count' = count - 1
        /\ pc' = [pc EXCEPT ![t] = "holding"]
     \/ /\ ~MayPass(ticket[t], waitQueue)
        /\ pc' = [pc EXCEPT ![t] = "asleep"]
        /\ UNCHANGED <<waitQueue, count>>
  /\ UNCHANGED <<nextTicket, ticket>>

\* A condition variable may wake a waiter without a notification.
SpuriousWake(t) ==
  /\ pc[t] = "asleep"
  /\ pc' = [pc EXCEPT ![t] = "woken"]
  /\ UNCHANGED <<count, waitQueue, nextTicket, ticket>>

\* Mutant of Release: the notification is left out when a permit was free
\* already.
ReleaseNotifiesFirstOnly(t) ==
  /\ pc[t] = "holding"
  /\ count' = count + 1
  /\ pc' = [pc EXCEPT ![t] = IF count = 0 THEN "released" ELSE "done"]
  /\ UNCHANGED <<waitQueue, nextTicket, ticket>>

\* release(), first half: under the mutex.
Release(t) ==
  /\ pc[t] = "holding"
  /\ count' = count + 1
  /\ pc' = [pc EXCEPT ![t] = "released"]
  /\ UNCHANGED <<waitQueue, nextTicket, ticket>>

\* Mutant of NotifyAll: notify_one.
NotifyOne(t) ==
  /\ pc[t] = "released"
  /\ \/ /\ In({"asleep"}) = {}
        /\ pc' = [pc EXCEPT ![t] = "done"]
     \/ \E u \in In({"asleep"}) :
          pc' = [pc EXCEPT ![t] = "done", ![u] = "woken"]
  /\ UNCHANGED <<count, waitQueue, nextTicket, ticket>>

\* release(), second half: notify_all without the mutex.
NotifyAll(t) ==
  /\ pc[t] = "released"
  /\ pc' = [u \in Threads |-> CASE u = t            -> "done"
                                [] pc[u] = "asleep" -> "woken"
                                [] OTHER            -> pc[u]]
  /\ UNCHANGED <<count, waitQueue, nextTicket, ticket>>

Next ==
  \E t \in Threads :
    \/ Spawn(t)
    \/ Acquire(t)
    \/ Recheck(t)
    \/ SpuriousWake(t)
    \/ Release(t)
    \/ NotifyAll(t)

Spec == Init /\ [][Next]_vars

\* A thread that can run does run, and an RPC ends: it answers, fails or
\* meets its timeout.  Nothing makes a spurious wake-up happen.
Fairness ==
  \A t \in Threads :
    /\ WF_vars(Spawn(t))
    /\ WF_vars(Acquire(t))
    /\ WF_vars(Recheck(t))
    /\ WF_vars(Release(t))
    /\ WF_vars(NotifyAll(t))

FairSpec == Spec /\ Fairness

----------------------------------------------------------------------------
\* Permits are neither lost nor made up: the free ones and the ones held
\* always add up to the capacity, however acquire() and release() interleave.
PermitsConserved == count + Cardinality(Holders) = Capacity

\* Permits are granted in the order of the tickets: once a thread has passed
\* acquire(), no thread with an earlier ticket is still waiting.
GrantsFollowTickets ==
  \A t \in Granted, u \in Waiting : ticket[t] < ticket[u]

\* The queue holds exactly the tickets of the waiting threads, in order.
QueueIsWaiting ==
  /\ \A i, j \in DOMAIN waitQueue : i < j => waitQueue[i] < waitQueue[j]
  /\ \A t \in Threads :
       t \in Waiting <=> \E i \in DOMAIN waitQueue : waitQueue[i] = ticket[t]
  /\ \A i \in DOMAIN waitQueue : \E t \in Waiting : waitQueue[i] = ticket[t]

\* Nobody sleeps through a free permit for good: when the front of the queue
\* sleeps, a permit is still held or a notification is still under way (the
\* front may sleep although a permit is free: acquire() does not notify the
\* next thread after it has removed itself from the queue).
FrontWillBeWoken ==
  \A t \in Threads :
    (/\ pc[t] = "asleep" /\ waitQueue # <<>>
     /\ ticket[t] = Head(waitQueue))
      => In({"holding", "released"}) # {}

\* Every thread that is created gets its permit, and returns it.
EveryThreadServed == \A t \in Threads : <>(pc[t] = "done")

\* The comments at the semaphore and at its use in the ordered mode say that
\* the thread created first gets the permit first.
GrantsFollowCreation ==
  \A t, u \in Threads : t < u /\ u \in Granted => t \in Granted

----------------------------------------------------------------------------
(* What the semaphore promises: see PermitLine.                            *)
TicketHolder(k) == CHOOSE t \in Threads : ticket[t] = k

Line == INSTANCE PermitLine WITH
          line   <- [i \in DOMAIN waitQueue |-> TicketHolder(waitQueue[i])],
          inside <- Holders,
          gone   <- In({"released", "done"})

LineSpec == Line!FairSpec
============================================================================
