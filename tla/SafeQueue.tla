------------------------------- MODULE SafeQueue -------------------------------
(***************************************************************************)
(* SafeQueue.hpp: the queue between relayer threads, a std::queue guarded  *)
(* by the mutex m and the condition variable c.  The relayer reader and    *)
(* the thread that runs Manager::stop_relaying() (please_stop enqueues a   *)
(* null packet) are its producers, the relayer writer its consumer.        *)
(*                                                                         *)
(* enqueue() and dequeue() are cut at every access to shared state, so the *)
(* model does not presuppose that the critical sections are atomic.        *)
(***************************************************************************)
EXTENDS Naturals, Sequences, FiniteSets

CONSTANTS Producers,    \* threads that call enqueue()
          Consumers,    \* threads that call dequeue()
          Items,        \* what can be enqueued
          QUEUE_MAX,    \* SafeQueue.hpp:11, 10000 in the code
          NoThread,     \* the mutex is free
          NoItem        \* no dequeue() has returned yet

ASSUME ConstantsAssumption ==
    /\ IsFiniteSet(Consumers)
    /\ Producers \cap Consumers = {}
    /\ NoThread \notin Producers \cup Consumers
    /\ QUEUE_MAX \in Nat \ {0}

Threads == Producers \cup Consumers

VARIABLES q,            \* std::queue<T> q
          m,            \* owner of std::mutex m
          waiting,      \* threads blocked in c.wait()
          pc,           \* where each thread is in enqueue() or dequeue()
          arg,          \* arg[p]: the parameter t of enqueue()
          val           \* val[c]: the value the last dequeue() returned

vars == <<q, m, waiting, pc, arg, val>>

Fifo == INSTANCE PacketFifo

(***************************************************************************)
(* Program points.  "lock" waits for the mutex; a thread inside a critical *)
(* section is at one of CriticalPoints; "relock" has been woken in c.wait() *)
(* and takes the mutex again before it returns.                            *)
(***************************************************************************)
ProducerPoints == {"idle", "lock", "check", "push", "notify", "unlock"}
ConsumerPoints == {"idle", "lock", "test", "wait", "relock", "pop", "unlock"}
CriticalPoints == {"check", "push", "notify", "test", "pop", "unlock"}

Init == /\ q = <<>>
        /\ m = NoThread
        /\ waiting = {}
        /\ pc = [t \in Threads |-> "idle"]
        /\ arg \in [Producers -> Items]
        /\ val = [c \in Consumers |-> NoItem]

Goto(t, point) == pc' = [pc EXCEPT ![t] = point]

-----------------------------------------------------------------------------
(* enqueue(T t) *)

CallEnqueue(p, t) ==
    /\ pc[p] = "idle"
    /\ arg' = [arg EXCEPT ![p] = t]
    /\ Goto(p, "lock")
    /\ UNCHANGED <<q, m, waiting, val>>

(* std::lock_guard<std::mutex> lock(m) *)
LockProducer(p) ==
    /\ pc[p] = "lock"
    /\ m = NoThread
    /\ m' = p
    /\ Goto(p, "check")
    /\ UNCHANGED <<q, waiting, arg, val>>

(* Mutant: the size test is off by one.                                    *)
CheckSizeOffByOne(p) ==
    /\ pc[p] = "check"
    /\ IF Len(q) > QUEUE_MAX THEN Goto(p, "unlock") ELSE Goto(p, "push")
    /\ UNCHANGED <<q, m, waiting, arg, val>>

(* An empty queue is not compared with QUEUE_MAX; a full one drops t.      *)
CheckSize(p) ==
    /\ pc[p] = "check"
    /\ IF q # <<>> /\ Len(q) >= QUEUE_MAX THEN Goto(p, "unlock")
                                          ELSE Goto(p, "push")
    /\ UNCHANGED <<q, m, waiting, arg, val>>

Push(p) ==
    /\ pc[p] = "push"
    /\ q' = Append(q, arg[p])
    /\ Goto(p, "notify")
    /\ UNCHANGED <<m, waiting, arg, val>>

(* Mutant: notify only when the queue was empty before the push.           *)
NotifyWhenEmpty(p) ==
    /\ pc[p] = "notify"
    /\ \/ /\ waiting = {} \/ Len(q) > 1
          /\ Goto(p, "unlock")
          /\ UNCHANGED waiting
       \/ /\ Len(q) = 1
          /\ \E c \in waiting :
                /\ waiting' = waiting \ {c}
                /\ pc' = [pc EXCEPT ![p] = "unlock", ![c] = "relock"]
    /\ UNCHANGED <<q, m, arg, val>>

(* Mutant: no notification at all.                                         *)
NotifyNobody(p) ==
    /\ pc[p] = "notify"
    /\ Goto(p, "unlock")
    /\ UNCHANGED <<q, m, waiting, arg, val>>

(* c.notify_one(): wakes one thread in c.wait(), or nobody if none waits.  *)
NotifyOne(p) ==
    /\ pc[p] = "notify"
    /\ \/ /\ waiting = {}
          /\ Goto(p, "unlock")
          /\ UNCHANGED waiting
       \/ \E c \in waiting :
             /\ waiting' = waiting \ {c}
             /\ pc' = [pc EXCEPT ![p] = "unlock", ![c] = "relock"]
    /\ UNCHANGED <<q, m, arg, val>>

-----------------------------------------------------------------------------
(* dequeue() *)

CallDequeue(c) ==
    /\ pc[c] = "idle"
    /\ Goto(c, "lock")
    /\ UNCHANGED <<q, m, waiting, arg, val>>

(* std::unique_lock<std::mutex> lock(m), and the relock inside c.wait()    *)
LockConsumer(c) ==
    /\ pc[c] \in {"lock", "relock"}
    /\ m = NoThread
    /\ m' = c
    /\ Goto(c, "test")
    /\ UNCHANGED <<q, waiting, arg, val>>

(* while(q.empty()) c.wait(lock): the wait releases m and blocks at once.  *)
TestEmpty(c) ==
    /\ pc[c] = "test"
    /\ IF q = <<>>
         THEN /\ m' = NoThread
              /\ waiting' = waiting \cup {c}
              /\ Goto(c, "wait")
         ELSE /\ Goto(c, "pop")
              /\ UNCHANGED <<m, waiting>>
    /\ UNCHANGED <<q, arg, val>>

(* std::condition_variable may wake a waiter that nobody notified.         *)
SpuriousWakeup(c) ==
    /\ c \in waiting
    /\ waiting' = waiting \ {c}
    /\ Goto(c, "relock")
    /\ UNCHANGED <<q, m, arg, val>>

(* Mutant: the front is returned and not removed.                          *)
PopKeepsFront(c) ==
    /\ pc[c] = "pop"
    /\ val' = [val EXCEPT ![c] = Head(q)]
    /\ Goto(c, "unlock")
    /\ UNCHANGED <<q, m, waiting, arg>>

Pop(c) ==
    /\ pc[c] = "pop"
    /\ val' = [val EXCEPT ![c] = Head(q)]
    /\ q' = Tail(q)
    /\ Goto(c, "unlock")
    /\ UNCHANGED <<m, waiting, arg>>

(* The destructor of the lock, at every return of either function.         *)
Unlock(t) ==
    /\ pc[t] = "unlock"
    /\ m' = NoThread
    /\ Goto(t, "idle")
    /\ UNCHANGED <<q, waiting, arg, val>>

-----------------------------------------------------------------------------
ProducerStep(p) ==
    LockProducer(p) \/ CheckSize(p) \/ Push(p) \/ NotifyOne(p) \/ Unlock(p)
ConsumerStep(c) == LockConsumer(c) \/ TestEmpty(c) \/ Pop(c) \/ Unlock(c)

Next == \/ \E p \in Producers : ProducerStep(p) \/ \E t \in Items : CallEnqueue(p, t)
        \/ \E c \in Consumers : ConsumerStep(c) \/ CallDequeue(c) \/ SpuriousWakeup(c)

Spec == Init /\ [][Next]_vars

(***************************************************************************)
(* A thread inside a call keeps running, and one that finds the mutex free *)
(* again and again gets it.  Nobody has to call, and no spurious wakeup    *)
(* has to happen.                                                          *)
(***************************************************************************)
FairSpec ==
    /\ Spec
    /\ \A p \in Producers : WF_vars(ProducerStep(p)) /\ SF_vars(LockProducer(p))
    /\ \A c \in Consumers : WF_vars(ConsumerStep(c)) /\ SF_vars(LockConsumer(c))

-----------------------------------------------------------------------------
(* Types of the queue, the mutex and the threads' positions.  Between the  *)
(* size test and push() no other producer may slip in: the queue never     *)
(* holds more than QUEUE_MAX packets (SafeQueue.hpp:31).                   *)
TypeOK == /\ q \in Seq(Items) /\ Len(q) <= QUEUE_MAX
          /\ m \in Threads \cup {NoThread}
          /\ waiting \subseteq Consumers
          /\ pc \in [Threads -> ProducerPoints \cup ConsumerPoints]
          /\ \A p \in Producers : pc[p] \in ProducerPoints
          /\ \A c \in Consumers : pc[c] \in ConsumerPoints
          /\ arg \in [Producers -> Items]
          /\ val \in [Consumers -> Items \cup {NoItem}]

(* Consumers that will look at the queue again without being notified.     *)
Awake == {c \in Consumers : pc[c] \in {"relock", "test", "pop"}}
NotifyPending == \E p \in Producers : pc[p] = "notify"

(* No lost wakeup: while a consumer sleeps in c.wait(), every packet in    *)
(* the queue has an awake consumer of its own, or the producer that pushed *)
(* it is still about to call notify_one().  A consumer therefore never     *)
(* sleeps next to a packet that nobody else is about to take.              *)
NoLostWakeup ==
    waiting # {} => Len(q) <= Cardinality(Awake) + (IF NotifyPending THEN 1 ELSE 0)

(* The threaded queue implements the atomic channel of PacketFifo.tla, the *)
(* abstraction the relay modules are built on.                             *)
ImplementsFifo == Fifo!Spec

(* While the queue holds a packet and somebody is in dequeue(), a dequeue() *)
(* returns one: the relayer that sleeps there is always reached by a packet *)
(* or by the null packet of please_stop().                                  *)
DequeueReturns ==
    (q # <<>> /\ \E c \in Consumers : pc[c] \in {"lock", "relock", "test", "wait"})
        ~> (\E c \in Consumers : pc[c] = "unlock")
================================================================================
