---------------------------- MODULE SafeQueueProofs ----------------------------
(***************************************************************************)
(* Proofs about SafeQueue.hpp for any number of producers and consumers    *)
(* and any QUEUE_MAX > 0: type correctness, the bound of the queue, no     *)
(* lost wakeup, and that the queue implements the atomic PacketFifo.       *)
(***************************************************************************)
EXTENDS SafeQueue, SequenceTheorems, FiniteSetTheorems, TLAPS

(* Only the owner of the mutex is inside a critical section.               *)
MutexInv == \A t \in Threads : pc[t] \in CriticalPoints => m = t

(* What the two tests under the lock established still holds when used.    *)
PushInv == \A p \in Producers : pc[p] = "push" => Len(q) < QUEUE_MAX
PopInv == \A c \in Consumers : pc[c] = "pop" => q # <<>>

(* The wait set of the condition variable is the set of sleeping threads.  *)
WaitInv == \A c \in Consumers : c \in waiting <=> pc[c] = "wait"

SafeInv == TypeOK /\ MutexInv /\ PushInv /\ PopInv /\ WaitInv
IInv == SafeInv /\ NoLostWakeup

-----------------------------------------------------------------------------
(* Every initial state satisfies the inductive invariant.                  *)
LEMMA InitSafe == Init => IInv
  BY ConstantsAssumption
  DEF Init, IInv, SafeInv, TypeOK, MutexInv, PushInv, PopInv, WaitInv,
      NoLostWakeup, Threads, ProducerPoints, ConsumerPoints, CriticalPoints

(* The part of the invariant without cardinalities is inductive.           *)
LEMMA NextSafe == SafeInv /\ [Next]_vars => SafeInv'
<1> SUFFICES ASSUME SafeInv, [Next]_vars PROVE SafeInv'
  OBVIOUS
<1> USE ConstantsAssumption
    DEF SafeInv, TypeOK, MutexInv, PushInv, PopInv, WaitInv, Goto,
        Threads, ProducerPoints, ConsumerPoints, CriticalPoints
<1>1. ASSUME NEW p \in Producers, NEW t \in Items, CallEnqueue(p, t) PROVE SafeInv'
  BY <1>1 DEF CallEnqueue
<1>2. ASSUME NEW p \in Producers, LockProducer(p) PROVE SafeInv'
  BY <1>2 DEF LockProducer
<1>3. ASSUME NEW p \in Producers, CheckSize(p) PROVE SafeInv'
  BY <1>3 DEF CheckSize
<1>4. ASSUME NEW p \in Producers, Push(p) PROVE SafeInv'
  BY <1>4, AppendProperties DEF Push
<1>5. ASSUME NEW p \in Producers, NotifyOne(p) PROVE SafeInv'
  BY <1>5 DEF NotifyOne
<1>6. ASSUME NEW t \in Threads, Unlock(t) PROVE SafeInv'
  BY <1>6 DEF Unlock
<1>7. ASSUME NEW c \in Consumers, CallDequeue(c) PROVE SafeInv'
  BY <1>7 DEF CallDequeue
<1>8. ASSUME NEW c \in Consumers, LockConsumer(c) PROVE SafeInv'
  BY <1>8 DEF LockConsumer
<1>9. ASSUME NEW c \in Consumers, TestEmpty(c) PROVE SafeInv'
  BY <1>9 DEF TestEmpty
<1>10. ASSUME NEW c \in Consumers, SpuriousWakeup(c) PROVE SafeInv'
  BY <1>10 DEF SpuriousWakeup
<1>11. ASSUME NEW c \in Consumers, Pop(c) PROVE SafeInv'
  BY <1>11, HeadTailProperties DEF Pop
<1>12. CASE UNCHANGED vars
  BY <1>12 DEF vars
<1> QED
  BY <1>1, <1>2, <1>3, <1>4, <1>5, <1>6, <1>7, <1>8, <1>9, <1>10, <1>11, <1>12
  DEF Next, ProducerStep, ConsumerStep

(* Cardinality facts about the set of awake consumers.                     *)
LEMMA AwakeFinite == IsFiniteSet(Awake) /\ Cardinality(Awake) \in Nat
  BY ConstantsAssumption, FS_Subset, FS_CardinalityType DEF Awake

(* The counting invariant is preserved: a push is matched by its pending   *)
(* notify_one(), a notify_one() by the consumer it wakes, a pop by the     *)
(* consumer that leaves.                                                   *)
LEMMA NextWakeup == IInv /\ [Next]_vars => NoLostWakeup'
<1> SUFFICES ASSUME IInv, [Next]_vars PROVE NoLostWakeup'
  OBVIOUS
<1> USE ConstantsAssumption
    DEF IInv, SafeInv, TypeOK, Threads, ProducerPoints, ConsumerPoints, Goto
<1>a. /\ IsFiniteSet(Awake) /\ Cardinality(Awake) \in Nat
      /\ IsFiniteSet(Awake') /\ Cardinality(Awake') \in Nat
  <2>1. Awake' \subseteq Consumers
    BY DEF Awake
  <2> QED
    BY <2>1, AwakeFinite, FS_Subset, FS_CardinalityType
<1>s. Len(q) \in Nat
  OBVIOUS
<1>b. ASSUME Awake \subseteq Awake', q' = q, waiting' \subseteq waiting,
             NotifyPending => NotifyPending'
      PROVE  NoLostWakeup'
  <2>1. Cardinality(Awake) <= Cardinality(Awake')
    BY <1>a, <1>b, FS_Subset
  <2> QED
    BY <1>a, <1>b, <1>s, <2>1 DEF NoLostWakeup
<1>1. ASSUME NEW p \in Producers, NEW t \in Items, CallEnqueue(p, t) PROVE NoLostWakeup'
  BY <1>1, <1>b DEF CallEnqueue, Awake, NotifyPending
<1>2. ASSUME NEW p \in Producers, LockProducer(p) PROVE NoLostWakeup'
  BY <1>2, <1>b DEF LockProducer, Awake, NotifyPending
<1>3. ASSUME NEW p \in Producers, CheckSize(p) PROVE NoLostWakeup'
  BY <1>3, <1>b DEF CheckSize, Awake, NotifyPending
<1>4. ASSUME NEW p \in Producers, Push(p) PROVE NoLostWakeup'
  <2>1. Awake' = Awake
    BY <1>4 DEF Push, Awake
  <2>2. NotifyPending'
    BY <1>4 DEF Push, NotifyPending
  <2>3. ~NotifyPending
    BY <1>4 DEF Push, NotifyPending, MutexInv, CriticalPoints
  <2>4. Len(q') = Len(q) + 1
    BY <1>4, AppendProperties DEF Push
  <2>5. waiting' = waiting
    BY <1>4 DEF Push
  <2> QED
    BY <1>a, <1>s, <2>1, <2>2, <2>3, <2>4, <2>5 DEF NoLostWakeup
<1>5. ASSUME NEW p \in Producers, NotifyOne(p) PROVE NoLostWakeup'
  <2>1. CASE waiting' = waiting /\ waiting = {}
    BY <2>1 DEF NoLostWakeup
  <2>2. ASSUME NEW c \in waiting, waiting' = waiting \ {c},
               pc' = [pc EXCEPT ![p] = "unlock", ![c] = "relock"]
        PROVE  NoLostWakeup'
    <3>1. c \in Consumers /\ c \notin Awake
      BY DEF WaitInv, Awake
    <3>2. Awake' = Awake \cup {c}
      BY <2>2, <3>1, <1>5 DEF Awake, NotifyOne
    <3>3. Cardinality(Awake') = Cardinality(Awake) + 1
      BY <1>a, <3>1, <3>2, FS_AddElement
    <3>4. q' = q
      BY <1>5 DEF NotifyOne
    <3> QED
      BY <1>a, <1>s, <3>3, <3>4 DEF NoLostWakeup
  <2> QED
    BY <1>5, <2>1, <2>2 DEF NotifyOne
<1>6. ASSUME NEW t \in Threads, Unlock(t) PROVE NoLostWakeup'
  BY <1>6, <1>b DEF Unlock, Awake, NotifyPending
<1>7. ASSUME NEW c \in Consumers, CallDequeue(c) PROVE NoLostWakeup'
  BY <1>7, <1>b DEF CallDequeue, Awake, NotifyPending
<1>8. ASSUME NEW c \in Consumers, LockConsumer(c) PROVE NoLostWakeup'
  BY <1>8, <1>b DEF LockConsumer, Awake, NotifyPending
<1>9. ASSUME NEW c \in Consumers, TestEmpty(c) PROVE NoLostWakeup'
  <2>1. CASE q = <<>>
    <3>1. Len(q') = 0
      BY <1>9, <2>1 DEF TestEmpty
    <3> QED
      BY <1>a, <3>1 DEF NoLostWakeup
  <2>2. CASE q # <<>>
    BY <1>9, <2>2, <1>b DEF TestEmpty, Awake, NotifyPending
  <2> QED
    BY <2>1, <2>2
<1>10. ASSUME NEW c \in Consumers, SpuriousWakeup(c) PROVE NoLostWakeup'
  BY <1>10, <1>b DEF SpuriousWakeup, Awake, NotifyPending
<1>11. ASSUME NEW c \in Consumers, Pop(c) PROVE NoLostWakeup'
  <2>1. c \in Awake /\ Awake' = Awake \ {c}
    BY <1>11 DEF Pop, Awake
  <2>2. Cardinality(Awake') = Cardinality(Awake) - 1
    BY <1>a, <2>1, FS_RemoveElement
  <2>3. q # <<>> /\ Len(q') = Len(q) - 1
    BY <1>11, HeadTailProperties DEF Pop, PopInv
  <2>4. NotifyPending' <=> NotifyPending
    BY <1>11 DEF Pop, NotifyPending
  <2>5. waiting' = waiting
    BY <1>11 DEF Pop
  <2> QED
    BY <1>a, <1>s, <2>2, <2>3, <2>4, <2>5 DEF NoLostWakeup
<1>12. CASE UNCHANGED vars
  BY <1>12, <1>b DEF vars, Awake, NotifyPending
<1> QED
  BY <1>1, <1>2, <1>3, <1>4, <1>5, <1>6, <1>7, <1>8, <1>9, <1>10, <1>11, <1>12
  DEF Next, ProducerStep, ConsumerStep

(* The inductive invariant holds in every reachable state.                 *)
LEMMA Invariance == Spec => []IInv
<1>1. IInv /\ [Next]_vars => IInv'
  BY NextSafe, NextWakeup DEF IInv
<1> QED
  BY <1>1, InitSafe, PTL DEF Spec

(* enqueue() and dequeue() keep the queue, the mutex and every thread's    *)
(* position well typed, and the queue within QUEUE_MAX packets: the size   *)
(* test is still valid at the push, whatever the other producers do.       *)
THEOREM TypeCorrect == Spec => []TypeOK
  BY Invariance, PTL DEF IInv, SafeInv

(* A relayer never sleeps in c.wait() beside a packet that neither an      *)
(* awake consumer nor a pending notify_one() accounts for.                 *)
THEOREM WakeupsAreNotLost == Spec => []NoLostWakeup
  BY Invariance, PTL DEF IInv

(* The threaded queue implements the atomic bounded FIFO: the push and the *)
(* pop under the lock are the instants at which the calls take effect.     *)
THEOREM RefinesFifo == Spec => ImplementsFifo
<1>1. Init => Fifo!Init
  BY DEF Init, Fifo!Init
<1>2. IInv /\ [Next]_vars => [Fifo!Next]_(Fifo!vars)
  <2> SUFFICES ASSUME IInv, [Next]_vars PROVE [Fifo!Next]_(Fifo!vars)
    OBVIOUS
  <2>1. ASSUME NEW p \in Producers, Push(p) PROVE Fifo!Next
    <3>1. arg[p] \in Items /\ Len(q) < QUEUE_MAX
      BY <2>1 DEF Push, IInv, SafeInv, TypeOK, PushInv
    <3>2. Fifo!Enqueue(arg[p])
      BY <2>1, <3>1 DEF Push, Fifo!Enqueue
    <3> QED
      BY <3>1, <3>2 DEF Fifo!Next
  <2>2. ASSUME NEW c \in Consumers, Pop(c) PROVE Fifo!Next
    <3>1. Fifo!Dequeue(c)
      BY <2>2 DEF Pop, IInv, SafeInv, PopInv, Fifo!Dequeue
    <3> QED
      BY <3>1 DEF Fifo!Next
  <2>3. CASE UNCHANGED <<q, val>>
    BY <2>3 DEF Fifo!vars
  <2> QED
    BY <2>1, <2>2, <2>3
    DEF Next, ProducerStep, ConsumerStep, CallEnqueue, LockProducer, CheckSize, NotifyOne,
        CallDequeue, LockConsumer, TestEmpty, SpuriousWakeup, Unlock, vars
<1> QED
  BY <1>1, <1>2, Invariance, PTL DEF Spec, ImplementsFifo, Fifo!Spec
================================================================================
