------------------------------ MODULE PacketFifo ------------------------------
(***************************************************************************)
(* What a SafeQueue promises the relayers that share it: a bounded first-in *)
(* first-out channel.  An enqueue takes effect at one instant and is       *)
(* silently dropped when the queue is full; a dequeue removes the head at  *)
(* one instant and waits while the queue is empty.  SafeQueue.tla shows    *)
(* that the mutex and condition variable of SafeQueue.hpp implement this.  *)
(***************************************************************************)
EXTENDS Naturals, Sequences

CONSTANTS Items,        \* what can be enqueued (PacketPtr, the null one too)
          Consumers,    \* threads that call dequeue()
          QUEUE_MAX,    \* SafeQueue.hpp:11
          NoItem        \* "nothing dequeued yet"

VARIABLES q,            \* the queue, head first
          val           \* val[c]: what the last dequeue() of c returned

vars == <<q, val>>

Init == /\ q = <<>>
        /\ val = [c \in Consumers |-> NoItem]

Enqueue(t) == /\ Len(q) < QUEUE_MAX
              /\ q' = Append(q, t)
              /\ UNCHANGED val

Dequeue(c) == /\ q # <<>>
              /\ q' = Tail(q)
              /\ val' = [val EXCEPT ![c] = Head(q)]

Next == \/ \E t \in Items : Enqueue(t)
        \/ \E c \in Consumers : Dequeue(c)

Spec == Init /\ [][Next]_vars
===============================================================================
