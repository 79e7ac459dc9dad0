---------------------------- MODULE DataRelayProofs ----------------------------
(***************************************************************************)
(* Proofs about the relaying of a data endpoint, for any number of packets *)
(* and filters and any QUEUE_MAX > 0, for a proxy that sends synchronously *)
(* or asynchronously, fails to send or never completes.                    *)
(***************************************************************************)
EXTENDS DataRelay, SequenceTheorems, TLAPS

-----------------------------------------------------------------------------
(* Facts about the queue.                                                  *)

Waiting(s) == {i \in DOMAIN s : s[i] # NullPacket}

(* What is appended is the last of the queue, the rest keeps its place.    *)
LEMMA AppendFacts ==
    ASSUME NEW s \in Seq(PacketIds), NEW p \in PacketIds
    PROVE  /\ Append(s, p) \in Seq(PacketIds)
           /\ \A i \in Waiting(Append(s, p)) :
                \/ i \in Waiting(s) /\ i <= Len(s) /\ Append(s, p)[i] = s[i]
                \/ i = Len(s) + 1 /\ Append(s, p)[i] = p
           /\ {Append(s, p)[i] : i \in DOMAIN Append(s, p)} = {s[i] : i \in DOMAIN s} \cup {p}
<1>1. /\ Append(s, p) \in Seq(PacketIds)
      /\ Len(Append(s, p)) = Len(s) + 1
      /\ \A i \in 1 .. Len(s) : Append(s, p)[i] = s[i]
      /\ Append(s, p)[Len(s) + 1] = p
  BY AppendProperties
<1>2. /\ Len(s) \in Nat /\ DOMAIN s = 1 .. Len(s)
      /\ DOMAIN Append(s, p) = 1 .. Len(s) + 1
  BY <1>1
<1>3. ASSUME NEW i \in Waiting(Append(s, p))
      PROVE  \/ i \in Waiting(s) /\ i <= Len(s) /\ Append(s, p)[i] = s[i]
             \/ i = Len(s) + 1 /\ Append(s, p)[i] = p
  BY <1>1, <1>2, <1>3 DEF Waiting
<1>4. {Append(s, p)[i] : i \in DOMAIN Append(s, p)} = {s[i] : i \in DOMAIN s} \cup {p}
  BY <1>1, <1>2
<1> QED
  BY <1>1, <1>3, <1>4

(* A dequeue takes the head and moves the rest one place forward.          *)
LEMMA TailFacts ==
    ASSUME NEW s \in Seq(PacketIds), s # <<>>
    PROVE  /\ Tail(s) \in Seq(PacketIds)
           /\ Head(s) \in PacketIds /\ Head(s) = s[1] /\ 1 \in DOMAIN s
           /\ \A i \in Waiting(Tail(s)) :
                i \in Nat \ {0} /\ i + 1 \in Waiting(s) /\ Tail(s)[i] = s[i + 1]
           /\ {s[i] : i \in DOMAIN s} = {Tail(s)[i] : i \in DOMAIN Tail(s)} \cup {Head(s)}
<1>1. /\ Head(s) \in PacketIds
      /\ Tail(s) \in Seq(PacketIds)
      /\ Len(Tail(s)) = Len(s) - 1
      /\ \A i \in 1 .. Len(Tail(s)) : Tail(s)[i] = s[i + 1]
  BY HeadTailProperties
<1>2. /\ Len(s) \in Nat \ {0} /\ DOMAIN s = 1 .. Len(s) /\ Head(s) = s[1]
      /\ DOMAIN Tail(s) = 1 .. Len(s) - 1
  BY <1>1
<1>3. {s[i] : i \in DOMAIN s} \subseteq {Tail(s)[i] : i \in DOMAIN Tail(s)} \cup {Head(s)}
  <2> SUFFICES ASSUME NEW i \in DOMAIN s
               PROVE  s[i] \in {Tail(s)[k] : k \in DOMAIN Tail(s)} \cup {Head(s)}
    OBVIOUS
  <2>1. CASE i = 1
    BY <1>2, <2>1
  <2>2. CASE i # 1
    <3>1. i - 1 \in DOMAIN Tail(s) /\ Tail(s)[i - 1] = s[i]
      BY <1>1, <1>2, <2>2
    <3> QED
      BY <3>1
  <2> QED
    BY <2>1, <2>2
<1>4. {Tail(s)[i] : i \in DOMAIN Tail(s)} \cup {Head(s)} \subseteq {s[i] : i \in DOMAIN s}
  BY <1>1, <1>2
<1>5. ASSUME NEW i \in Waiting(Tail(s))
      PROVE  i \in Nat \ {0} /\ i + 1 \in Waiting(s) /\ Tail(s)[i] = s[i + 1]
  BY <1>1, <1>2, <1>5 DEF Waiting
<1>6. {s[i] : i \in DOMAIN s} = {Tail(s)[i] : i \in DOMAIN Tail(s)} \cup {Head(s)}
  BY <1>3, <1>4, Zenon
<1>7. 1 \in DOMAIN s
  BY <1>2
<1> QED
  BY <1>1, <1>2, <1>5, <1>6, <1>7, Zenon

-----------------------------------------------------------------------------
(* The inductive invariant *)

(* Where each relayer may hold a packet.                                   *)
Hands ==
    /\ rp # NullPacket => rpc = "enqueue" /\ rp = received
    /\ rpc = "enqueue" => rp # NullPacket
    /\ wp # NullPacket => wpc = "filter"
    /\ wpc = "filter" => wp # NullPacket

(* The packets on their way are in order: the proxy's, the writer's, the   *)
(* queue's, the reader's, none of them twice.                              *)
Ordered ==
    /\ \A i, k \in Waiting(queue) : i < k => queue[i] < queue[k]
    /\ \A i \in Waiting(queue) :
         /\ wp < queue[i] /\ queue[i] <= received
         /\ rp # NullPacket => queue[i] < rp
    /\ rp # NullPacket => wp < rp
    /\ wp <= received
Before ==
    \A p \in inflight :
        /\ NullPacket < p /\ p <= received
        /\ wp # NullPacket => p < wp
        /\ rp # NullPacket => p < rp
        /\ \A i \in Waiting(queue) : p < queue[i]

IInv == TypeOK /\ Hands /\ Ordered /\ Before /\ OneSendAtATime /\ NothingVanishes

(* Before the first packet there is none.                                  *)
LEMMA InitInv == Init => IInv
<1> SUFFICES ASSUME Init PROVE IInv
  OBVIOUS
<1>1. FlagsOK
  BY DEF Init, FlagsOK
<1>2. TypeOK
  BY <1>1, DataAssumption DEF Init, TypeOK, PacketIds, NullPacket
<1>3. Hands /\ Ordered /\ Before /\ OneSendAtATime
  BY DEF Init, Hands, Ordered, Before, OneSendAtATime, NullPacket, Waiting
<1>4. NothingVanishes
  <2>1. 1 .. received = {}
    BY DEF Init
  <2>2. InTransit = {}
    BY DEF Init, InTransit, Queued, NullPacket
  <2> QED
    BY <2>1, <2>2 DEF Init, NothingVanishes
<1> QED
  BY <1>2, <1>3, <1>4 DEF IInv

(* Every step of the two relayers, the sink and the stopping thread keeps  *)
(* the flags Boolean.                                                      *)
LEMMA NextFlags == FlagsOK /\ [Next]_vars => FlagsOK'
<1> SUFFICES ASSUME FlagsOK, [Next]_vars PROVE FlagsOK'
  OBVIOUS
<1> USE DEF FlagsOK, readerVars, writerVars, sinkVars, fateVars
<1>1. CASE Reader
  BY <1>1 DEF Reader, ReaderTop, ReaderReceive, ReaderReceiveNothing, ReaderEnqueue
<1>2. CASE WriterTop \/ WriterDequeue \/ WriterFilter
  BY <1>2 DEF WriterTop, WriterDequeue, WriterFilter
<1>3. CASE WriterDiscard \/ WriterSend \/ WriterSent
  BY <1>3 DEF WriterDiscard, WriterSend, WriterSent
<1>6. CASE WriterWait
  BY <1>6, Zenon DEF WriterWait
<1>4. CASE SinkTake \/ SinkFail \/ StopSignalReader \/ Stopping
  BY <1>4 DEF SinkTake, SinkFail, StopSignalReader, Stopping, StopSignalWriter, StopWakeWriter,
              StopJoinReader, StopJoinWriter
<1>5. CASE UNCHANGED vars
  BY <1>5 DEF vars
<1> QED
  BY <1>1, <1>2, <1>3, <1>4, <1>5, <1>6 DEF Next, Writer, Finished

(* And all other types.                                                    *)
LEMMA NextTypes == IInv /\ [Next]_vars => TypeOK'
<1> SUFFICES ASSUME IInv, [Next]_vars PROVE TypeOK'
  OBVIOUS
<1>f. FlagsOK'
  BY NextFlags DEF IInv, TypeOK
<1>t. TypeOK /\ NullPacket \in PacketIds
  BY DataAssumption DEF IInv, PacketIds, NullPacket
<1> USE DEF readerVars, writerVars, sinkVars, fateVars
<1>1. CASE ReaderTop
  BY <1>1, <1>f, <1>t DEF ReaderTop, TypeOK
<1>2. CASE ReaderReceive
  <2>1. received' \in PacketIds /\ rp' \in PacketIds
    BY <1>2, <1>t, DataAssumption DEF ReaderReceive, TypeOK, PacketIds
  <2> QED
    BY <1>2, <1>f, <1>t, <2>1 DEF ReaderReceive, TypeOK
<1>3. CASE ReaderReceiveNothing
  BY <1>3, <1>f, <1>t DEF ReaderReceiveNothing, TypeOK
<1>4. CASE ReaderEnqueue
  <2>1. queue' \in Seq(PacketIds)
    BY <1>4, <1>t, AppendFacts DEF ReaderEnqueue, TypeOK
  <2>2. overflowed' \subseteq PacketIds
    BY <1>4, <1>t DEF ReaderEnqueue, TypeOK
  <2>3. /\ rp' = NullPacket /\ rpc' = "top"
        /\ UNCHANGED <<received, wpc, wp, j, sinkVars, done, filtered, failed, mpc>>
    BY <1>4 DEF ReaderEnqueue
  <2> QED
    BY <1>f, <1>t, <2>1, <2>2, <2>3 DEF TypeOK
<1>5. CASE WriterTop
  BY <1>5, <1>f, <1>t DEF WriterTop, TypeOK
<1>6. CASE WriterDequeue
  <2>1. queue' \in Seq(PacketIds) /\ wp' \in PacketIds
    BY <1>6, <1>t, TailFacts DEF WriterDequeue, TypeOK
  <2>2. /\ j' = 0 /\ wpc' \in {"top", "filter"}
        /\ UNCHANGED <<received, rpc, rp, sinkVars, done, overflowed, filtered, failed, mpc>>
    BY <1>6 DEF WriterDequeue
  <2>3. j' \in 0 .. NumFilters
    BY <2>2, DataAssumption
  <2> QED
    BY <1>f, <1>t, <2>1, <2>2, <2>3 DEF TypeOK
<1>7. CASE WriterFilter
  <2>1. j' \in 0 .. NumFilters
    BY <1>7, <1>t, DataAssumption DEF WriterFilter, TypeOK
  <2> QED
    BY <1>7, <1>f, <1>t, <2>1 DEF WriterFilter, TypeOK
<1>8. CASE WriterDiscard \/ WriterSend
  BY <1>8, <1>f, <1>t DEF WriterDiscard, WriterSend, TypeOK
<1>9. CASE WriterSent \/ WriterWait
  BY <1>9, <1>f, <1>t DEF WriterSent, WriterWait, TypeOK
<1>10. CASE SinkTake \/ SinkFail
  BY <1>10, <1>f, <1>t DEF SinkTake, SinkFail, TypeOK
<1>11. CASE StopWakeWriter
  <2>1. queue' \in Seq(PacketIds)
    <3>1. CASE Len(queue) < QUEUE_MAX
      BY <1>11, <3>1, <1>t, AppendFacts DEF StopWakeWriter, TypeOK
    <3>2. CASE ~(Len(queue) < QUEUE_MAX)
      BY <1>11, <3>2, <1>t DEF StopWakeWriter, TypeOK
    <3> QED
      BY <3>1, <3>2
  <2> QED
    BY <1>11, <1>f, <1>t, <2>1 DEF StopWakeWriter, TypeOK
<1>12. CASE StopSignalReader \/ StopSignalWriter \/ StopJoinReader \/ StopJoinWriter
  BY <1>12, <1>f, <1>t DEF StopSignalReader, StopSignalWriter, StopJoinReader, StopJoinWriter, TypeOK
<1>13. CASE UNCHANGED vars
  BY <1>13, <1>f, <1>t DEF vars, TypeOK
<1> QED
  BY <1>1, <1>2, <1>3, <1>4, <1>5, <1>6, <1>7, <1>8, <1>9, <1>10, <1>11, <1>12, <1>13
  DEF Next, Reader, Writer, Stopping, Finished

(* Every step keeps the packets in order, and accounts for each of them.   *)
LEMMA NextPackets ==
    IInv /\ [Next]_vars => Hands' /\ Ordered' /\ Before' /\ OneSendAtATime' /\ NothingVanishes'
<1> SUFFICES ASSUME IInv, [Next]_vars
             PROVE  Hands' /\ Ordered' /\ Before' /\ OneSendAtATime' /\ NothingVanishes'
  OBVIOUS
<1> USE DataAssumption DEF readerVars, writerVars, sinkVars, fateVars, NullPacket
<1>t. /\ queue \in Seq(PacketIds) /\ received \in Nat /\ rp \in Nat /\ wp \in Nat
      /\ rp \in PacketIds /\ 0 \in PacketIds
      /\ \A i \in Waiting(queue) : i \in Nat /\ queue[i] \in Nat
      /\ \A n \in PacketIds : n \in Nat
      /\ \A p \in inflight : p \in Nat
  BY DEF IInv, TypeOK, PacketIds, Waiting
<1>i. Hands /\ Ordered /\ Before /\ OneSendAtATime /\ NothingVanishes
  BY DEF IInv
\* Steps that move no packet.
<1>a. ASSUME UNCHANGED <<received, queue, rp, wp, done, overflowed, filtered, failed, inflight>>,
             rpc' = "enqueue" <=> rpc = "enqueue", wpc' = "filter" <=> wpc = "filter",
             OneSendAtATime'
      PROVE  Hands' /\ Ordered' /\ Before' /\ OneSendAtATime' /\ NothingVanishes'
  BY <1>a, <1>i DEF Hands, Ordered, Before, NothingVanishes, InTransit, Queued, Waiting
<1>1. CASE ReaderTop \/ ReaderReceiveNothing
  BY <1>1, <1>a, <1>i DEF ReaderTop, ReaderReceiveNothing, OneSendAtATime
<1>2. CASE ReaderReceive
  <2>1. /\ rp = 0 /\ received' = received + 1 /\ rp' = received + 1 /\ rpc' = "enqueue"
        /\ UNCHANGED <<queue, wp, inflight, done, overflowed, filtered, failed, mistaken, wpc, writing>>
    BY <1>2, <1>i DEF ReaderReceive, Hands
  <2>2. 1 .. received' = (1 .. received) \cup {received + 1}
    BY <2>1, <1>t
  <2>3. NothingVanishes'
    BY <2>1, <2>2, <1>t, <1>i DEF NothingVanishes, InTransit, Queued
  <2>4. Hands' /\ OneSendAtATime'
    BY <2>1, <1>t, <1>i DEF Hands, OneSendAtATime
  <2>5. Ordered' /\ Before'
    BY <2>1, <1>t, <1>i DEF Ordered, Before, Waiting
  <2> QED
    BY <2>3, <2>4, <2>5
<1>3. CASE ReaderEnqueue
  <2>1. /\ rp # 0 /\ rp = received /\ rp' = 0 /\ rpc' = "top"
        /\ UNCHANGED <<received, wp, inflight, done, filtered, failed, mistaken, wpc, writing>>
    BY <1>3, <1>i DEF ReaderEnqueue, Hands
  <2>h. Hands' /\ OneSendAtATime'
    BY <2>1, <1>i DEF Hands, OneSendAtATime
  <2>2. CASE Len(queue) < QUEUE_MAX
    <3>1. queue' = Append(queue, rp) /\ overflowed' = overflowed
      BY <1>3, <2>2 DEF ReaderEnqueue
    <3>2. \A i \in Waiting(queue') :
            \/ i \in Waiting(queue) /\ i <= Len(queue) /\ queue'[i] = queue[i]
            \/ i = Len(queue) + 1 /\ queue'[i] = rp
      BY <3>1, <1>t, AppendFacts
    <3>3. {queue'[i] : i \in DOMAIN queue'} = {queue[i] : i \in DOMAIN queue} \cup {rp}
      BY <3>1, <1>t, AppendFacts
    <3>4. NothingVanishes'
      BY <2>1, <3>1, <3>3, <1>i DEF NothingVanishes, InTransit, Queued
    <3>5. Len(queue) \in Nat
      BY <1>t
    <3>6. Ordered' /\ Before'
      BY <2>1, <3>2, <3>5, <1>t, <1>i DEF Ordered, Before
    <3> QED
      BY <2>h, <3>4, <3>6
  <2>3. CASE ~(Len(queue) < QUEUE_MAX)
    <3>1. queue' = queue /\ overflowed' = overflowed \cup {rp}
      BY <1>3, <2>3 DEF ReaderEnqueue
    <3>2. NothingVanishes'
      BY <2>1, <3>1, <1>i DEF NothingVanishes, InTransit, Queued
    <3>3. Ordered' /\ Before'
      BY <2>1, <3>1, <1>i DEF Ordered, Before, Waiting
    <3> QED
      BY <2>h, <3>2, <3>3
  <2> QED
    BY <2>2, <2>3
<1>4. CASE WriterTop \/ WriterFilter
  BY <1>4, <1>a, <1>i DEF WriterTop, WriterFilter, OneSendAtATime
<1>5. CASE WriterDequeue
  <2>1. /\ wp = 0 /\ (~mistaken => inflight = {}) /\ wp' = Head(queue) /\ queue' = Tail(queue) /\ queue # <<>>
        /\ wpc' = IF wp' = 0 THEN "top" ELSE "filter"
        /\ UNCHANGED <<received, rp, rpc, inflight, done, overflowed, filtered, failed, mistaken, writing>>
    BY <1>5, <1>i DEF WriterDequeue, Hands, OneSendAtATime
  <2>2. /\ wp' = queue[1] /\ 1 \in DOMAIN queue
        /\ \A i \in Waiting(queue') :
             i \in Nat \ {0} /\ i + 1 \in Waiting(queue) /\ queue'[i] = queue[i + 1]
        /\ {queue[i] : i \in DOMAIN queue} = {queue'[i] : i \in DOMAIN queue'} \cup {wp'}
    <3>1. /\ Head(queue) = queue[1] /\ 1 \in DOMAIN queue
          /\ \A i \in Waiting(Tail(queue)) :
               i \in Nat \ {0} /\ i + 1 \in Waiting(queue) /\ Tail(queue)[i] = queue[i + 1]
          /\ {queue[i] : i \in DOMAIN queue}
               = {Tail(queue)[i] : i \in DOMAIN Tail(queue)} \cup {Head(queue)}
      <4>1. queue \in Seq(PacketIds) /\ queue # <<>>
        BY <1>t, <2>1
      <4> QED
        BY ONLY <4>1, TailFacts
    <3>2. wp' = Head(queue) /\ queue' = Tail(queue)
      BY <2>1
    <3> QED
      BY ONLY <3>1, <3>2, Zenon
  <2>3. NothingVanishes'
    BY <2>1, <2>2, <1>i DEF NothingVanishes, InTransit, Queued
  <2>4. wp' # 0 => 1 \in Waiting(queue)
    BY <2>2 DEF Waiting
  <2>5. Ordered'
    <3>1. /\ \A i, k \in Waiting(queue) : i < k => queue[i] < queue[k]
          /\ \A i \in Waiting(queue) : queue[i] <= received /\ (rp # 0 => queue[i] < rp)
      BY <1>i DEF Ordered
    <3>2. \A i, k \in Waiting(queue') : i < k => queue'[i] < queue'[k]
      BY <2>2, <3>1
    <3>3. \A i \in Waiting(queue') :
            0 < queue'[i] /\ wp' < queue'[i] /\ queue'[i] <= received /\ (rp # 0 => queue'[i] < rp)
      <4> TAKE i \in Waiting(queue')
      <4>1. /\ i \in Nat \ {0} /\ i + 1 \in Waiting(queue) /\ queue'[i] = queue[i + 1]
            /\ queue[i + 1] \in Nat
        BY <2>2, <1>t
      <4>2. queue[i + 1] # 0
        BY <4>1 DEF Waiting
      <4>3. wp' < queue[i + 1]
        BY <4>1, <4>2, <2>2, <2>4, <3>1
      <4> QED
        BY <4>1, <4>2, <4>3, <3>1
    <3>4. wp' <= received /\ (rp # 0 => 0 < rp /\ wp' < rp)
      BY <2>2, <2>4, <3>1, <1>t
    <3>5. UNCHANGED <<rp, received>>
      BY <2>1
    <3> QED
      BY <3>2, <3>3, <3>4, <3>5, <1>t DEF Ordered
  <2>6. Hands' /\ OneSendAtATime'
    BY <2>1, <1>i DEF Hands, OneSendAtATime
  <2>7. Before'
    <3>1. \A p \in inflight, i \in Waiting(queue) : p < queue[i]
      BY <1>i DEF Before
    <3>2. ASSUME NEW p \in inflight, wp' # 0 PROVE p < wp'
      BY <2>2, <2>4, <3>1, <3>2
    <3>3. ASSUME NEW p \in inflight, NEW i \in Waiting(queue') PROVE p < queue'[i]
      BY <2>2, <3>1
    <3> QED
      BY <2>1, <3>2, <3>3, <1>i DEF Before
  <2> QED
    BY <2>3, <2>5, <2>6, <2>7
<1>6. CASE WriterDiscard
  <2>1. /\ wp # 0 /\ wp' = 0 /\ wpc' = "top" /\ filtered' = filtered \cup {wp}
        /\ UNCHANGED <<received, queue, rp, rpc, inflight, done, overflowed, failed, mistaken, writing>>
    BY <1>6, <1>i DEF WriterDiscard, Hands
  <2>2. NothingVanishes'
    BY <2>1, <1>i DEF NothingVanishes, InTransit, Queued
  <2> QED
    BY <2>1, <2>2, <1>t, <1>i DEF Hands, Ordered, Before, OneSendAtATime, Waiting
<1>7. CASE WriterSend
  <2>1. /\ wp # 0 /\ (~mistaken => inflight = {}) /\ wp' = 0 /\ wpc' = "sending"
        /\ UNCHANGED <<received, queue, rp, rpc, done, overflowed, filtered, mistaken>>
    BY <1>7, <1>i DEF WriterSend, Hands, OneSendAtATime
  <2>2. \/ inflight' = inflight \cup {wp} /\ failed' = failed
        \/ inflight' = inflight /\ failed' = failed \cup {wp}
    BY <1>7 DEF WriterSend
  <2>3. NothingVanishes'
    BY <2>1, <2>2, <1>i DEF NothingVanishes, InTransit, Queued
  <2>4. Hands' /\ Ordered' /\ OneSendAtATime'
    BY <2>1, <2>2, <1>t, <1>i DEF Hands, Ordered, OneSendAtATime, Waiting
  <2>5. Before'
    BY <2>1, <2>2, <1>t, <1>i DEF Ordered, Before, Waiting
  <2> QED
    BY <2>3, <2>4, <2>5
<1>8. CASE WriterSent \/ WriterWait
  BY <1>8, <1>a, <1>i DEF WriterSent, WriterWait, OneSendAtATime
<1>9. CASE SinkTake \/ SinkFail
  <2>1. UNCHANGED <<received, queue, rp, rpc, wp, wpc, writing, overflowed, filtered, mistaken>>
    BY <1>9 DEF SinkTake, SinkFail
  <2>2. PICK p \in inflight :
          /\ \/ done' = done \cup {p} /\ failed' = failed
             \/ failed' = failed \cup {p} /\ done' = done
          /\ inflight' = inflight \ {p} \/ inflight' = inflight
    BY <1>9 DEF SinkTake, SinkFail
  <2>3. NothingVanishes'
    BY <2>1, <2>2, <1>i DEF NothingVanishes, InTransit, Queued
  <2>4. Hands' /\ Ordered' /\ Before' /\ OneSendAtATime'
    BY <2>1, <2>2, <1>t, <1>i DEF Hands, Ordered, Before, OneSendAtATime, Waiting
  <2> QED
    BY <2>3, <2>4
<1>10. CASE StopWakeWriter
  <2>1. UNCHANGED <<received, rp, rpc, wp, wpc, writing, inflight, done, overflowed, filtered,
                    failed, mistaken>>
    BY <1>10 DEF StopWakeWriter
  <2>2. CASE Len(queue) < QUEUE_MAX
    <3>1. queue' = Append(queue, 0)
      BY <1>10, <2>2 DEF StopWakeWriter
    <3>2. /\ \A i \in Waiting(queue') : i \in Waiting(queue) /\ queue'[i] = queue[i]
          /\ {queue'[i] : i \in DOMAIN queue'} = {queue[i] : i \in DOMAIN queue} \cup {0}
      BY <3>1, <1>t, AppendFacts DEF Waiting
    <3>3. NothingVanishes'
      BY <2>1, <3>2, <1>i DEF NothingVanishes, InTransit, Queued
    <3> QED
      BY <2>1, <3>2, <3>3, <1>i DEF Hands, Ordered, Before, OneSendAtATime
  <2>3. CASE ~(Len(queue) < QUEUE_MAX)
    <3>1. queue' = queue
      BY <1>10, <2>3 DEF StopWakeWriter
    <3> QED
      BY <2>1, <3>1, <1>i DEF Hands, Ordered, Before, OneSendAtATime, NothingVanishes, InTransit,
                              Queued, Waiting
  <2> QED
    BY <2>2, <2>3
<1>11. CASE StopSignalReader \/ StopSignalWriter \/ StopJoinReader \/ StopJoinWriter
  BY <1>11, <1>a, <1>i DEF StopSignalReader, StopSignalWriter, StopJoinReader, StopJoinWriter,
                           OneSendAtATime
<1>12. CASE UNCHANGED vars
  BY <1>12, <1>a, <1>i DEF vars, OneSendAtATime
<1> QED
  BY <1>1, <1>2, <1>3, <1>4, <1>5, <1>6, <1>7, <1>8, <1>9, <1>10, <1>11, <1>12
  DEF Next, Reader, Writer, Stopping, Finished

(* The invariant holds in every reachable state.                           *)
LEMMA Invariance == Spec => []IInv
<1>1. IInv /\ [Next]_vars => IInv'
  BY NextTypes, NextPackets DEF IInv
<1> QED
  BY <1>1, InitInv, PTL DEF Spec

(* The relayers, their queue and the sink are well typed.                  *)
THEOREM TypeCorrect == Spec => []TypeOK
  BY Invariance, PTL DEF IInv

(* Every packet that arrived is on its way, delivered, filtered, lost in a *)
(* transfer that failed, or was dropped at a full queue.                   *)
THEOREM NothingLost == Spec => []NothingVanishes
  BY Invariance, PTL DEF IInv

(* Until a wait for a transfer is cut short, the writer never calls        *)
(* send_data() before the last transfer is over.                           *)
THEOREM SendsOneByOne == Spec => []OneSendAtATime
  BY Invariance, PTL DEF IInv

-----------------------------------------------------------------------------
(* The refinement *)

(* Each step accepts, loses or delivers a packet, breaks the pipe, or is   *)
(* invisible.                                                              *)
LEMMA NextPipe == IInv /\ [Next]_vars => [Pipe!Next]_(Pipe!vars)
<1> SUFFICES ASSUME IInv, [Next]_vars PROVE Pipe!Next \/ UNCHANGED Pipe!vars
  OBVIOUS
<1> USE DataAssumption DEF readerVars, writerVars, sinkVars, fateVars, NullPacket
<1>t. /\ queue \in Seq(PacketIds) /\ received \in Nat /\ rp \in Nat /\ wp \in Nat
      /\ rp \in PacketIds /\ 0 \in PacketIds
      /\ \A i \in Waiting(queue) : queue[i] \in Nat
      /\ \A p \in inflight : p \in Nat
      /\ \A q \in Queued : \E i \in Waiting(queue) : q = queue[i]
  BY DEF IInv, TypeOK, PacketIds, Waiting, Queued
<1>i. Hands /\ Ordered /\ Before /\ OneSendAtATime
  BY DEF IInv
<1>a. ASSUME UNCHANGED <<received, delivered, mistaken>>, InTransit' = InTransit
      PROVE  UNCHANGED Pipe!vars
  BY <1>a DEF Pipe!vars
<1>l. ASSUME UNCHANGED <<received, delivered, mistaken>>, NEW p \in InTransit, InTransit' = InTransit \ {p}
      PROVE  Pipe!Next
  BY <1>l DEF Pipe!Next, Pipe!Lose
<1>o. /\ \A q \in Queued : wp < q /\ q <= received
      /\ rp # 0 => \A q \in Queued : q < rp
      /\ \A p \in inflight : \A q \in Queued : p < q
  BY <1>t, <1>i DEF Ordered, Before
<1>b. ASSUME mistaken, mistaken' PROVE Pipe!Next
  BY <1>b DEF Pipe!Next, Pipe!BrokenAlready
<1>1. CASE ReaderReceive
  <2>1. /\ rp = 0 /\ received' = received + 1 /\ rp' = received + 1
        /\ UNCHANGED <<queue, wp, inflight, delivered, mistaken>>
    BY <1>1, <1>i DEF ReaderReceive, Hands
  <2>2. InTransit' = InTransit \cup {received'}
    BY <2>1, <1>t DEF InTransit, Queued
  <2> QED
    BY <2>1, <2>2 DEF Pipe!Next, Pipe!Accept
<1>2. CASE ReaderEnqueue
  <2>1. rp # 0 /\ rp' = 0 /\ UNCHANGED <<received, delivered, wp, inflight, mistaken>>
    BY <1>2, <1>i DEF ReaderEnqueue, Hands
  <2>2. CASE Len(queue) < QUEUE_MAX
    <3>1. queue' = Append(queue, rp)
      BY <1>2, <2>2 DEF ReaderEnqueue
    <3>2. {queue'[i] : i \in DOMAIN queue'} = {queue[i] : i \in DOMAIN queue} \cup {rp}
      BY <3>1, <1>t, AppendFacts
    <3>3. InTransit' = InTransit
      BY <2>1, <3>2 DEF InTransit, Queued
    <3> QED
      BY <2>1, <3>3, <1>a
  <2>3. CASE ~(Len(queue) < QUEUE_MAX)
    <3>1. queue' = queue
      BY <1>2, <2>3 DEF ReaderEnqueue
    <3>2. rp \notin Queued /\ rp # wp /\ rp \notin inflight
      BY <2>1, <1>o, <1>t, <1>i DEF Ordered, Before
    <3>3. rp \in InTransit /\ InTransit' = InTransit \ {rp}
      BY <2>1, <3>1, <3>2 DEF InTransit, Queued
    <3> QED
      BY <2>1, <3>3, <1>l
  <2> QED
    BY <2>2, <2>3
<1>3. CASE WriterDequeue
  <2>1. /\ wp = 0 /\ wp' = Head(queue) /\ queue' = Tail(queue) /\ queue # <<>>
        /\ UNCHANGED <<received, delivered, rp, inflight, mistaken>>
    BY <1>3, <1>i DEF WriterDequeue, Hands
  <2>2. {queue[i] : i \in DOMAIN queue} = {queue'[i] : i \in DOMAIN queue'} \cup {wp'}
    <3>1. queue \in Seq(PacketIds) /\ queue # <<>>
      BY <1>t, <2>1
    <3>2. {queue[i] : i \in DOMAIN queue}
            = {Tail(queue)[i] : i \in DOMAIN Tail(queue)} \cup {Head(queue)}
      BY ONLY <3>1, TailFacts
    <3> QED
      BY <2>1, <3>2
  <2>3. InTransit' = InTransit
    BY <2>1, <2>2 DEF InTransit, Queued
  <2> QED
    BY <2>1, <2>3, <1>a
<1>4. CASE WriterDiscard
  <2>1. wp # 0 /\ wp' = 0 /\ UNCHANGED <<received, delivered, queue, rp, inflight, mistaken>>
    BY <1>4, <1>i DEF WriterDiscard, Hands
  <2>2. wp \notin Queued /\ wp # rp /\ wp \notin inflight
    BY <2>1, <1>o, <1>t, <1>i DEF Ordered, Before
  <2>3. wp \in InTransit /\ InTransit' = InTransit \ {wp}
    BY <2>1, <2>2 DEF InTransit, Queued
  <2> QED
    BY <2>1, <2>3, <1>l
<1>5. CASE WriterSend
  <2>1. wp # 0 /\ wp' = 0 /\ UNCHANGED <<received, delivered, queue, rp, mistaken>>
    BY <1>5, <1>i DEF WriterSend, Hands
  <2>2. CASE inflight' = inflight \cup {wp}
    <3>1. InTransit' = InTransit
      BY <2>1, <2>2 DEF InTransit, Queued
    <3> QED
      BY <2>1, <3>1, <1>a
  <2>3. CASE inflight' = inflight
    <3>1. wp \notin Queued /\ wp # rp /\ wp \notin inflight
      BY <2>1, <1>o, <1>t, <1>i DEF Ordered, Before
    <3>2. wp \in InTransit /\ InTransit' = InTransit \ {wp}
      BY <2>1, <2>3, <3>1 DEF InTransit, Queued
    <3> QED
      BY <2>1, <3>2, <1>l
  <2> QED
    BY <1>5, <2>2, <2>3 DEF WriterSend
<1>6. CASE SinkTake \/ SinkFail
  <2>1. UNCHANGED <<received, queue, rp, wp, mistaken>>
    BY <1>6 DEF SinkTake, SinkFail
  <2>2. CASE mistaken
    BY <2>1, <2>2, <1>b
  <2>3. CASE ~mistaken
    <3>1. PICK p \in inflight : inflight' = inflight \ {p} /\ delivered' \in {p, delivered}
      BY <1>6, <2>3 DEF SinkTake, SinkFail
    <3>2. wp = 0 /\ \A q \in inflight : q = p
      BY <2>3, <3>1, <1>i DEF Hands, OneSendAtATime
    <3>3. p \notin Queued /\ p # rp /\ p # 0 /\ \A q \in InTransit : p <= q
      BY <3>1, <3>2, <1>o, <1>t, <1>i DEF Before, InTransit
    <3>4. p \in InTransit /\ InTransit' = InTransit \ {p}
      BY <2>1, <3>1, <3>2, <3>3 DEF InTransit, Queued
    <3>5. CASE delivered' = p
      BY <2>1, <3>3, <3>4, <3>5 DEF Pipe!Next, Pipe!Deliver
    <3>6. CASE delivered' = delivered
      BY <2>1, <3>4, <3>6, <1>l
    <3> QED
      BY <3>1, <3>5, <3>6
  <2> QED
    BY <2>2, <2>3
<1>7. CASE StopWakeWriter
  <2>1. UNCHANGED <<received, delivered, rp, wp, inflight, mistaken>>
    BY <1>7 DEF StopWakeWriter
  <2>2. Queued' = Queued
    <3>1. CASE Len(queue) < QUEUE_MAX
      <4>1. queue' = Append(queue, 0)
        BY <1>7, <3>1 DEF StopWakeWriter
      <4>2. {queue'[i] : i \in DOMAIN queue'} = {queue[i] : i \in DOMAIN queue} \cup {0}
        BY <4>1, <1>t, AppendFacts
      <4> QED
        BY <4>2 DEF Queued
    <3>2. CASE ~(Len(queue) < QUEUE_MAX)
      BY <1>7, <3>2 DEF StopWakeWriter, Queued
    <3> QED
      BY <3>1, <3>2
  <2>3. InTransit' = InTransit
    BY <2>1, <2>2 DEF InTransit
  <2> QED
    BY <2>1, <2>3, <1>a
<1>8. CASE ReaderTop \/ ReaderReceiveNothing \/ WriterTop \/ WriterFilter \/ WriterSent
           \/ StopSignalReader \/ StopSignalWriter \/ StopJoinReader \/ StopJoinWriter
           \/ UNCHANGED vars
  <2>1. UNCHANGED <<received, delivered, queue, rp, wp, inflight, mistaken>>
    BY <1>8 DEF ReaderTop, ReaderReceiveNothing, WriterTop, WriterFilter, WriterSent,
                StopSignalReader, StopSignalWriter, StopJoinReader, StopJoinWriter, vars
  <2>2. InTransit' = InTransit
    BY <2>1 DEF InTransit, Queued
  <2> QED
    BY <2>1, <2>2, <1>a
<1>9. CASE WriterWait
  <2>1. UNCHANGED <<received, delivered, queue, rp, wp, inflight>>
    BY <1>9 DEF WriterWait
  <2>2. InTransit' = InTransit
    BY <2>1 DEF InTransit, Queued
  <2>3. mistaken' = (mistaken \/ inflight # {}) /\ mistaken \in BOOLEAN
    BY <1>9 DEF WriterWait, IInv, TypeOK, FlagsOK
  <2>4. CASE mistaken' = mistaken
    BY <2>1, <2>2, <2>4, <1>a
  <2>5. CASE mistaken'
    <3>1. mistaken' = TRUE
      BY <2>3, <2>5
    <3> QED
      BY <2>1, <2>2, <3>1 DEF Pipe!Next, Pipe!Break
  <2> QED
    BY <2>3, <2>4, <2>5
<1> QED
  BY <1>1, <1>2, <1>3, <1>4, <1>5, <1>6, <1>7, <1>8, <1>9
  DEF Next, Reader, Writer, Stopping, Finished

(* The two relayers and their queue implement the order-preserving pipe.   *)
THEOREM RefinesPipe == Spec => ImplementsPipe
<1>1. Init => Pipe!Init
  BY DEF Init, Pipe!Init, InTransit, Queued, NullPacket
<1> QED
  BY <1>1, NextPipe, Invariance, PTL DEF Spec, ImplementsPipe, Pipe!Spec
================================================================================
