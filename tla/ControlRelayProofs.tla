--------------------------- MODULE ControlRelayProofs ---------------------------
(***************************************************************************)
(* Proofs about the endpoint 0 relay, for any number of requests, sessions *)
(* and filters and any QUEUE_MAX > 0.                                      *)
(***************************************************************************)
EXTENDS ControlRelay, SequenceTheorems, TLAPS

-----------------------------------------------------------------------------
(* Facts about the queues.                                                 *)

(* Enqueue keeps every packet in its place and adds at most one, behind.   *)
LEMMA EnqueueFacts ==
    ASSUME NEW queue \in Seq(Packets), NEW p \in Packets
    PROVE  /\ Enqueue(queue, p) \in Seq(Packets)
           /\ Pending(Enqueue(queue, p)) \subseteq Pending(queue) \cup {Len(queue) + 1}
           /\ p = Null => Pending(Enqueue(queue, p)) \subseteq Pending(queue)
           /\ \A i \in Pending(queue) : i \in 1 .. Len(queue) /\ Enqueue(queue, p)[i] = queue[i]
           /\ Len(queue) + 1 \in Pending(Enqueue(queue, p))
                => Enqueue(queue, p)[Len(queue) + 1] = p
<1>1. CASE Len(queue) < QUEUE_MAX
  <2>1. Enqueue(queue, p) = Append(queue, p)
    BY <1>1 DEF Enqueue
  <2>2. /\ Append(queue, p) \in Seq(Packets)
        /\ Len(Append(queue, p)) = Len(queue) + 1
        /\ \A i \in 1 .. Len(queue) : Append(queue, p)[i] = queue[i]
        /\ Append(queue, p)[Len(queue) + 1] = p
    BY AppendProperties
  <2> QED
    BY <2>1, <2>2 DEF Pending
<1>2. CASE ~(Len(queue) < QUEUE_MAX)
  BY <1>2, RelayAssumption DEF Enqueue, Pending
<1> QED
  BY <1>1, <1>2

(* A dequeue moves every other packet one place forward.                   *)
LEMMA DequeueFacts ==
    ASSUME NEW queue \in Seq(Packets), queue # <<>>
    PROVE  /\ Tail(queue) \in Seq(Packets)
           /\ Head(queue) \in Packets
           /\ Head(queue) = queue[1]
           /\ Head(queue) # Null => 1 \in Pending(queue)
           /\ \A i \in Pending(Tail(queue)) :
                 i \in Nat \ {0} /\ i + 1 \in Pending(queue) /\ Tail(queue)[i] = queue[i + 1]
<1>1. /\ Head(queue) \in Packets
      /\ Tail(queue) \in Seq(Packets)
      /\ Len(Tail(queue)) = Len(queue) - 1
      /\ \A i \in 1 .. Len(Tail(queue)) : Tail(queue)[i] = queue[i + 1]
  BY HeadTailProperties
<1> QED
  BY <1>1 DEF Pending

(* Packets are setup packets or null.                                      *)
LEMMA PacketFacts ==
    /\ Null \in Packets
    /\ \A p \in SetupPackets : p \in Packets /\ p # Null
    /\ \A p \in Packets : p # Null => p \in SetupPackets
  BY NullAssumption DEF Packets

(* A fresh packet is well typed and is not the null one.                   *)
LEMMA NewPacketType ==
    ASSUME NEW n \in Nat, NEW k \in Kinds
    PROVE  NewSetupPacket(n, k) \in SetupPackets /\ NewSetupPacket(n, k).id = n
  BY DEF NewSetupPacket, SetupPackets

-----------------------------------------------------------------------------
(* Where each thread may hold a packet, and which threads run when.        *)
Points ==
    /\ rpc \in {"off", "request", "dequeue", "exited"} => rp = Null
    /\ rpc = "enqueue" => rp # Null /\ rp.id = asked
    /\ rpc \in {"request", "enqueue"} => direction_out
    /\ rpc = "top" /\ direction_out => rp = Null
    /\ rpc \in {"dequeue", "got", "complete"} => ~direction_out
    /\ wpc \in {"off", "top", "dequeue", "exited"} => wp = Null
    /\ wpc \in {"filterOut", "request", "setConfig", "filterIn"} => wp # Null
    /\ mpc \in {"idle", "connected", "joinWriter", "disconnect"} => rpc = "off"
    /\ mpc \in {"idle", "connected", "readerStarted", "disconnect"} => wpc = "off"
    /\ taken => transfer # 0

TypeInv == TypeOK /\ Points

(* The initial state is well typed, every thread at a point it can be at.  *)
LEMMA InitTypes == Init => TypeInv
<1> SUFFICES ASSUME Init PROVE TypeInv
  OBVIOUS
<1>1. NewSetupPacket(0, "IN") \in SetupPackets
  BY NewPacketType DEF Kinds
<1>2. answer \in AnswerRecords
  BY <1>1 DEF AnswerRecords, Init, AnswerWith, SetupPackets
<1>3. FlagsOK
  BY DEF Init, FlagsOK
<1>4. Points
  BY DEF Init, Points
<1> QED
  BY <1>2, <1>3, <1>4, PacketFacts
  DEF Init, TypeInv, TypeOK, Kinds, ReaderPoints, WriterPoints, ManagerPoints

(* The flags stay Boolean.                                                 *)
LEMMA NextFlags == FlagsOK /\ [Next]_vars => FlagsOK'
<1> SUFFICES ASSUME FlagsOK, [Next]_vars PROVE FlagsOK'
  OBVIOUS
<1> USE DEF FlagsOK, hostVars, readerVars, writerVars, mgrVars
<1>1. CASE HostSetup \/ Finished \/ UNCHANGED vars
  BY <1>1 DEF HostSetup, Finished, vars
<1>2. CASE Reader
  BY <1>2 DEF Reader, ReaderTop, ReaderExit, ReaderControlRequest, ReaderRequestTimeout,
              ReaderEnqueue, ReaderDequeue, ReaderNothing, ReaderAnswer, ReaderComplete,
              ReaderIncomplete
<1>3. CASE Writer
  BY <1>3 DEF Writer, WriterOwn, WriterTop, WriterExit, WriterDequeue, WriterGot, WriterFilterOut,
              WriterDrop, WriterForward, WriterControlRequest, WriterSetConfig,
              WriterFilterIn, WriterEnqueue
<1>4. CASE Starting \/ StopRelaying
  BY <1>4 DEF Starting, Start, StartReader, StartWriter, StopRelaying
<1>5. CASE Stopping
  BY <1>5 DEF Stopping, SignalReader, WakeReader, SignalWriter, WakeWriter, JoinReader,
              JoinWriter, Disconnect
<1> QED
  BY <1>1, <1>2, <1>3, <1>4, <1>5 DEF Next

(* Every step of the host, a relayer or the manager keeps the types.       *)
LEMMA NextTypes == TypeInv /\ [Next]_vars => TypeInv'
<1> SUFFICES ASSUME TypeInv, [Next]_vars PROVE TypeInv'
  OBVIOUS
<1>f. FlagsOK'
  BY NextFlags DEF TypeInv, TypeOK
<1> USE <1>f, RelayAssumption, PacketFacts
    DEF TypeInv, TypeOK, Points, hostVars, devVars, readerVars, writerVars, mgrVars,
        ReaderPoints, WriterPoints, ManagerPoints
<1>1. CASE HostSetup
  BY <1>1 DEF HostSetup
<1>2. CASE ReaderTop
  BY <1>2 DEF ReaderTop, ReaderExit
<1>3. CASE ReaderControlRequest
  <2>1. PICK k \in Kinds :
          /\ rp' = NewSetupPacket(transfer, k)
          /\ \/ /\ answer' = EarlyAck(transfer, k) /\ transfer' = 0 /\ taken' = taken
                /\ promised' \in {transfer, promised}
             \/ /\ taken' = TRUE /\ UNCHANGED <<answer, transfer, promised>>
    BY <1>3 DEF ReaderControlRequest
  <2>2. rp' \in SetupPackets /\ rp'.id = transfer
    BY <2>1, NewPacketType
  <2>3. EarlyAck(transfer, k) \in AnswerRecords
    <3> DEFINE p == NewSetupPacket(transfer, k)
    <3>1. p \in SetupPackets
      BY NewPacketType
    <3>2. transfer \in Nat
      OBVIOUS
    <3> HIDE DEF p
    <3>3. AnswerWith(transfer, p) \in AnswerRecords
      BY ONLY <3>1, <3>2 DEF AnswerWith, AnswerRecords, SetupPackets
    <3>4. [AnswerWith(transfer, p) EXCEPT !.how = "early"] \in AnswerRecords
      BY ONLY <3>3 DEF AnswerRecords
    <3> QED
      BY <3>4 DEF EarlyAck, p
  <2> QED
    BY <1>3, <2>1, <2>2, <2>3 DEF ReaderControlRequest
<1>4. CASE ReaderRequestTimeout
  BY <1>4 DEF ReaderRequestTimeout
<1>5. CASE ReaderEnqueue
  <2>1. readersend' \in Seq(Packets)
    BY <1>5, EnqueueFacts DEF ReaderEnqueue
  <2> QED
    BY <1>5, <2>1 DEF ReaderEnqueue
<1>6. CASE ReaderDequeue
  <2>1. writersend' \in Seq(Packets) /\ rp' \in Packets
    BY <1>6, DequeueFacts DEF ReaderDequeue
  <2> QED
    BY <1>6, <2>1 DEF ReaderDequeue
<1>7. CASE ReaderNothing
  BY <1>7 DEF ReaderNothing, ReaderExit
<1>8. CASE ReaderAnswer
  <2>1. AnswerWith(transfer, rp) \in AnswerRecords
    BY <1>8, PacketFacts DEF AnswerRecords, ReaderAnswer, AnswerWith, SetupPackets
  <2> QED
    BY <1>8, <2>1 DEF ReaderAnswer
<1>9. CASE ReaderComplete
  BY <1>9 DEF ReaderComplete
<1>10. CASE ReaderIncomplete
  BY <1>10 DEF ReaderIncomplete
<1>11. CASE WriterTop
  BY <1>11 DEF WriterTop, WriterExit
<1>12. CASE WriterDequeue
  <2>1. readersend' \in Seq(Packets) /\ wp' \in Packets
    BY <1>12, DequeueFacts DEF WriterDequeue
  <2> QED
    BY <1>12, <2>1 DEF WriterDequeue
<1>13. CASE WriterGot
  BY <1>13 DEF WriterGot, WriterExit
<1>14. CASE WriterFilterOut
  <2>1. wp' \in SetupPackets
    BY <1>14 DEF WriterFilterOut, SetupPackets
  <2> QED
    BY <1>14, <2>1 DEF WriterFilterOut
<1>15. CASE WriterDrop
  BY <1>15 DEF WriterDrop
<1>16. CASE WriterForward
  BY <1>16 DEF WriterForward
<1>17. CASE WriterControlRequest
  <2>1. wp' \in SetupPackets
    <3>1. PICK ok \in BOOLEAN, length \in BOOLEAN :
            wp' = [wp EXCEPT !.transmit_in = ok,
                             !.hasData = (wp.kind = "IN" /\ length),
                             !.device = IF ok THEN "ok" ELSE "failed"]
      BY <1>17 DEF WriterControlRequest
    <3>2. wp \in SetupPackets
      BY <1>17 DEF WriterControlRequest
    <3>3. (wp.kind = "IN" /\ length) \in BOOLEAN
      OBVIOUS
    <3>4. (IF ok THEN "ok" ELSE "failed") \in {"unasked", "ok", "failed"}
      OBVIOUS
    <3> DEFINE h == wp.kind = "IN" /\ length
               d == IF ok THEN "ok" ELSE "failed"
    <3>5. /\ wp' = [wp EXCEPT !.transmit_in = ok, !.hasData = h, !.device = d]
          /\ h \in BOOLEAN /\ d \in {"unasked", "ok", "failed"}
      BY <3>1, <3>3, <3>4
    <3> HIDE DEF h, d
    <3> QED
      BY ONLY <3>2, <3>5, ok \in BOOLEAN DEF SetupPackets
  <2>2. wp.id \in Nat
    BY <1>17 DEF WriterControlRequest, SetupPackets
  <2> QED
    BY <1>17, <2>1, <2>2 DEF WriterControlRequest
<1>18. CASE WriterSetConfig
  BY <1>18 DEF WriterSetConfig, SetupPackets
<1>19. CASE WriterFilterIn
  <2>1. wp' \in SetupPackets
    <3>1. PICK more, transmit \in BOOLEAN :
            wp' = [wp EXCEPT !.filter_in = more, !.transmit_in = transmit,
                             !.overridden = (@ \/ transmit # wp.transmit_in)]
      BY <1>19 DEF WriterFilterIn
    <3>2. wp \in SetupPackets
      BY <1>19 DEF WriterFilterIn
    <3> DEFINE o == wp.overridden \/ transmit # wp.transmit_in
    <3>3. wp' = [wp EXCEPT !.filter_in = more, !.transmit_in = transmit, !.overridden = o] /\ o \in BOOLEAN
      BY <3>1
    <3> HIDE DEF o
    <3> QED
      BY ONLY <3>2, <3>3, more \in BOOLEAN, transmit \in BOOLEAN DEF SetupPackets
  <2> QED
    BY <1>19, <2>1 DEF WriterFilterIn
<1>20. CASE WriterEnqueue
  <2>1. writersend' \in Seq(Packets)
    BY <1>20, EnqueueFacts DEF WriterEnqueue
  <2> QED
    BY <1>20, <2>1 DEF WriterEnqueue
<1>21. CASE Starting
  BY <1>21 DEF Starting, Start, StartReader, StartWriter
<1>22. CASE StopRelaying
  BY <1>22 DEF StopRelaying
<1>23. CASE SignalReader \/ SignalWriter
  BY <1>23 DEF SignalReader, SignalWriter
<1>24. CASE WakeReader
  <2>1. writersend' \in Seq(Packets)
    BY <1>24, EnqueueFacts DEF WakeReader
  <2> QED
    BY <1>24, <2>1 DEF WakeReader
<1>25. CASE WakeWriter
  <2>1. readersend' \in Seq(Packets)
    BY <1>25, EnqueueFacts DEF WakeWriter
  <2> QED
    BY <1>25, <2>1 DEF WakeWriter
<1>26. CASE JoinReader \/ JoinWriter
  BY <1>26 DEF JoinReader, JoinWriter
<1>27. CASE Disconnect
  BY <1>27 DEF Disconnect
<1>28. CASE UNCHANGED vars
  BY <1>28 DEF vars
<1> QED
  BY <1>1, <1>2, <1>3, <1>4, <1>5, <1>6, <1>7, <1>8, <1>9, <1>10, <1>11, <1>12, <1>13, <1>14,
     <1>15, <1>16, <1>17, <1>18, <1>19, <1>20, <1>21, <1>22, <1>23, <1>24, <1>25, <1>26, <1>27,
     <1>28
  DEF Next, Reader, Writer, WriterOwn, Stopping, Finished

(* Type correctness, and which thread may hold a packet where.             *)
LEMMA TypeInvariance == Spec => []TypeInv
  BY InitTypes, NextTypes, PTL DEF Spec

(* The relayers, the queues and the host's view of its transfers are well  *)
(* typed in every session.                                                 *)
THEOREM TypeCorrect == Spec => []TypeOK
  BY TypeInvariance, PTL DEF TypeInv

-----------------------------------------------------------------------------
(* At most one packet on its way                                           *)

(* The reader has enqueued a request and not yet dequeued an answer.       *)
Waits == ~direction_out /\ rpc # "complete" /\ (rpc = "top" => rp = Null)

(* While a packet is in a queue or with the writer the reader waits for it *)
(* and asks for no other request, although an early acknowledgement may    *)
(* have let the host issue one.                                            *)
Alternates == Pending(readersend) # {} \/ Pending(writersend) # {} \/ InWriter => Waits

Token == OneToken /\ Alternates
SingleToken == clean /\ mpc # "idle" => Token

(* Before the first session there is no packet at all.                     *)
LEMMA InitSingle == Init => SingleToken
  BY DEF Init, SingleToken

(* A session starts with no packet on its way.                             *)
LEMMA StartClean == TypeInv /\ Start => SingleToken'
<1> SUFFICES ASSUME TypeInv, Start, clean' PROVE Token'
  BY DEF SingleToken
<1>1. readersend' = <<>> /\ writersend' = <<>>
  BY DEF Start
<1>2. rp' = Null /\ wp' = Null
  BY DEF Start, TypeInv, Points
<1> QED
  BY <1>1, <1>2 DEF Token, OneToken, Alternates, Pending, InReader, InWriter

(* Every other step of a session keeps the one packet one.                 *)
LEMMA NextToken ==
    ASSUME TypeInv, OneToken, Alternates, [Next]_vars, ~Start, ~Disconnect
    PROVE  OneToken'
<1> USE DEF hostVars, devVars, readerVars, writerVars, mgrVars
<1>t. /\ readersend \in Seq(Packets) /\ writersend \in Seq(Packets)
      /\ rp \in Packets /\ wp \in Packets /\ Null \in Packets
  BY PacketFacts DEF TypeInv, TypeOK
\* Steps that move no packet and leave the transfer alone.
<1>a. ASSUME UNCHANGED <<readersend, writersend, transfer, taken, asked, hostProxy>>,
             InReader' => InReader /\ rp' = rp,
             InWriter' => InWriter /\ wp'.id = wp.id /\ wp'.kind = wp.kind
      PROVE  OneToken'
  BY <1>a DEF OneToken, Pending, InReader, InWriter, Owned, Early
<1>1. CASE HostSetup
  <2>1. ~taken
    BY <1>1 DEF HostSetup, TypeInv, Points
  <2> QED
    BY <1>1, <2>1 DEF HostSetup, OneToken, Pending, InReader, InWriter, Owned, Early
<1>2. CASE ReaderTop
  BY <1>2, <1>a DEF ReaderTop, ReaderExit, InReader, InWriter
<1>3. CASE ReaderControlRequest
  <2>1. Pending(readersend) = {} /\ Pending(writersend) = {} /\ ~InWriter
    BY <1>3 DEF ReaderControlRequest, Alternates, Waits, TypeInv, Points
  <2>2. /\ UNCHANGED <<readersend, writersend, wp, hostProxy>>
        /\ asked' = transfer /\ ~taken /\ rpc' = "enqueue"
    BY <1>3 DEF ReaderControlRequest
  <2>3. PICK k \in Kinds : /\ rp' = NewSetupPacket(transfer, k)
                           /\ IF Early(k) THEN taken' = taken
                                          ELSE taken' = TRUE /\ transfer' = transfer
    BY <1>3 DEF ReaderControlRequest
  <2>4. rp'.id = transfer /\ rp'.kind = k
    BY <2>3 DEF NewSetupPacket
  <2>5. Owned(rp)'
    BY <2>2, <2>3, <2>4 DEF Owned, Early
  <2> QED
    BY <2>1, <2>2, <2>5 DEF OneToken, InReader, InWriter
<1>4. CASE ReaderRequestTimeout
  BY <1>4, <1>a DEF ReaderRequestTimeout, InReader, InWriter
<1>5. CASE ReaderEnqueue
  <2>1. InReader /\ ~InWriter /\ Owned(rp)
    BY <1>5 DEF ReaderEnqueue, InReader, InWriter, OneToken, TypeInv, Points
  <2>2. Pending(readersend) = {} /\ Pending(writersend) = {}
    BY <2>1 DEF OneToken
  <2>3. \A i \in Pending(Enqueue(readersend, rp)) :
           i = Len(readersend) + 1 /\ Enqueue(readersend, rp)[i] = rp
    <3>1. /\ Pending(Enqueue(readersend, rp)) \subseteq Pending(readersend) \cup {Len(readersend) + 1}
          /\ Len(readersend) + 1 \in Pending(Enqueue(readersend, rp))
               => Enqueue(readersend, rp)[Len(readersend) + 1] = rp
      BY <1>t, EnqueueFacts
    <3> QED
      BY <2>2, <3>1
  <2>4. /\ readersend' = Enqueue(readersend, rp) /\ ~InReader' /\ ~InWriter'
        /\ UNCHANGED <<writersend, taken, transfer, asked, hostProxy>>
    BY <1>5, <2>1 DEF ReaderEnqueue, InReader, InWriter
  <2> QED
    BY <2>1, <2>2, <2>3, <2>4 DEF OneToken, Owned, Early
<1>6. CASE ReaderDequeue
  <2>1. /\ rp' # Null => 1 \in Pending(writersend)
        /\ rp' = writersend[1]
        /\ \A i \in Pending(writersend') :
              /\ i \in Nat \ {0} /\ i + 1 \in Pending(writersend)
              /\ writersend'[i] = writersend[i + 1]
    BY <1>6, <1>t, DequeueFacts DEF ReaderDequeue
  <2>2. UNCHANGED <<readersend, taken, transfer, asked, hostProxy, wp>> /\ (InReader' <=> rp' # Null)
    BY <1>6 DEF ReaderDequeue, InReader
  <2>3. CASE rp' = Null
    <3>1. \A i, k \in Pending(writersend') : i = k
      BY <2>1 DEF OneToken
    <3>2. Pending(writersend') # {} => Pending(writersend) # {}
      BY <2>1
    <3> QED
      BY <2>1, <2>2, <2>3, <3>1, <3>2 DEF OneToken, InWriter, Owned, Early
  <2>4. CASE rp' # Null
    <3>1. Pending(writersend') = {}
      BY <2>1, <2>4 DEF OneToken
    <3>2. Owned(rp') /\ ~InWriter /\ Pending(readersend) = {}
      BY <2>1, <2>4 DEF OneToken
    <3> QED
      BY <2>2, <2>4, <3>1, <3>2 DEF OneToken, InWriter, Owned, Early
  <2> QED
    BY <2>3, <2>4
<1>7. CASE ReaderNothing
  BY <1>7, <1>a DEF ReaderNothing, ReaderExit, InReader, InWriter
<1>8. CASE ReaderAnswer
  BY <1>8 DEF ReaderAnswer, OneToken, InReader, InWriter
<1>9. CASE ReaderComplete \/ ReaderIncomplete
  BY <1>9, <1>a DEF ReaderComplete, ReaderIncomplete, InReader, InWriter
<1>10. CASE WriterTop
  BY <1>10, <1>a DEF WriterTop, WriterExit, InReader, InWriter
<1>11. CASE WriterDequeue
  <2>1. /\ wp' # Null => 1 \in Pending(readersend)
        /\ wp' = readersend[1]
        /\ \A i \in Pending(readersend') :
              /\ i \in Nat \ {0} /\ i + 1 \in Pending(readersend)
              /\ readersend'[i] = readersend[i + 1]
    BY <1>11, <1>t, DequeueFacts DEF WriterDequeue
  <2>2. UNCHANGED <<writersend, taken, transfer, asked, hostProxy, rp, rpc>> /\ ~InWriter
    BY <1>11 DEF WriterDequeue, InWriter, TypeInv, Points
  <2>3. CASE wp' = Null
    <3>1. \A i, k \in Pending(readersend') : i = k
      BY <2>1 DEF OneToken
    <3>2. Pending(readersend') # {} => Pending(readersend) # {}
      BY <2>1
    <3> QED
      BY <2>1, <2>2, <2>3, <3>1, <3>2 DEF OneToken, InReader, InWriter, Owned, Early
  <2>4. CASE wp' # Null
    <3>1. Pending(readersend') = {}
      BY <2>1, <2>4 DEF OneToken
    <3>2. Owned(wp') /\ ~InReader /\ Pending(writersend) = {}
      BY <2>1, <2>4 DEF OneToken
    <3> QED
      BY <2>2, <2>4, <3>1, <3>2 DEF OneToken, InReader, InWriter, Owned, Early
  <2> QED
    BY <2>3, <2>4
<1>12. CASE WriterGot
  BY <1>12, <1>a DEF WriterGot, WriterExit, InReader, InWriter
<1>13. CASE WriterFilterOut
  <2>1. InWriter /\ wp'.id = wp.id /\ wp'.kind = wp.kind
    BY <1>13, <1>t, PacketFacts DEF WriterFilterOut, InWriter, TypeInv, Points, SetupPackets
  <2> QED
    BY <1>13, <2>1, <1>a DEF WriterFilterOut, InReader
<1>14. CASE WriterDrop
  BY <1>14, <1>a DEF WriterDrop, InReader, InWriter
<1>15. CASE WriterForward
  BY <1>15, <1>a DEF WriterForward, InReader, InWriter
<1>16. CASE WriterControlRequest
  <2>1. InWriter /\ wp'.id = wp.id /\ wp'.kind = wp.kind
    BY <1>16, <1>t, PacketFacts DEF WriterControlRequest, InWriter, TypeInv, Points, SetupPackets
  <2> QED
    BY <1>16, <2>1, <1>a DEF WriterControlRequest, InReader
<1>17. CASE WriterSetConfig
  BY <1>17, <1>a DEF WriterSetConfig, InReader, InWriter
<1>18. CASE WriterFilterIn
  <2>1. InWriter /\ wp'.id = wp.id /\ wp'.kind = wp.kind
    BY <1>18, <1>t, PacketFacts DEF WriterFilterIn, InWriter, TypeInv, Points, SetupPackets
  <2> QED
    BY <1>18, <2>1, <1>a DEF WriterFilterIn, InReader
<1>19. CASE WriterEnqueue
  <2>1. InWriter /\ ~InReader /\ Owned(wp)
    BY <1>19 DEF WriterEnqueue, InWriter, OneToken, TypeInv, Points
  <2>2. Pending(readersend) = {} /\ Pending(writersend) = {}
    BY <2>1 DEF OneToken
  <2>3. \A i \in Pending(Enqueue(writersend, wp)) :
           i = Len(writersend) + 1 /\ Enqueue(writersend, wp)[i] = wp
    <3>1. /\ Pending(Enqueue(writersend, wp)) \subseteq Pending(writersend) \cup {Len(writersend) + 1}
          /\ Len(writersend) + 1 \in Pending(Enqueue(writersend, wp))
               => Enqueue(writersend, wp)[Len(writersend) + 1] = wp
      BY <1>t, EnqueueFacts
    <3> QED
      BY <2>2, <3>1
  <2>4. /\ writersend' = Enqueue(writersend, wp) /\ ~InReader' /\ ~InWriter'
        /\ UNCHANGED <<readersend, taken, transfer, asked, hostProxy>>
    BY <1>19, <2>1 DEF WriterEnqueue, InReader, InWriter
  <2> QED
    BY <2>1, <2>2, <2>3, <2>4 DEF OneToken, Owned, Early
<1>20. CASE StartReader \/ StartWriter \/ StopRelaying
  <2>1. InReader' => InReader /\ rp' = rp
    BY <1>20 DEF StartReader, StartWriter, StopRelaying, InReader
  <2> QED
    BY <1>20, <2>1, <1>a DEF StartReader, StartWriter, StopRelaying, InWriter
<1>21. CASE SignalReader \/ SignalWriter
  BY <1>21, <1>a DEF SignalReader, SignalWriter, InReader, InWriter
<1>22. CASE WakeReader
  <2>1. /\ Pending(writersend') \subseteq Pending(writersend)
        /\ \A i \in Pending(writersend) : writersend'[i] = writersend[i]
    BY <1>22, <1>t, EnqueueFacts DEF WakeReader
  <2> QED
    BY <1>22, <2>1 DEF WakeReader, OneToken, InReader, InWriter, Owned, Early
<1>23. CASE WakeWriter
  <2>1. /\ Pending(readersend') \subseteq Pending(readersend)
        /\ \A i \in Pending(readersend) : readersend'[i] = readersend[i]
    BY <1>23, <1>t, EnqueueFacts DEF WakeWriter
  <2> QED
    BY <1>23, <2>1 DEF WakeWriter, OneToken, InReader, InWriter, Owned, Early
<1>24. CASE JoinReader \/ JoinWriter
  BY <1>24, <1>a DEF JoinReader, JoinWriter, InReader, InWriter
<1>25. CASE UNCHANGED vars
  BY <1>25, <1>a DEF vars, InReader, InWriter
<1> QED
  BY <1>1, <1>2, <1>3, <1>4, <1>5, <1>6, <1>7, <1>8, <1>9, <1>10, <1>11, <1>12, <1>13, <1>14,
     <1>15, <1>16, <1>17, <1>18, <1>19, <1>20, <1>21, <1>22, <1>23, <1>24, <1>25
  DEF Next, Reader, Writer, WriterOwn, Starting, Stopping, Finished

(* The reader goes on to the next request only when nothing is on its way. *)
LEMMA NextAlternates ==
    ASSUME TypeInv, OneToken, Alternates, [Next]_vars, ~Start, ~Disconnect
    PROVE  Alternates'
<1> USE DEF hostVars, devVars, readerVars, writerVars, mgrVars
<1>t. /\ readersend \in Seq(Packets) /\ writersend \in Seq(Packets)
      /\ rp \in Packets /\ wp \in Packets /\ Null \in Packets
  BY PacketFacts DEF TypeInv, TypeOK
\* Steps that add no packet and let the reader wait on.
<1>a. ASSUME Waits => Waits',
             Pending(readersend') # {} \/ Pending(writersend') # {} \/ InWriter'
               => Pending(readersend) # {} \/ Pending(writersend) # {} \/ InWriter
      PROVE  Alternates'
  BY <1>a DEF Alternates
<1>b. ASSUME UNCHANGED <<readersend, writersend>>, InWriter' => InWriter, Waits => Waits'
      PROVE  Alternates'
  BY <1>a, <1>b
<1>1. CASE HostSetup \/ StopRelaying \/ StartWriter
  BY <1>1, <1>b DEF HostSetup, StopRelaying, StartWriter, Waits, InWriter
<1>2. CASE ReaderTop \/ ReaderRequestTimeout \/ ReaderNothing \/ ReaderIncomplete
  <2>1. Waits => Waits'
    BY <1>2 DEF ReaderTop, ReaderExit, ReaderRequestTimeout, ReaderNothing, ReaderIncomplete,
                Waits, TypeInv, Points
  <2> QED
    BY <1>2, <2>1, <1>b DEF ReaderTop, ReaderRequestTimeout, ReaderNothing, ReaderIncomplete, InWriter
<1>3. CASE ReaderControlRequest
  <2>1. ~Waits /\ UNCHANGED <<readersend, writersend, wp>>
    BY <1>3 DEF ReaderControlRequest, Waits, TypeInv, Points
  <2> QED
    BY <2>1 DEF Alternates, InWriter
<1>4. CASE ReaderEnqueue
  BY <1>4 DEF ReaderEnqueue, Alternates, Waits
<1>5. CASE ReaderDequeue
  BY <1>5 DEF ReaderDequeue, Alternates, Waits, TypeInv, Points
<1>6. CASE ReaderAnswer
  <2>1. InReader /\ UNCHANGED <<readersend, writersend, wp>>
    BY <1>6 DEF ReaderAnswer, InReader
  <2> QED
    BY <2>1 DEF OneToken, Alternates, InWriter
<1>7. CASE ReaderComplete
  <2>1. ~Waits /\ UNCHANGED <<readersend, writersend, wp>>
    BY <1>7 DEF ReaderComplete, Waits
  <2> QED
    BY <2>1 DEF Alternates, InWriter
<1>8. CASE WriterTop \/ WriterGot \/ WriterFilterOut \/ WriterDrop \/ WriterForward
           \/ WriterControlRequest \/ WriterSetConfig \/ WriterFilterIn
  <2>1. UNCHANGED <<readersend, writersend, rpc, rp, direction_out>> /\ (InWriter' => InWriter)
    BY <1>8 DEF WriterTop, WriterExit, WriterGot, WriterFilterOut, WriterDrop, WriterForward,
                WriterControlRequest, WriterSetConfig, WriterFilterIn, InWriter, TypeInv, Points
  <2> QED
    BY <2>1, <1>b DEF Waits
<1>9. CASE WriterDequeue
  <2>1. /\ wp' # Null => 1 \in Pending(readersend)
        /\ \A i \in Pending(readersend') : i + 1 \in Pending(readersend)
    BY <1>9, <1>t, DequeueFacts DEF WriterDequeue
  <2>2. UNCHANGED <<writersend, rpc, rp, direction_out>>
    BY <1>9 DEF WriterDequeue
  <2> QED
    BY <2>1, <2>2, <1>a DEF Waits, InWriter
<1>10. CASE WriterEnqueue
  <2>1. InWriter /\ UNCHANGED <<rpc, rp, direction_out>>
    BY <1>10 DEF WriterEnqueue, InWriter, TypeInv, Points
  <2> QED
    BY <2>1 DEF Alternates, Waits
<1>11. CASE StartReader
  <2>1. (Waits => Waits') /\ UNCHANGED <<readersend, writersend, wp>>
    BY <1>11 DEF StartReader, Waits, TypeInv, Points
  <2> QED
    BY <2>1, <1>b DEF InWriter
<1>12. CASE SignalReader \/ SignalWriter \/ JoinReader \/ JoinWriter
  <2>1. (Waits => Waits') /\ UNCHANGED <<readersend, writersend, wp>>
    BY <1>12 DEF SignalReader, SignalWriter, JoinReader, JoinWriter, Waits, TypeInv, Points
  <2> QED
    BY <2>1, <1>b DEF InWriter
<1>13. CASE WakeReader
  <2>1. Pending(writersend') \subseteq Pending(writersend)
    BY <1>13, <1>t, EnqueueFacts DEF WakeReader
  <2>2. UNCHANGED <<readersend, wp, rpc, rp, direction_out>>
    BY <1>13 DEF WakeReader
  <2> QED
    BY <2>1, <2>2, <1>a DEF Waits, InWriter
<1>14. CASE WakeWriter
  <2>1. Pending(readersend') \subseteq Pending(readersend)
    BY <1>14, <1>t, EnqueueFacts DEF WakeWriter
  <2>2. UNCHANGED <<writersend, wp, rpc, rp, direction_out>>
    BY <1>14 DEF WakeWriter
  <2> QED
    BY <2>1, <2>2, <1>a DEF Waits, InWriter
<1>15. CASE UNCHANGED vars
  BY <1>15, <1>b DEF vars, Waits, InWriter
<1> QED
  BY <1>1, <1>2, <1>3, <1>4, <1>5, <1>6, <1>7, <1>8, <1>9, <1>10, <1>11, <1>12, <1>13, <1>14, <1>15
  DEF Next, Reader, Writer, WriterOwn, Starting, Stopping, Finished

(* Only Start and Disconnect begin or end a session.                       *)
LEMMA SameSession ==
    ASSUME [Next]_vars, ~Start, ~Disconnect
    PROVE  clean' = clean /\ (mpc' # "idle" => mpc # "idle")
  BY DEF Next, HostSetup, Finished, Reader, ReaderTop, ReaderControlRequest,
         ReaderRequestTimeout, ReaderEnqueue, ReaderDequeue, ReaderNothing, ReaderAnswer,
         ReaderComplete, ReaderIncomplete, Writer, WriterOwn, WriterTop, WriterDequeue, WriterGot,
         WriterFilterOut, WriterDrop, WriterForward, WriterControlRequest, WriterSetConfig,
         WriterFilterIn, WriterEnqueue, Starting, StartReader, StartWriter, StopRelaying,
         Stopping, SignalReader, WakeReader, SignalWriter, WakeWriter, JoinReader,
         JoinWriter, mgrVars, vars

(* Every step of every session keeps the one packet one.                   *)
LEMMA NextSingle == TypeInv /\ SingleToken /\ [Next]_vars => SingleToken'
<1> SUFFICES ASSUME TypeInv, SingleToken, [Next]_vars PROVE SingleToken'
  OBVIOUS
<1>1. CASE Start
  BY <1>1, StartClean
<1>2. CASE Disconnect
  BY <1>2 DEF Disconnect, SingleToken
<1>3. CASE ~Start /\ ~Disconnect
  <2>1. clean' = clean /\ (mpc' # "idle" => mpc # "idle")
    BY <1>3, SameSession
  <2>2. OneToken /\ Alternates => OneToken' /\ Alternates'
    BY <1>3, NextToken, NextAlternates
  <2> QED
    BY <2>1, <2>2 DEF SingleToken, Token
<1> QED
  BY <1>1, <1>2, <1>3

(* Hence in every reachable state.                                         *)
LEMMA SingleInvariance == Spec => []SingleToken
  BY TypeInvariance, InitSingle, NextSingle, PTL DEF Spec

(* At most one control packet is on its way in a session that starts with  *)
(* empty queues: the one handed out last, for which the host waits or      *)
(* which was acknowledged early.                                           *)
THEOREM OneInFlight == Spec => []SingleInFlight
<1>1. SingleToken => SingleInFlight
  BY DEF SingleToken, SingleInFlight, Token
<1> QED
  BY <1>1, SingleInvariance, PTL

(* Such a session never hands the host the answer to another request.      *)
THEOREM CleanSessionsPair == Spec => PairedInCleanSession
<1>1. TypeInv /\ SingleInFlight /\ [Next]_vars =>
        [clean /\ answer' # answer => answer'.id = answer'.transfer]_vars
  <2> SUFFICES ASSUME TypeInv, SingleInFlight, Next, clean, answer' # answer
               PROVE  answer'.id = answer'.transfer
    OBVIOUS
  <2>1. ReaderAnswer \/ ReaderControlRequest
    BY DEF Next, HostSetup, Finished, Reader, ReaderTop, ReaderExit, ReaderRequestTimeout, ReaderEnqueue, ReaderDequeue, ReaderNothing, ReaderComplete,
           ReaderIncomplete, Writer, WriterOwn, WriterTop, WriterExit, WriterDequeue, WriterGot,
           WriterFilterOut, WriterDrop, WriterForward, WriterControlRequest, WriterSetConfig,
           WriterFilterIn, WriterEnqueue, Starting, Start, StartReader, StartWriter,
           StopRelaying, Stopping, SignalReader, WakeReader, SignalWriter, WakeWriter,
           JoinReader, JoinWriter, Disconnect, hostVars, vars
  <2>2. CASE ReaderAnswer
    <3>1. InReader /\ mpc # "idle" /\ taken
      BY <2>2 DEF ReaderAnswer, InReader, TypeInv, Points
    <3>2. answer'.id = rp.id /\ answer'.transfer = transfer
      BY <2>2, <3>1 DEF ReaderAnswer, AnswerWith
    <3> QED
      BY <3>1, <3>2 DEF SingleInFlight, OneToken, Owned
  <2>3. CASE ReaderControlRequest
    <3>1. \E k \in Kinds : answer' = EarlyAck(transfer, k)
      BY <2>3 DEF ReaderControlRequest
    <3> QED
      BY <3>1 DEF EarlyAck, AnswerWith, NewSetupPacket
  <2> QED
    BY <2>1, <2>2, <2>3
<1> QED
  BY <1>1, TypeInvariance, OneInFlight, PTL DEF Spec, PairedInCleanSession

-----------------------------------------------------------------------------
(* The device executes requests in order, whatever the queues held         *)

(* The request handed out last has not reached _readersend yet.            *)
Fresh == rpc = "enqueue"

(* What the queue and the writer still hold is newer than what the device  *)
(* has executed and older than what has not been enqueued.                 *)
Order ==
    /\ transfer = 0 \/ transfer = nreq
    /\ asked <= nreq
    /\ transfer # 0 /\ ~taken => asked < nreq
    /\ executed <= asked
    /\ Fresh => executed < asked
    /\ \A i \in Pending(readersend) : executed < readersend[i].id /\ readersend[i].id <= asked
    /\ \A i \in Pending(readersend) : Fresh => readersend[i].id < asked
    /\ \A i, k \in Pending(readersend) : i < k => readersend[i].id < readersend[k].id
    /\ wp # Null => wp.id <= asked /\ (Fresh => wp.id < asked)
    /\ wp # Null => \A i \in Pending(readersend) : wp.id < readersend[i].id
    /\ wp # Null /\ wpc \in {"got", "filterOut", "request"} => executed < wp.id

(* Nothing has been executed and nothing is waiting to be.                 *)
LEMMA InitOrder == Init => Order
  BY DEF Init, Order, Fresh, Pending

(* Every step keeps what waits for the device newer than what it executed. *)
LEMMA NextOrder == TypeInv /\ Order /\ [Next]_vars => Order'
<1> SUFFICES ASSUME TypeInv, Order, [Next]_vars PROVE Order'
  OBVIOUS
<1> USE DEF hostVars, devVars, readerVars, writerVars, mgrVars
<1>t. /\ readersend \in Seq(Packets) /\ rp \in Packets /\ wp \in Packets /\ Null \in Packets
      /\ nreq \in Nat /\ executed \in Nat /\ transfer \in Nat /\ asked \in Nat
  BY PacketFacts DEF TypeInv, TypeOK
<1>i. /\ \A i \in Pending(readersend) : i \in Nat /\ readersend[i].id \in Nat
      /\ wp # Null => wp.id \in Nat
  BY <1>t, PacketFacts DEF Pending, SetupPackets
\* Steps that leave _readersend, the transfer and the device alone.
<1>a. ASSUME UNCHANGED <<readersend, nreq, executed, asked>>,
             transfer' = 0 \/ (transfer' = transfer /\ taken' = taken),
             Fresh' => Fresh, wp' # Null => wp # Null /\ wp'.id = wp.id,
             wp' # Null /\ wpc' \in {"got", "filterOut", "request"}
               => wpc \in {"got", "filterOut", "request"}
      PROVE  Order'
  BY <1>a DEF Order, Pending
<1>1. CASE HostSetup
  BY <1>1, <1>t, <1>i DEF HostSetup, Order, Pending, Fresh
<1>2. CASE ReaderTop \/ ReaderRequestTimeout \/ ReaderDequeue \/ ReaderNothing
           \/ ReaderAnswer \/ ReaderComplete \/ ReaderIncomplete
  <2>1. Fresh' => Fresh
    BY <1>2 DEF ReaderTop, ReaderExit, ReaderRequestTimeout, ReaderDequeue, ReaderNothing,
                ReaderAnswer, ReaderComplete, ReaderIncomplete, Fresh
  <2> QED
    BY <1>2, <2>1, <1>a DEF ReaderTop, ReaderExit, ReaderRequestTimeout, ReaderDequeue,
                ReaderNothing, ReaderAnswer, ReaderComplete, ReaderIncomplete
<1>3. CASE ReaderControlRequest
  <2>1. /\ transfer = nreq /\ asked < nreq /\ ~Fresh
        /\ asked' = nreq /\ UNCHANGED <<readersend, nreq, executed, wp, wpc>>
        /\ transfer' = 0 \/ (transfer' = transfer /\ taken')
    BY <1>3 DEF ReaderControlRequest, Order, Fresh
  <2> QED
    BY <2>1, <1>t, <1>i DEF Order, Pending
<1>4. CASE ReaderEnqueue
  <2>1. Fresh /\ ~Fresh' /\ rp # Null /\ rp.id = asked
    BY <1>4 DEF ReaderEnqueue, Fresh, TypeInv, Points, Order
  <2>2. /\ UNCHANGED <<nreq, transfer, taken, asked, executed, wp, wpc>>
        /\ readersend' = Enqueue(readersend, rp)
    BY <1>4 DEF ReaderEnqueue
  <2>3. /\ Pending(readersend') \subseteq Pending(readersend) \cup {Len(readersend) + 1}
        /\ \A i \in Pending(readersend) : i \in 1 .. Len(readersend) /\ readersend'[i] = readersend[i]
        /\ Len(readersend) + 1 \in Pending(readersend') => readersend'[Len(readersend) + 1] = rp
        /\ Len(readersend) \in Nat
    <3> DEFINE new == Enqueue(readersend, rp)
    <3>1. /\ Pending(new) \subseteq Pending(readersend) \cup {Len(readersend) + 1}
          /\ \A i \in Pending(readersend) : i \in 1 .. Len(readersend) /\ new[i] = readersend[i]
          /\ Len(readersend) + 1 \in Pending(new) => new[Len(readersend) + 1] = rp
      BY <1>t, EnqueueFacts
    <3>2. Len(readersend) \in Nat
      BY <1>t
    <3> QED
      BY <2>2, <3>1, <3>2
  <2>4. \A i, k \in Pending(readersend') : i < k => readersend'[i].id < readersend'[k].id
    BY <1>i, <1>t, <2>1, <2>3 DEF Order
  <2>5. \A i \in Pending(readersend') :
          /\ executed < readersend'[i].id /\ readersend'[i].id <= asked
          /\ wp # Null => wp.id < readersend'[i].id
    BY <1>i, <1>t, <2>1, <2>3 DEF Order
  <2> QED
    BY <2>1, <2>2, <2>4, <2>5 DEF Order
<1>5. CASE WriterDequeue
  <2>1. /\ UNCHANGED <<nreq, transfer, executed, taken, asked, rpc>>
        /\ wp' = readersend[1]
        /\ wp' # Null => 1 \in Pending(readersend)
        /\ \A i \in Pending(readersend') :
              /\ i \in Nat \ {0} /\ i + 1 \in Pending(readersend)
              /\ readersend'[i] = readersend[i + 1]
    BY <1>5, <1>t, DequeueFacts DEF WriterDequeue
  <2>2. Fresh' <=> Fresh
    BY <2>1 DEF Fresh
  <2>3. \A i, k \in Pending(readersend') : i < k => readersend'[i].id < readersend'[k].id
    BY <2>1 DEF Order
  <2>4. \A i \in Pending(readersend') :
          /\ executed < readersend'[i].id /\ readersend'[i].id <= asked
          /\ Fresh => readersend'[i].id < asked
          /\ wp' # Null => wp'.id < readersend'[i].id
    BY <2>1 DEF Order
  <2>5. wp' # Null => wp'.id <= asked /\ (Fresh => wp'.id < asked) /\ executed < wp'.id
    BY <2>1 DEF Order
  <2> QED
    BY <2>1, <2>2, <2>3, <2>4, <2>5 DEF Order
<1>6. CASE WriterTop \/ WriterGot \/ WriterDrop \/ WriterForward \/ WriterSetConfig \/ WriterEnqueue
  <2>1. Fresh' <=> Fresh
    BY <1>6 DEF WriterTop, WriterGot, WriterDrop, WriterForward, WriterSetConfig, WriterEnqueue, Fresh
  <2> QED
    BY <1>6, <2>1, <1>a DEF WriterTop, WriterExit, WriterGot, WriterDrop, WriterForward,
                            WriterSetConfig, WriterEnqueue
<1>7. CASE WriterFilterOut \/ WriterFilterIn
  <2>1. wp # Null /\ wp'.id = wp.id
    BY <1>7, <1>t, PacketFacts DEF WriterFilterOut, WriterFilterIn, TypeInv, Points, SetupPackets
  <2>2. Fresh' <=> Fresh
    <3>1. UNCHANGED <<transfer, taken, rpc>>
      BY <1>7 DEF WriterFilterOut, WriterFilterIn
    <3> QED
      BY <3>1 DEF Fresh
  <2> QED
    BY <1>7, <2>1, <2>2, <1>a DEF WriterFilterOut, WriterFilterIn
<1>8. CASE WriterControlRequest
  <2>1. wp # Null /\ wp'.id = wp.id /\ executed' = wp.id /\ wpc' \in {"setConfig", "filterIn"}
    BY <1>8, <1>t, PacketFacts DEF WriterControlRequest, TypeInv, Points, SetupPackets
  <2>2. UNCHANGED <<readersend, nreq, transfer, taken, asked, rpc>> /\ (Fresh' <=> Fresh)
    BY <1>8 DEF WriterControlRequest, Fresh
  <2> QED
    BY <2>1, <2>2, <1>i, <1>t DEF Order, Pending
<1>9. CASE Starting \/ StopRelaying
  <2>1. Fresh' => Fresh
    BY <1>9 DEF Starting, Start, StartReader, StartWriter, StopRelaying, Fresh
  <2>2. wp' = Null \/ (wp' = wp /\ wpc' = wpc)
    BY <1>9 DEF Starting, Start, StartReader, StartWriter, StopRelaying, TypeInv, Points
  <2> QED
    BY <1>9, <2>1, <2>2, <1>a DEF Starting, Start, StartReader, StartWriter, StopRelaying
<1>10. CASE SignalReader \/ SignalWriter \/ WakeReader \/ JoinReader \/ JoinWriter \/ Disconnect
  <2>1. Fresh' => Fresh
    BY <1>10 DEF SignalReader, SignalWriter, WakeReader, JoinReader, JoinWriter, Disconnect, Fresh
  <2> QED
    BY <1>10, <2>1, <1>a DEF SignalReader, SignalWriter, WakeReader, JoinReader, JoinWriter, Disconnect
<1>11. CASE WakeWriter
  <2>1. /\ Pending(readersend') \subseteq Pending(readersend)
        /\ \A i \in Pending(readersend) : readersend'[i] = readersend[i]
    BY <1>11, <1>t, EnqueueFacts DEF WakeWriter
  <2>2. UNCHANGED <<nreq, transfer, executed, taken, asked, wp, wpc>> /\ (Fresh' <=> Fresh)
    BY <1>11 DEF WakeWriter, Fresh
  <2>3. \A i \in Pending(readersend') : readersend'[i] = readersend[i] /\ i \in Pending(readersend)
    BY <2>1
  <2> QED
    BY <2>2, <2>3 DEF Order
<1>12. CASE UNCHANGED vars
  BY <1>12, <1>a DEF vars, Fresh
<1> QED
  BY <1>1, <1>2, <1>3, <1>4, <1>5, <1>6, <1>7, <1>8, <1>9, <1>10, <1>11, <1>12
  DEF Next, Reader, Writer, WriterOwn, Stopping, Finished

(* Hence that order holds in every reachable state.                        *)
LEMMA OrderInvariance == Spec => []Order
  BY TypeInvariance, InitOrder, NextOrder, PTL DEF Spec

(* Over any number of restarts, and with any leftovers in _readersend, the *)
(* device executes requests in the host's order and none of them twice.    *)
THEOREM InOrder == Spec => ExecutedInOrder
<1>1. TypeInv /\ Order /\ [Next]_vars => 
        [wpc = "request" /\ wpc' # "request" => executed' > executed]_vars
  <2> SUFFICES ASSUME TypeInv, Order, Next, wpc = "request", wpc' # "request"
               PROVE  executed' > executed
    OBVIOUS
  <2>1. WriterControlRequest
    BY DEF Next, HostSetup, Finished, Reader, ReaderTop, ReaderControlRequest,
           ReaderRequestTimeout, ReaderEnqueue, ReaderDequeue, ReaderNothing, ReaderAnswer,
           ReaderComplete, ReaderIncomplete, Writer, WriterOwn, WriterTop, WriterDequeue, WriterGot,
           WriterFilterOut, WriterDrop, WriterForward, WriterSetConfig, WriterFilterIn,
           WriterEnqueue, Starting, Start, StartReader, StartWriter, StopRelaying, Stopping,
           SignalReader, WakeReader, SignalWriter, WakeWriter, JoinReader, JoinWriter,
           Disconnect, writerVars, vars, TypeInv, Points
  <2>2. wp # Null /\ wpc = "request" /\ executed' = wp.id
    BY <2>1 DEF WriterControlRequest, TypeInv, Points
  <2>3. executed \in Nat /\ wp.id \in Nat
    BY <2>2, PacketFacts DEF TypeInv, TypeOK, SetupPackets
  <2> QED
    BY <2>2, <2>3 DEF Order
<1> QED
  BY <1>1, TypeInvariance, OrderInvariance, PTL DEF Spec, ExecutedInOrder

-----------------------------------------------------------------------------
(* What an answer says                                                     *)

(* A packet on its way back tells what the device said, or was overridden. *)
Honest(p) ==
    /\ ~p.overridden => p.device # "unasked" /\ (p.transmit_in <=> p.device = "ok")
    /\ p.hasData => p.kind = "IN"

(* Manager::setConfig() has run for the packet, if it asked for that.      *)
Configured(p) == p.kind = "SET_CONFIGURATION" => configured >= p.id

(* All packets behind the device are honest, and configured.               *)
Faithful ==
    /\ \A i \in Pending(writersend) : Honest(writersend[i]) /\ Configured(writersend[i])
    /\ rpc = "got" /\ rp # Null => Honest(rp) /\ Configured(rp)
    /\ wpc \in {"setConfig", "filterIn"} => Honest(wp)
    /\ wpc = "filterIn" => Configured(wp)
    /\ wpc = "setConfig" => wp.id = executed
    /\ configured <= executed
    /\ AnswerFaithful
    /\ answer.how # "early" => Configured(answer)

(* The host has seen no answer yet.                                        *)
LEMMA InitFaithful == Init => Faithful
  BY DEF Init, Faithful, Pending, AnswerFaithful, Configured, AnswerWith, NewSetupPacket

(* Every step keeps them so: configured only grows, because the device is  *)
(* asked in order, and a filter that changes transmit_in leaves its mark.  *)
LEMMA NextFaithful == TypeInv /\ Order /\ Faithful /\ [Next]_vars => Faithful'
<1> SUFFICES ASSUME TypeInv, Order, Faithful, [Next]_vars PROVE Faithful'
  OBVIOUS
<1> USE DEF hostVars, devVars, readerVars, writerVars, mgrVars
<1>t. /\ writersend \in Seq(Packets) /\ rp \in Packets /\ wp \in Packets /\ Null \in Packets
      /\ executed \in Nat /\ configured \in Nat /\ answer.id \in Nat
  BY PacketFacts DEF TypeInv, TypeOK, AnswerRecords
<1>i. /\ \A i \in Pending(writersend) : writersend[i] \in SetupPackets
      /\ rp # Null => rp \in SetupPackets
      /\ wp # Null => wp \in SetupPackets
  BY <1>t, PacketFacts DEF Pending
\* Steps that move no packet behind the device.
<1>a. ASSUME UNCHANGED <<writersend, configured, executed, answer>>,
             rpc' = "got" /\ rp' # Null => rpc = "got" /\ rp' = rp,
             wpc' \in {"setConfig", "filterIn"} => wpc' = wpc /\ wp' = wp
      PROVE  Faithful'
  BY <1>a DEF Faithful, Pending, Honest, Configured, AnswerFaithful
<1>1. CASE HostSetup \/ StopRelaying
  BY <1>1, <1>a DEF HostSetup, StopRelaying
<1>2. CASE ReaderTop \/ ReaderRequestTimeout \/ ReaderEnqueue \/ ReaderNothing
           \/ ReaderComplete \/ ReaderIncomplete
  BY <1>2, <1>a DEF ReaderTop, ReaderExit, ReaderRequestTimeout, ReaderEnqueue, ReaderNothing,
                    ReaderComplete, ReaderIncomplete
<1>14. CASE ReaderControlRequest
  <2>1. /\ rpc' = "enqueue"
        /\ UNCHANGED <<writersend, configured, executed, wpc, wp>>
        /\ answer' = answer \/ \E k \in Kinds : answer' = EarlyAck(transfer, k)
    BY <1>14 DEF ReaderControlRequest
  <2>2. answer' = answer \/ answer'.how = "early"
    BY <2>1 DEF EarlyAck, AnswerWith
  <2>3. AnswerFaithful' /\ (answer'.how # "early" => Configured(answer)')
    BY <2>1, <2>2 DEF Faithful, AnswerFaithful, Configured
  <2> QED
    BY <2>1, <2>3 DEF Faithful, Pending, Honest, Configured
<1>3. CASE ReaderDequeue
  <2>1. /\ rp' # Null => 1 \in Pending(writersend)
        /\ rp' = writersend[1]
        /\ \A i \in Pending(writersend') :
              i + 1 \in Pending(writersend) /\ writersend'[i] = writersend[i + 1]
    BY <1>3, <1>t, DequeueFacts DEF ReaderDequeue
  <2>2. UNCHANGED <<configured, executed, answer, wpc, wp>>
    BY <1>3 DEF ReaderDequeue
  <2> QED
    BY <2>1, <2>2 DEF Faithful, Honest, Configured, AnswerFaithful
<1>4. CASE ReaderAnswer
  <2>1. rp \in SetupPackets /\ Honest(rp) /\ Configured(rp)
    BY <1>4, <1>i DEF ReaderAnswer, Faithful
  <2>2. /\ answer' = AnswerWith(transfer, rp) \/ answer' = answer
        /\ rpc' = "complete"
        /\ UNCHANGED <<writersend, configured, executed, wpc, wp>>
    BY <1>4 DEF ReaderAnswer
  <2>3. AnswerFaithful' /\ (answer'.how # "early" => Configured(answer)')
    <3>1. CASE answer' = AnswerWith(transfer, rp)
      BY <2>1, <2>2, <3>1 DEF AnswerWith, AnswerFaithful, Honest, Configured, SetupPackets
    <3>2. CASE answer' = answer
      BY <2>2, <3>2 DEF Faithful, AnswerFaithful, Configured
    <3> QED
      BY <2>2, <3>1, <3>2
  <2> QED
    BY <2>2, <2>3 DEF Faithful, Pending, Honest, Configured
<1>5. CASE WriterTop \/ WriterDequeue \/ WriterGot \/ WriterFilterOut \/ WriterDrop \/ WriterForward
  BY <1>5, <1>a DEF WriterTop, WriterExit, WriterDequeue, WriterGot, WriterFilterOut, WriterDrop,
                    WriterForward
<1>6. CASE WriterControlRequest
  <2>1. wp \in SetupPackets /\ executed < wp.id /\ wp.id \in Nat
    BY <1>6, <1>i DEF WriterControlRequest, TypeInv, Points, Order, SetupPackets
  <2>2. /\ wp'.id = wp.id /\ wp'.kind = wp.kind /\ Honest(wp)'
        /\ executed' = wp.id
        /\ wpc' = IF wp.kind = "SET_CONFIGURATION" THEN "setConfig" ELSE "filterIn"
        /\ UNCHANGED <<writersend, configured, answer, rpc, rp>>
    BY <1>6, <2>1 DEF WriterControlRequest, SetupPackets, Honest
  <2> QED
    BY <2>1, <2>2, <1>t DEF Faithful, Pending, Honest, Configured, AnswerFaithful
<1>7. CASE WriterSetConfig
  <2>1. /\ wp \in SetupPackets /\ wp.id = executed /\ configured' = executed /\ Honest(wp)
        /\ wpc' = "filterIn"
        /\ UNCHANGED <<writersend, executed, answer, rpc, rp, wp>>
    BY <1>7, <1>i DEF WriterSetConfig, Faithful, TypeInv, Points
  <2>2. ASSUME NEW p \in SetupPackets, Configured(p) PROVE Configured(p)'
    BY <2>1, <2>2, <1>t DEF Faithful, Configured, SetupPackets
  <2>3. answer'.how # "early" => Configured(answer)'
    BY <2>1, <1>t DEF Faithful, Configured
  <2>4. Configured(wp)'
    BY <2>1, <1>t DEF Configured
  <2>5. \A i \in Pending(writersend) : Configured(writersend[i])'
    BY <2>1, <2>2, <1>i DEF Faithful, Configured
  <2>6. rpc = "got" /\ rp # Null => Configured(rp)'
    BY <2>1, <2>2, <1>i DEF Faithful, Configured
  <2> QED
    BY <2>1, <2>3, <2>4, <2>5, <2>6, <1>t
    DEF Faithful, Pending, Honest, Configured, AnswerFaithful
<1>8. CASE WriterFilterIn
  <2>1. /\ wp \in SetupPackets /\ Honest(wp) /\ Configured(wp)
        /\ wpc = "filterIn"
        /\ UNCHANGED <<writersend, configured, executed, answer, rpc, rp, wpc>>
    BY <1>8, <1>i DEF WriterFilterIn, Faithful, TypeInv, Points
  <2>2. Honest(wp)' /\ Configured(wp)'
    BY <1>8, <2>1 DEF WriterFilterIn, Honest, Configured, SetupPackets
  <2> QED
    BY <2>1, <2>2 DEF Faithful, Pending, Honest, Configured, AnswerFaithful
<1>9. CASE WriterEnqueue
  <2>1. /\ wp \in SetupPackets /\ Honest(wp) /\ Configured(wp) /\ wpc' = "top"
        /\ writersend' = Enqueue(writersend, wp)
        /\ UNCHANGED <<configured, executed, answer, rpc, rp>>
    BY <1>9, <1>i DEF WriterEnqueue, Faithful, TypeInv, Points
  <2>2. \A i \in Pending(Enqueue(writersend, wp)) :
          \/ Enqueue(writersend, wp)[i] = wp
          \/ i \in Pending(writersend) /\ Enqueue(writersend, wp)[i] = writersend[i]
    <3>1. writersend \in Seq(Packets) /\ wp \in Packets
      BY <1>t
    <3>2. /\ Pending(Enqueue(writersend, wp)) \subseteq Pending(writersend) \cup {Len(writersend) + 1}
          /\ \A i \in Pending(writersend) : Enqueue(writersend, wp)[i] = writersend[i]
          /\ Len(writersend) + 1 \in Pending(Enqueue(writersend, wp))
               => Enqueue(writersend, wp)[Len(writersend) + 1] = wp
      BY ONLY <3>1, EnqueueFacts, Zenon
    <3> QED
      BY ONLY <3>2, Zenon
  <2> QED
    BY <2>1, <2>2 DEF Faithful, Honest, Configured, AnswerFaithful
<1>10. CASE WakeReader
  <2>1. \A i \in Pending(writersend') :
          i \in Pending(writersend) /\ writersend'[i] = writersend[i]
    BY <1>10, <1>t, EnqueueFacts DEF WakeReader
  <2>2. UNCHANGED <<configured, executed, answer, rpc, rp, wpc, wp>>
    BY <1>10 DEF WakeReader
  <2> QED
    BY <2>1, <2>2 DEF Faithful, Honest, Configured, AnswerFaithful
<1>11. CASE Starting
  BY <1>11, <1>a DEF Starting, Start, StartReader, StartWriter
<1>12. CASE SignalReader \/ SignalWriter \/ WakeWriter \/ JoinReader \/ JoinWriter \/ Disconnect
  BY <1>12, <1>a DEF SignalReader, SignalWriter, WakeWriter, JoinReader, JoinWriter, Disconnect
<1>13. CASE UNCHANGED vars
  BY <1>13, <1>a DEF vars
<1> QED
  BY <1>1, <1>2, <1>3, <1>4, <1>5, <1>6, <1>7, <1>8, <1>9, <1>10, <1>11, <1>12, <1>13, <1>14
  DEF Next, Reader, Writer, WriterOwn, Stopping, Finished

(* The answers the host sees are honest and configured for, always.        *)
LEMMA FaithfulInvariance == Spec => []Faithful
  BY TypeInvariance, OrderInvariance, InitFaithful, NextFaithful, PTL DEF Spec

(* In every session, clean or not, a stall from the relayers is the        *)
(* device's refusal and data is an IN request's, unless a filter overrode  *)
(* transmit_in.  What GadgetFS acknowledges early is excepted.             *)
THEOREM AnswersAreFaithful == Spec => []AnswerFaithful
  BY FaithfulInvariance, PTL DEF Faithful

-----------------------------------------------------------------------------
(* Configuring in time                                                     *)

(* A packet made for the transfer promised last asks for a configuration.  *)
Kept(p) == p.id = promised => p.kind = "SET_CONFIGURATION"

(* What was acknowledged early has been configured, or is the request the  *)
(* reader is about to enqueue or waits for.                                *)
Promise ==
    /\ promised <= asked
    /\ \A i \in Pending(readersend) : Kept(readersend[i])
    /\ \A i \in Pending(writersend) : Kept(writersend[i])
    /\ InReader => Kept(rp)
    /\ InWriter => Kept(wp)
    /\ configured >= promised \/ (promised = asked /\ (rpc = "enqueue" \/ Waits))

PromiseKept == clean /\ mpc # "idle" => Promise

(* A session starts with nothing promised.                                 *)
LEMMA StartPromise == TypeInv /\ Start => PromiseKept'
<1> SUFFICES ASSUME TypeInv, Start, clean' PROVE Promise'
  BY DEF PromiseKept
<1>1. readersend' = <<>> /\ writersend' = <<>> /\ promised' = 0
  BY DEF Start
<1>2. rp' = Null /\ wp' = Null /\ asked' \in Nat /\ configured' \in Nat
  BY DEF Start, TypeInv, TypeOK, Points, devVars
<1> QED
  BY <1>1, <1>2 DEF Promise, Pending, InReader, InWriter

(* The reader asks for the next request only when the writer has returned  *)
(* the last one, behind its setConfig(); so a promise is kept in time.     *)
LEMMA NextPromise ==
    ASSUME TypeInv, Order, Faithful, OneToken, Alternates, Promise, [Next]_vars, ~Start, ~Disconnect
    PROVE  Promise'
<1> USE DEF hostVars, devVars, readerVars, writerVars, mgrVars
<1>t. /\ readersend \in Seq(Packets) /\ writersend \in Seq(Packets)
      /\ rp \in Packets /\ wp \in Packets /\ Null \in Packets
      /\ executed \in Nat /\ configured \in Nat /\ promised \in Nat /\ asked \in Nat
  BY PacketFacts DEF TypeInv, TypeOK
\* Steps that move no packet, promise nothing and let the reader wait on.
<1>a. ASSUME UNCHANGED <<readersend, writersend, asked, promised, configured>>,
             InReader' => InReader /\ rp' = rp,
             InWriter' => InWriter /\ wp'.id = wp.id /\ wp'.kind = wp.kind,
             rpc = "enqueue" \/ Waits => rpc' = "enqueue" \/ Waits'
      PROVE  Promise'
  BY <1>a DEF Promise, Kept, Pending
<1>1. CASE HostSetup \/ StopRelaying \/ StartWriter
  BY <1>1, <1>a DEF HostSetup, StopRelaying, StartWriter, Waits, InReader, InWriter
<1>2. CASE ReaderTop \/ ReaderRequestTimeout \/ ReaderNothing \/ ReaderIncomplete \/ ReaderComplete
  <2>1. /\ rpc = "enqueue" \/ Waits => rpc' = "enqueue" \/ Waits'
        /\ InReader' => InReader /\ rp' = rp
    BY <1>2 DEF ReaderTop, ReaderExit, ReaderRequestTimeout, ReaderNothing, ReaderIncomplete,
                ReaderComplete, Waits, InReader, TypeInv, Points
  <2> QED
    BY <1>2, <2>1, <1>a DEF ReaderTop, ReaderRequestTimeout, ReaderNothing, ReaderIncomplete,
                            ReaderComplete, InWriter
<1>3. CASE ReaderControlRequest
  <2>1. /\ asked < transfer /\ rpc = "request" /\ direction_out /\ transfer \in Nat
        /\ asked' = transfer /\ rpc' = "enqueue"
        /\ UNCHANGED <<readersend, writersend, configured, wp>>
    BY <1>3 DEF ReaderControlRequest, Order, TypeInv, TypeOK, Points
  <2>2. configured >= promised /\ promised <= asked
    BY <2>1 DEF Promise, Waits
  <2>3. PICK k \in Kinds :
          /\ rp' = NewSetupPacket(transfer, k)
          /\ \/ promised' = promised
             \/ promised' = transfer /\ k = "SET_CONFIGURATION"
    BY <1>3 DEF ReaderControlRequest
  <2>4. Pending(readersend) = {} /\ Pending(writersend) = {} /\ ~InWriter
    BY <2>1 DEF Alternates, Waits
  <2>5. rp'.id = transfer /\ rp'.kind = k
    BY <2>3 DEF NewSetupPacket
  <2>6. Kept(rp)'
    BY <2>1, <2>2, <2>3, <2>5, <1>t DEF Kept
  <2> QED
    BY <2>1, <2>2, <2>3, <2>4, <2>6, <1>t DEF Promise, InWriter
<1>4. CASE ReaderEnqueue
  <2>1. /\ InReader /\ rpc = "enqueue" /\ Waits' /\ ~InReader'
        /\ UNCHANGED <<writersend, asked, promised, configured, wp>>
        /\ readersend' = Enqueue(readersend, rp)
    BY <1>4 DEF ReaderEnqueue, InReader, Waits, TypeInv, Points
  <2>2. Kept(rp) /\ Pending(readersend) = {} /\ Pending(writersend) = {} /\ ~InWriter
    BY <2>1 DEF Promise, OneToken
  <2>3. /\ Pending(Enqueue(readersend, rp)) \subseteq Pending(readersend) \cup {Len(readersend) + 1}
        /\ Len(readersend) + 1 \in Pending(Enqueue(readersend, rp))
             => Enqueue(readersend, rp)[Len(readersend) + 1] = rp
    BY <1>t, EnqueueFacts
  <2> QED
    BY <2>1, <2>2, <2>3 DEF Promise, Kept, InWriter
<1>5. CASE ReaderDequeue
  <2>1. /\ rp' # Null => 1 \in Pending(writersend)
        /\ rp' = writersend[1]
        /\ \A i \in Pending(writersend') :
              i + 1 \in Pending(writersend) /\ writersend'[i] = writersend[i + 1]
    BY <1>5, <1>t, DequeueFacts DEF ReaderDequeue
  <2>2. /\ UNCHANGED <<readersend, asked, promised, configured, wp>>
        /\ (rpc = "enqueue" \/ Waits => Waits')
        /\ (InReader' => rp' # Null)
    BY <1>5 DEF ReaderDequeue, Waits, InReader
  <2> QED
    BY <2>1, <2>2 DEF Promise, Kept, InWriter
<1>6. CASE ReaderAnswer
  <2>1. /\ InReader /\ rp # Null /\ rpc = "got" /\ ~InReader'
        /\ UNCHANGED <<readersend, writersend, asked, promised, configured, wp>>
    BY <1>6 DEF ReaderAnswer, InReader
  <2>2. rp.id = asked /\ Kept(rp) /\ Configured(rp)
    BY <2>1 DEF OneToken, Owned, Promise, Faithful
  <2>3. configured >= promised
    BY <2>2, <1>t DEF Promise, Kept, Configured
  <2> QED
    BY <2>1, <2>3 DEF Promise, Kept, InWriter
<1>7. CASE WriterTop \/ WriterGot \/ WriterDrop \/ WriterForward
  <2>1. /\ InWriter' => InWriter /\ wp' = wp
        /\ UNCHANGED <<readersend, writersend, asked, promised, configured, rpc, rp, direction_out>>
    BY <1>7 DEF WriterTop, WriterExit, WriterGot, WriterDrop, WriterForward, InWriter
  <2> QED
    BY <2>1, <1>a DEF InReader, Waits
<1>8. CASE WriterFilterOut \/ WriterFilterIn \/ WriterControlRequest
  <2>1. InWriter /\ wp'.id = wp.id /\ wp'.kind = wp.kind
    BY <1>8, <1>t, PacketFacts DEF WriterFilterOut, WriterFilterIn, WriterControlRequest, InWriter,
       TypeInv, Points, SetupPackets
  <2>2. UNCHANGED <<readersend, writersend, asked, promised, configured, rpc, rp, direction_out>>
    BY <1>8 DEF WriterFilterOut, WriterFilterIn, WriterControlRequest
  <2> QED
    BY <2>1, <2>2, <1>a DEF InReader, Waits
<1>9. CASE WriterSetConfig
  <2>1. /\ configured' = executed /\ configured <= executed
        /\ UNCHANGED <<readersend, writersend, asked, promised, wp, rpc, rp, direction_out>>
    BY <1>9 DEF WriterSetConfig, Faithful
  <2>2. configured >= promised => configured' >= promised
    BY <2>1, <1>t
  <2> QED
    BY <2>1, <2>2 DEF Promise, Kept, InReader, InWriter, Waits
<1>10. CASE WriterDequeue
  <2>1. /\ wp' # Null => 1 \in Pending(readersend)
        /\ wp' = readersend[1]
        /\ \A i \in Pending(readersend') :
              i + 1 \in Pending(readersend) /\ readersend'[i] = readersend[i + 1]
    BY <1>10, <1>t, DequeueFacts DEF WriterDequeue
  <2>2. UNCHANGED <<writersend, asked, promised, configured, rpc, rp, direction_out>>
    BY <1>10 DEF WriterDequeue
  <2> QED
    BY <2>1, <2>2 DEF Promise, Kept, InReader, InWriter, Waits
<1>11. CASE WriterEnqueue
  <2>1. /\ InWriter /\ ~InWriter' /\ writersend' = Enqueue(writersend, wp)
        /\ UNCHANGED <<readersend, asked, promised, configured, rpc, rp, direction_out>>
    BY <1>11 DEF WriterEnqueue, InWriter, TypeInv, Points
  <2>2. Kept(wp) /\ Pending(readersend) = {} /\ Pending(writersend) = {} /\ ~InReader
    BY <2>1 DEF Promise, OneToken
  <2>3. /\ Pending(Enqueue(writersend, wp)) \subseteq Pending(writersend) \cup {Len(writersend) + 1}
        /\ Len(writersend) + 1 \in Pending(Enqueue(writersend, wp))
             => Enqueue(writersend, wp)[Len(writersend) + 1] = wp
    BY <1>t, EnqueueFacts
  <2> QED
    BY <2>1, <2>2, <2>3 DEF Promise, Kept, InReader, Waits
<1>12. CASE StartReader \/ SignalReader \/ SignalWriter \/ JoinReader \/ JoinWriter
  <2>1. /\ rpc = "enqueue" \/ Waits => rpc' = "enqueue" \/ Waits'
        /\ InReader' => InReader /\ rp' = rp
        /\ UNCHANGED <<readersend, writersend, asked, promised, configured, wp>>
    BY <1>12 DEF StartReader, SignalReader, SignalWriter, JoinReader, JoinWriter, Waits, InReader,
                 TypeInv, Points
  <2> QED
    BY <2>1, <1>a DEF InWriter
<1>13. CASE WakeReader
  <2>1. \A i \in Pending(writersend') : i \in Pending(writersend) /\ writersend'[i] = writersend[i]
    BY <1>13, <1>t, EnqueueFacts DEF WakeReader
  <2>2. UNCHANGED <<readersend, asked, promised, configured, wp, rpc, rp, direction_out>>
    BY <1>13 DEF WakeReader
  <2> QED
    BY <2>1, <2>2 DEF Promise, Kept, InReader, InWriter, Waits
<1>14. CASE WakeWriter
  <2>1. \A i \in Pending(readersend') : i \in Pending(readersend) /\ readersend'[i] = readersend[i]
    BY <1>14, <1>t, EnqueueFacts DEF WakeWriter
  <2>2. UNCHANGED <<writersend, asked, promised, configured, wp, rpc, rp, direction_out>>
    BY <1>14 DEF WakeWriter
  <2> QED
    BY <2>1, <2>2 DEF Promise, Kept, InReader, InWriter, Waits
<1>15. CASE UNCHANGED vars
  BY <1>15, <1>a DEF vars, Waits, InReader, InWriter
<1> QED
  BY <1>1, <1>2, <1>3, <1>4, <1>5, <1>6, <1>7, <1>8, <1>9, <1>10, <1>11, <1>12, <1>13, <1>14, <1>15
  DEF Next, Reader, Writer, WriterOwn, Starting, Stopping, Finished

(* Promises are kept in every session that starts with empty queues.       *)
LEMMA PromiseInvariance == Spec => []PromiseKept
<1>1. Init => PromiseKept
  BY DEF Init, PromiseKept
<1>2. TypeInv /\ Order /\ Faithful /\ SingleToken /\ PromiseKept /\ [Next]_vars => PromiseKept'
  <2> SUFFICES ASSUME TypeInv, Order, Faithful, SingleToken, PromiseKept, [Next]_vars
               PROVE  PromiseKept'
    OBVIOUS
  <2>1. CASE Start
    BY <2>1, StartPromise
  <2>2. CASE Disconnect
    BY <2>2 DEF Disconnect, PromiseKept
  <2>3. CASE ~Start /\ ~Disconnect
    <3>1. clean' = clean /\ (mpc' # "idle" => mpc # "idle")
      BY <2>3, SameSession
    <3>2. OneToken /\ Alternates /\ Promise => Promise'
      BY <2>3, NextPromise
    <3> QED
      BY <3>1, <3>2 DEF PromiseKept, SingleToken, Token
  <2> QED
    BY <2>1, <2>2, <2>3
<1> QED
  BY <1>1, <1>2, TypeInvariance, OrderInvariance, FaithfulInvariance, SingleInvariance, PTL DEF Spec

(* setConfig() has run when the relayers answer a SET_CONFIGURATION; and   *)
(* when GadgetFS has acknowledged it before that, setConfig() has run for  *)
(* it before the device is asked anything else.                            *)
THEOREM ConfiguredFirst == Spec => []ConfiguredInTime
<1>1. TypeInv /\ Faithful /\ SingleToken /\ PromiseKept => ConfiguredInTime
  <2> SUFFICES ASSUME TypeInv, Faithful, SingleToken, PromiseKept PROVE ConfiguredInTime
    OBVIOUS
  <2>1. answer.kind = "SET_CONFIGURATION" /\ answer.how # "early" => configured >= answer.id
    BY DEF Faithful, Configured
  <2>2. ASSUME clean, wpc = "request" PROVE wp.id = promised \/ configured >= promised
    <3>1. mpc # "idle" /\ InWriter
      BY <2>2 DEF TypeInv, Points, InWriter
    <3>2. wp.id = asked /\ Promise
      BY <2>2, <3>1 DEF SingleToken, Token, OneToken, Owned, PromiseKept
    <3> QED
      BY <3>2 DEF Promise
  <2> QED
    BY <2>1, <2>2 DEF ConfiguredInTime
<1> QED
  BY <1>1, TypeInvariance, FaithfulInvariance, SingleInvariance, PromiseInvariance, PTL
=================================================================================
