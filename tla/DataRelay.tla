------------------------------- MODULE DataRelay -------------------------------
(***************************************************************************)
(* One data endpoint: RelayReader::relay_read takes packets from the proxy *)
(* on one side and RelayWriter::relay_write gives them, filtered, to the   *)
(* proxy on the other side.  The queue between them is made by             *)
(* start_data_relaying() together with the two relayers, so a session      *)
(* starts with an empty one.  enqueue() and dequeue() are the atomic       *)
(* operations of PacketFifo.tla.                                           *)
(*                                                                         *)
(* The proxy the writer sends to is of one of three kinds: "sync", whose   *)
(* send_data() returns when the transfer is over, however long that takes  *)
(* (DeviceProxy_LibUSB, with timeout 0, and the TCP proxies); "async",     *)
(* whose send_data() submits the packet and returns (HostProxy_GadgetFS);  *)
(* and "closed", HostProxy_GadgetFS for an endpoint it could not open.     *)
(***************************************************************************)
EXTENDS Naturals, Sequences, FiniteSets

CONSTANTS MaxPackets,     \* bound: packets the source sends
          NumFilters,     \* filters attached to the writer
          QUEUE_MAX       \* SafeQueue.hpp:11

ASSUME DataAssumption ==
    /\ MaxPackets \in Nat
    /\ NumFilters \in Nat
    /\ QUEUE_MAX \in Nat \ {0}

(* Packets are numbered in the order in which the source sends them.       *)
NullPacket == 0

VARIABLES
    received,    \* packets receive_data() has returned so far
    queue,
    \* The reader: program point, the packet in hand, _please_stop.
    rpc, rp, rstop,
    \* The writer: program point, p, p->transmit, j, writing, _please_stop.
    wpc, wp, transmit, j, writing, wstop,
    \* The proxy the writer sends to.
    sink,        \* its kind
    inflight,    \* packets given to send_data() whose transfer is not over
    delivered,   \* the packet delivered last
    \* History: what became of the packets.
    done, overflowed, filtered, failed,
    mistaken,    \* a transfer under way has been taken for complete
    mpc          \* the thread that runs stop_relaying()

readerVars == <<rpc, rp, rstop>>
writerVars == <<wpc, wp, transmit, j, writing, wstop>>
sinkVars == <<sink, inflight, delivered>>
fateVars == <<done, overflowed, filtered, failed, mistaken>>
vars == <<received, queue, readerVars, writerVars, sinkVars, fateVars, mpc>>

Init ==
    /\ received = 0
    /\ queue = <<>>
    /\ rpc = "top" /\ rp = NullPacket /\ rstop = FALSE
    /\ wpc = "top" /\ wp = NullPacket /\ transmit = TRUE /\ j = 0
    /\ writing = FALSE /\ wstop = FALSE
    /\ sink \in {"sync", "async", "closed"} /\ inflight = {} /\ delivered = 0
    /\ done = {} /\ overflowed = {} /\ filtered = {} /\ failed = {} /\ mistaken = FALSE
    /\ mpc = "relaying"

-----------------------------------------------------------------------------
(* RelayReader::relay_read *)

ReaderTop ==
    /\ rpc = "top"
    /\ rpc' = IF rstop THEN "exited" ELSE "receive"
    /\ rstop' = FALSE
    /\ UNCHANGED <<received, queue, rp, writerVars, sinkVars, fateVars, mpc>>

(* receive_data() returns the source's next packet ...                     *)
ReaderReceive ==
    /\ rpc = "receive"
    /\ received < MaxPackets
    /\ received' = received + 1
    /\ rp' = received + 1
    /\ rpc' = "enqueue"
    /\ UNCHANGED <<queue, rstop, writerVars, sinkVars, fateVars, mpc>>

(* ... or nothing, after an error or a timeout, if it has one: if (length). *)
ReaderReceiveNothing ==
    /\ rpc = "receive"
    /\ rpc' = "top"
    /\ UNCHANGED <<received, queue, rp, rstop, writerVars, sinkVars, fateVars, mpc>>

(* Mutant: a full queue makes room by dropping its newest packet.          *)
ReaderEnqueueReplacing ==
    /\ rpc = "enqueue"
    /\ queue' = IF Len(queue) < QUEUE_MAX THEN Append(queue, rp)
                ELSE [queue EXCEPT ![Len(queue)] = rp]
    /\ rp' = NullPacket
    /\ rpc' = "top"
    /\ UNCHANGED <<received, rstop, writerVars, sinkVars, fateVars, mpc>>

(* A full queue drops the packet.                                          *)
ReaderEnqueue ==
    /\ rpc = "enqueue"
    /\ IF Len(queue) < QUEUE_MAX
       THEN queue' = Append(queue, rp) /\ UNCHANGED overflowed
       ELSE overflowed' = overflowed \cup {rp} /\ UNCHANGED queue
    /\ rp' = NullPacket
    /\ rpc' = "top"
    /\ UNCHANGED <<received, rstop, writerVars, sinkVars, done, filtered, failed, mistaken, mpc>>

-----------------------------------------------------------------------------
(* RelayWriter::relay_write *)

(* Mutant: the next packet is sent whether or not the last one is complete. *)
WriterTopImpatient ==
    /\ wpc = "top"
    /\ wpc' = IF wstop THEN "exited" ELSE "dequeue"
    /\ wstop' = FALSE
    /\ UNCHANGED <<received, queue, readerVars, wp, transmit, j, writing, sinkVars, fateVars, mpc>>

WriterTop ==
    /\ wpc = "top"
    /\ wpc' = IF wstop THEN "exited" ELSE IF writing THEN "wait" ELSE "dequeue"
    /\ wstop' = FALSE
    /\ UNCHANGED <<received, queue, readerVars, wp, transmit, j, writing, sinkVars, fateVars, mpc>>

(* Mutant: the head is read and left in the queue.                         *)
WriterPeek ==
    /\ wpc = "dequeue"
    /\ queue # <<>>
    /\ wp' = Head(queue)
    /\ wpc' = IF Head(queue) = NullPacket THEN "top" ELSE "filter"
    /\ transmit' = TRUE
    /\ j' = 0
    /\ UNCHANGED <<received, queue, readerVars, writing, wstop, sinkVars, fateVars, mpc>>

(* p = _recvQueue->dequeue(), which blocks; if (!p) continue.              *)
WriterDequeue ==
    /\ wpc = "dequeue"
    /\ queue # <<>>
    /\ wp' = Head(queue)
    /\ queue' = Tail(queue)
    /\ wpc' = IF Head(queue) = NullPacket THEN "top" ELSE "filter"
    /\ transmit' = TRUE
    /\ j' = 0
    /\ UNCHANGED <<received, readerVars, writing, wstop, sinkVars, fateVars, mpc>>

(* Mutant: one filter too many.                                            *)
WriterFilterOffByOne ==
    /\ wpc = "filter"
    /\ j <= NumFilters
    /\ \E b \in BOOLEAN : transmit' = b
    /\ j' = j + 1
    /\ UNCHANGED <<received, queue, readerVars, wpc, wp, writing, wstop, sinkVars, fateVars, mpc>>

(* Every filter that matches sees the packet and may set transmit.         *)
WriterFilter ==
    /\ wpc = "filter"
    /\ j < NumFilters
    /\ \E b \in BOOLEAN : transmit' = b
    /\ j' = j + 1
    /\ UNCHANGED <<received, queue, readerVars, wpc, wp, writing, wstop, sinkVars, fateVars, mpc>>

WriterDiscard ==
    /\ wpc = "filter"
    /\ j = NumFilters
    /\ ~transmit
    /\ filtered' = filtered \cup {wp}
    /\ wp' = NullPacket
    /\ wpc' = "top"
    /\ UNCHANGED <<received, queue, readerVars, transmit, j, writing, wstop, sinkVars,
                   done, overflowed, failed, mistaken, mpc>>

(* proxy->send_data() is called.  It gives the packet to the other side,   *)
(* or it cannot: the endpoint is not open, its interface not claimed, the  *)
(* request not submitted.  Then the packet is lost, and nobody told.       *)
WriterSend ==
    /\ wpc = "filter"
    /\ j = NumFilters
    /\ transmit
    /\ \/ sink # "closed" /\ inflight' = inflight \cup {wp} /\ UNCHANGED failed
       \/ failed' = failed \cup {wp} /\ UNCHANGED inflight
    /\ wp' = NullPacket
    /\ wpc' = "sending"
    /\ UNCHANGED <<received, queue, readerVars, transmit, j, writing, wstop, sink, delivered,
                   done, overflowed, filtered, mistaken, mpc>>

(* It returns, from a synchronous transfer when that is over.              *)
WriterSent ==
    /\ wpc = "sending"
    /\ sink = "sync" => inflight = {}
    /\ writing' = TRUE
    /\ wpc' = "top"
    /\ UNCHANGED <<received, queue, readerVars, wp, transmit, j, wstop, sinkVars, fateVars, mpc>>

(* What send_wait_complete() says: never complete for an endpoint that is  *)
(* not open, and complete for every other one: also when aio_suspend() has *)
(* timed out after READ_TIMEOUT_MS and the transfer is still under way.    *)
(* (Of a write that fails just behind that timeout it says so only when it *)
(* is asked once more, which changes nothing here; see GadgetFS.tla.)      *)
SendWaitComplete == sink # "closed"

(* Mutant: its answer is taken the wrong way round.                        *)
WriterWaitInverted ==
    /\ wpc = "wait"
    /\ writing' = SendWaitComplete
    /\ mistaken' = (mistaken \/ inflight # {})
    /\ wpc' = "top"
    /\ UNCHANGED <<received, queue, readerVars, wp, transmit, j, wstop, sinkVars, done, overflowed,
                   filtered, failed, mpc>>

WriterWait ==
    /\ wpc = "wait"
    /\ writing' = ~SendWaitComplete
    /\ mistaken' = (mistaken \/ inflight # {})
    /\ wpc' = "top"
    /\ UNCHANGED <<received, queue, readerVars, wp, transmit, j, wstop, sinkVars, done, overflowed,
                   filtered, failed, mpc>>

-----------------------------------------------------------------------------
(* The transfer of a packet ends: the other side has it ...  Once two      *)
(* requests share an aiocb, a packet may arrive twice (GadgetFS.tla).      *)
SinkTake ==
    \E p \in inflight :
        /\ delivered' = p
        /\ done' = done \cup {p}
        /\ \/ inflight' = inflight \ {p}
           \/ mistaken /\ UNCHANGED inflight
        /\ UNCHANGED <<received, queue, readerVars, writerVars, sink, overflowed, filtered, failed,
                       mistaken, mpc>>

(* ... or an error has ended it, which the proxy only prints.              *)
SinkFail ==
    \E p \in inflight :
        /\ failed' = failed \cup {p}
        /\ inflight' = inflight \ {p}
        /\ UNCHANGED <<received, queue, readerVars, writerVars, sink, delivered, done, overflowed,
                       filtered, mistaken, mpc>>

-----------------------------------------------------------------------------
(* Manager::stop_relaying, as far as these two relayers are concerned      *)

(* RelayReader::please_stop: a data reader has no queue to be woken from.  *)
StopSignalReader ==
    /\ mpc = "relaying"
    /\ rstop' = TRUE
    /\ mpc' = "signalWriter"
    /\ UNCHANGED <<received, queue, rpc, rp, writerVars, sinkVars, fateVars>>

(* RelayWriter::please_stop: the flag, then a null packet.                 *)
StopSignalWriter ==
    /\ mpc = "signalWriter"
    /\ wstop' = TRUE
    /\ mpc' = "wakeWriter"
    /\ UNCHANGED <<received, queue, readerVars, wpc, wp, transmit, j, writing, sinkVars, fateVars>>

(* Mutant: the flag alone.                                                 *)
StopWakeNobody ==
    /\ mpc = "wakeWriter"
    /\ mpc' = "joinReader"
    /\ UNCHANGED <<received, queue, readerVars, writerVars, sinkVars, fateVars>>

StopWakeWriter ==
    /\ mpc = "wakeWriter"
    /\ queue' = IF Len(queue) < QUEUE_MAX THEN Append(queue, NullPacket) ELSE queue
    /\ mpc' = "joinReader"
    /\ UNCHANGED <<received, readerVars, writerVars, sinkVars, fateVars>>

StopJoinReader ==
    /\ mpc = "joinReader"
    /\ rpc = "exited"
    /\ mpc' = "joinWriter"
    /\ UNCHANGED <<received, queue, readerVars, writerVars, sinkVars, fateVars>>

StopJoinWriter ==
    /\ mpc = "joinWriter"
    /\ wpc = "exited"
    /\ mpc' = "idle"
    /\ UNCHANGED <<received, queue, readerVars, writerVars, sinkVars, fateVars>>

Finished == mpc = "idle" /\ UNCHANGED vars

Reader == ReaderTop \/ ReaderReceive \/ ReaderReceiveNothing \/ ReaderEnqueue
Writer == WriterTop \/ WriterDequeue \/ WriterFilter \/ WriterDiscard \/ WriterSend \/ WriterSent
          \/ WriterWait
Stopping == StopSignalWriter \/ StopWakeWriter \/ StopJoinReader \/ StopJoinWriter

Next == Reader \/ Writer \/ SinkTake \/ SinkFail \/ StopSignalReader \/ Stopping \/ Finished

Spec == Init /\ [][Next]_vars

(***************************************************************************)
(* Fairness.  Each thread that can run does run.  Two calls may block for  *)
(* ever: receive_data(), if the source sends nothing and the proxy waits   *)
(* without a timeout (DeviceProxy_LibUSB), and a synchronous send_data().  *)
(* Neither is fair here; what needs them to return says so.  Nobody has to *)
(* stop the relaying.                                                      *)
(***************************************************************************)
FairSpec ==
    /\ Spec
    /\ WF_vars(ReaderTop \/ ReaderEnqueue)
    /\ WF_vars(Writer)
    /\ WF_vars(Stopping)

ReceiveReturns == []<>(rpc # "receive")
SendReturns == []<>(wpc # "sending")

-----------------------------------------------------------------------------
PacketIds == 0 .. MaxPackets

FlagsOK ==
    /\ rstop \in BOOLEAN /\ wstop \in BOOLEAN /\ writing \in BOOLEAN /\ transmit \in BOOLEAN
    /\ mistaken \in BOOLEAN

(* Types of the two relayers, the queue and the sink.                      *)
TypeOK ==
    /\ FlagsOK
    /\ received \in PacketIds
    /\ queue \in Seq(PacketIds)
    /\ rpc \in {"top", "receive", "enqueue", "exited"} /\ rp \in PacketIds
    /\ wpc \in {"top", "dequeue", "filter", "sending", "wait", "exited"} /\ wp \in PacketIds
    /\ j \in 0 .. NumFilters
    /\ sink \in {"sync", "async", "closed"}
    /\ inflight \subseteq PacketIds /\ delivered \in PacketIds
    /\ done \subseteq PacketIds
    /\ overflowed \subseteq PacketIds /\ filtered \subseteq PacketIds /\ failed \subseteq PacketIds
    /\ mpc \in {"relaying", "signalWriter", "wakeWriter", "joinReader", "joinWriter", "idle"}

Queued == {queue[i] : i \in DOMAIN queue} \ {NullPacket}

(* The packets on their way.                                               *)
InTransit == inflight \cup ({wp, rp} \ {NullPacket}) \cup Queued

(* Every packet that arrived is delivered or still on its way, unless a    *)
(* filter cleared its transmit, it met a full queue or the proxy failed to *)
(* send it: nothing vanishes on the way through two threads, not even      *)
(* while they are stopped or after a wait that was cut short.              *)
NothingVanishes == 1 .. received = InTransit \cup done \cup overflowed \cup filtered \cup failed

(* Until send_wait_complete() takes a transfer under way for complete (its *)
(* aio_suspend() timed out), send_data() is not called while the previous  *)
(* transfer is under way: the writer waits (writing) before it takes       *)
(* another packet, so one aiocb per endpoint is enough.                    *)
OneSendAtATime ==
    ~mistaken /\ inflight # {} =>
        /\ \A p, q \in inflight : p = q
        /\ wpc = "sending" \/ (writing /\ wpc \in {"top", "wait", "exited"})

Pipe == INSTANCE PacketPipe
        WITH pipe <- InTransit, last <- received, delivered <- delivered, broken <- mistaken

(* The two relayers and their queue are a pipe that keeps the order, makes *)
(* nothing up and delivers nothing twice, until a wait is cut short.       *)
ImplementsPipe == Pipe!Spec

(* stop_relaying() gets both relayers to exit, whatever they wait for,     *)
(* provided the calls of the proxies return.                               *)
StopCompletes ==
    ReceiveReturns /\ SendReturns => ((mpc # "relaying") ~> (mpc = "idle"))

(* As long as the transfers end and the endpoint is open, every packet     *)
(* that gets into the queue is delivered, discarded by a filter or lost in *)
(* a failed transfer, unless relaying is stopped first.                    *)
QueueDrains ==
    []<>(inflight = {}) /\ [](sink # "closed") =>
        \A n \in 1 .. MaxPackets :
            (n \in Queued) ~> (n \in done \cup filtered \cup failed \/ mpc # "relaying")
================================================================================
