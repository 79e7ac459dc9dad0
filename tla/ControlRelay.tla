----------------------------- MODULE ControlRelay -----------------------------
(***************************************************************************)
(* Endpoint 0: how a control request of the host travels to the device and *)
(* its answer back.  Two relayer threads, the EP0 RelayReader              *)
(* (relay_read_setup) and the EP0 RelayWriter (relay_write_setup), are     *)
(* joined by the two queues Manager::_readersend and Manager::_writersend; *)
(* a third thread, in Manager, starts and stops them.                      *)
(*                                                                         *)
(* The queues are members of Manager: they outlive the two relayers, which *)
(* are created anew whenever relaying starts again (SIGHUP, hotplug).  A   *)
(* session is one such start up to the end of the matching stop_relaying(). *)
(*                                                                         *)
(* enqueue() and dequeue() are the atomic operations of PacketFifo.tla,    *)
(* which SafeQueue.tla shows SafeQueue.hpp to implement.                   *)
(***************************************************************************)
EXTENDS Naturals, Sequences, FiniteSets

CONSTANTS MaxRequests,   \* bound: control transfers the host issues
          MaxSessions,   \* bound: starts of relaying
          NumFilters,    \* filters attached to the EP0 writer
          QUEUE_MAX,     \* SafeQueue.hpp:11
          Null           \* the null PacketPtr of please_stop()

ASSUME RelayAssumption ==
    /\ MaxRequests \in Nat
    /\ MaxSessions \in Nat
    /\ NumFilters \in Nat
    /\ QUEUE_MAX \in Nat \ {0}

(* SET_CONFIGURATION is the one OUT request the writer itself reacts to;   *)
(* OUT_DATA is an OUT request with a data stage.                           *)
Kinds == {"IN", "OUT", "OUT_DATA", "SET_CONFIGURATION"}

(***************************************************************************)
(* Packet.h, SetupPacket.  id names the control transfer the packet was    *)
(* made for, hasData says wLength # 0.  The last two fields are history:   *)
(* what the device said, and whether a filter overrode it.                 *)
(***************************************************************************)
SetupPackets ==
    [id : Nat, kind : Kinds, filter_out : BOOLEAN, transmit_out : BOOLEAN,
     filter_in : BOOLEAN, transmit_in : BOOLEAN, hasData : BOOLEAN,
     device : {"unasked", "ok", "failed"}, overridden : BOOLEAN]

NewSetupPacket(n, k) ==
    [id |-> n, kind |-> k, filter_out |-> TRUE, transmit_out |-> TRUE,
     filter_in |-> TRUE, transmit_in |-> TRUE, hasData |-> FALSE,
     device |-> "unasked", overridden |-> FALSE]

ASSUME NullAssumption == Null \notin SetupPackets

VARIABLES
    hostProxy,   \* the host proxy the program was started with
    \* The host and its control pipe.
    nreq,        \* control transfers issued so far
    transfer,    \* the outstanding control transfer, 0 if there is none
    taken,       \* control_request() has handed it to the reader
    answer,      \* the answer the host saw last
    asked,       \* the transfer control_request() handed out last
    dropped,     \* a filter cleared transmit_out of that one
    promised,    \* the last SET_CONFIGURATION of this session that was acknowledged early
    \* The device.
    executed,    \* the last request it was asked to execute
    configured,  \* the last SET_CONFIGURATION given to Manager::setConfig()
    \* The queues of Manager.
    readersend, writersend,
    \* The EP0 reader: program point, direction_out, p, _please_stop.
    rpc, direction_out, rp, rstop,
    \* The EP0 writer: program point, p, j, _please_stop.
    wpc, wp, j, wstop,
    \* The thread that runs start_control_relaying() and stop_relaying().
    mpc, session,
    clean        \* both queues were empty when this session started

hostVars == <<hostProxy, nreq, transfer, taken, answer, asked, dropped, promised>>
devVars == <<executed, configured>>
readerVars == <<rpc, direction_out, rp, rstop>>
writerVars == <<wpc, wp, j, wstop>>
mgrVars == <<mpc, session, clean>>
vars == <<hostVars, devVars, readersend, writersend, readerVars, writerVars, mgrVars>>

ReaderPoints == {"off", "top", "request", "enqueue", "dequeue", "got", "complete", "exited"}
WriterPoints == {"off", "top", "dequeue", "got", "filterOut", "request", "setConfig",
                 "filterIn", "exited"}
ManagerPoints == {"idle", "connected", "readerStarted", "relaying", "stopReader",
                  "wakeReader", "stopWriter", "wakeWriter", "joinReader", "joinWriter",
                  "disconnect"}

(* Mutant: no control_ack() for an answer without data.                    *)
AnswerWithoutAck(n, p) ==
    [transfer |-> n, id |-> p.id, kind |-> p.kind, device |-> p.device,
     overridden |-> p.overridden,
     how |-> IF ~p.transmit_in THEN "stall" ELSE IF p.hasData THEN "data" ELSE "nothing"]

(* What the host is told when transfer n is ended with packet p.  What the *)
(* kernel makes of an answer of the wrong direction is in GadgetFS.tla.    *)
AnswerWith(n, p) ==
    [transfer |-> n, id |-> p.id, kind |-> p.kind, device |-> p.device,
     overridden |-> p.overridden,
     how |-> IF ~p.transmit_in THEN "stall" ELSE IF p.hasData THEN "data" ELSE "ack"]

(***************************************************************************)
(* HostProxy_GadgetFS::control_request() itself acknowledges a             *)
(* SET_CONFIGURATION, and reading the data of an OUT transfer completes    *)
(* it: the host has its answer before the device is asked.                 *)
(***************************************************************************)
Early(k) == hostProxy = "GadgetFS" /\ k \in {"OUT_DATA", "SET_CONFIGURATION"}
EarlyAck(n, k) == [AnswerWith(n, NewSetupPacket(n, k)) EXCEPT !.how = "early"]

Init ==
    /\ hostProxy \in {"GadgetFS", "TCP"} /\ asked = 0 /\ promised = 0
    /\ nreq = 0 /\ transfer = 0 /\ taken = FALSE
    /\ answer = AnswerWith(0, NewSetupPacket(0, "IN"))
    /\ dropped = FALSE
    /\ executed = 0 /\ configured = 0
    /\ readersend = <<>> /\ writersend = <<>>
    /\ rpc = "off" /\ direction_out = TRUE /\ rp = Null /\ rstop = FALSE
    /\ wpc = "off" /\ wp = Null /\ j = 0 /\ wstop = FALSE
    /\ mpc = "idle" /\ session = 0 /\ clean = TRUE

(* SafeQueue::enqueue: a full queue drops the packet.                      *)
Enqueue(queue, p) == IF Len(queue) < QUEUE_MAX THEN Append(queue, p) ELSE queue

-----------------------------------------------------------------------------
(* The host: one control transfer at a time on the default pipe.  Its kind *)
(* is known, and chosen, when control_request() reads the SETUP.           *)

HostSetup ==
    /\ mpc # "idle"
    /\ transfer = 0
    /\ nreq < MaxRequests
    /\ nreq' = nreq + 1
    /\ transfer' = nreq + 1
    /\ taken' = FALSE
    /\ UNCHANGED <<hostProxy, answer, asked, dropped, promised, devVars, readersend, writersend, readerVars, writerVars, mgrVars>>

-----------------------------------------------------------------------------
(* RelayReader::relay_read_setup *)

(* Both ways out of the loop reset _please_stop; p is destroyed.           *)
ReaderExit ==
    /\ rpc' = "exited"
    /\ rstop' = FALSE
    /\ rp' = Null
    /\ UNCHANGED direction_out

(* while (!_please_stop), and the choice of branch.                        *)
ReaderTop ==
    /\ rpc = "top"
    /\ \/ rstop /\ ReaderExit
       \/ /\ ~rstop
          /\ rpc' = IF direction_out THEN "request"
                    ELSE IF rp = Null THEN "dequeue" ELSE "complete"
          /\ UNCHANGED <<direction_out, rp, rstop>>
    /\ UNCHANGED <<hostVars, devVars, readersend, writersend, writerVars, mgrVars>>

(* hostProxy->control_request() returns the request the host has issued,   *)
(* which GadgetFS may have answered by then.                               *)
ReaderControlRequest ==
    /\ rpc = "request"
    /\ transfer # 0
    /\ ~taken
    /\ asked' = transfer
    /\ dropped' = FALSE
    /\ \E k \in Kinds :
         /\ IF Early(k)
            THEN /\ answer' = EarlyAck(transfer, k)
                 /\ transfer' = 0
                 /\ promised' = IF k = "SET_CONFIGURATION" THEN transfer ELSE promised
                 /\ UNCHANGED taken
            ELSE /\ taken' = TRUE
                 /\ UNCHANGED <<answer, transfer, promised>>
         /\ rp' = NewSetupPacket(transfer, k)
    /\ rpc' = "enqueue"
    /\ UNCHANGED <<hostProxy, nreq, devVars, readersend, writersend, direction_out, rstop,
                   writerVars, mgrVars>>

(* ... or returns 0 after CTRL_REQUEST_TIMEOUT_MS: if (!p) continue.       *)
ReaderRequestTimeout ==
    /\ rpc = "request"
    /\ transfer = 0 \/ taken
    /\ rpc' = "top"
    /\ UNCHANGED <<hostVars, devVars, readersend, writersend, direction_out, rp, rstop,
                   writerVars, mgrVars>>

ReaderEnqueue ==
    /\ rpc = "enqueue"
    /\ readersend' = Enqueue(readersend, rp)
    /\ direction_out' = FALSE
    /\ rp' = Null
    /\ rpc' = "top"
    /\ UNCHANGED <<hostVars, devVars, writersend, rstop, writerVars, mgrVars>>

(* p = _recvQueue->dequeue(), which blocks while the queue is empty.       *)
ReaderDequeue ==
    /\ rpc = "dequeue"
    /\ writersend # <<>>
    /\ rp' = Head(writersend)
    /\ writersend' = Tail(writersend)
    /\ rpc' = "got"
    /\ UNCHANGED <<hostVars, devVars, readersend, direction_out, rstop, writerVars, mgrVars>>

(* if (_please_stop) break; if (!p) continue;                              *)
ReaderNothing ==
    /\ rpc = "got"
    /\ \/ rstop /\ ReaderExit
       \/ /\ ~rstop
          /\ rp = Null
          /\ rpc' = "top"
          /\ UNCHANGED <<direction_out, rp, rstop>>
    /\ UNCHANGED <<hostVars, devVars, readersend, writersend, writerVars, mgrVars>>

(* send_data, control_ack or stall_ep: the host sees its transfer end.  If *)
(* it was acknowledged early no SETUP is pending: the kernel refuses the   *)
(* read or write, and the next transfer's SETUP has not been read yet.     *)
ReaderAnswer ==
    /\ rpc = "got"
    /\ ~rstop
    /\ rp # Null
    /\ IF taken
       THEN /\ answer' = AnswerWith(transfer, rp)
            /\ transfer' = 0
            /\ taken' = FALSE
       ELSE UNCHANGED <<answer, transfer, taken>>
    /\ rpc' = "complete"
    /\ UNCHANGED <<hostProxy, nreq, asked, dropped, promised, devVars, readersend, writersend, direction_out, rp,
                   rstop, writerVars, mgrVars>>

(* send_wait_complete() says that the answer has left ...                  *)
ReaderComplete ==
    /\ rpc = "complete"
    /\ direction_out' = TRUE
    /\ rp' = Null
    /\ rpc' = "top"
    /\ UNCHANGED <<hostVars, devVars, readersend, writersend, rstop, writerVars, mgrVars>>

(* ... or not within CTRL_REQUEST_TIMEOUT_MS: p is kept and asked again.   *)
ReaderIncomplete ==
    /\ rpc = "complete"
    /\ rpc' = "top"
    /\ UNCHANGED <<hostVars, devVars, readersend, writersend, direction_out, rp, rstop,
                   writerVars, mgrVars>>

-----------------------------------------------------------------------------
(* RelayWriter::relay_write_setup *)

(* The next packet restarts j, which is 0 here while there is none.        *)
WriterExit ==
    /\ wpc' = "exited"
    /\ wstop' = FALSE
    /\ wp' = Null
    /\ j' = 0

WriterTop ==
    /\ wpc = "top"
    /\ \/ wstop /\ WriterExit
       \/ ~wstop /\ wpc' = "dequeue" /\ UNCHANGED <<wp, j, wstop>>
    /\ UNCHANGED <<hostVars, devVars, readersend, writersend, readerVars, mgrVars>>

(* Mutant: the head is read and left in the queue.                         *)
WriterPeek ==
    /\ wpc = "dequeue"
    /\ readersend # <<>>
    /\ wp' = Head(readersend)
    /\ wpc' = "got"
    /\ UNCHANGED <<hostVars, devVars, readersend, writersend, j, wstop, readerVars, mgrVars>>

WriterDequeue ==
    /\ wpc = "dequeue"
    /\ readersend # <<>>
    /\ wp' = Head(readersend)
    /\ readersend' = Tail(readersend)
    /\ wpc' = "got"
    /\ UNCHANGED <<hostVars, devVars, writersend, j, wstop, readerVars, mgrVars>>

(* if (_please_stop) break; if (!p) continue;                              *)
WriterGot ==
    /\ wpc = "got"
    /\ \/ wstop /\ WriterExit
       \/ /\ ~wstop
          /\ wpc' = IF wp = Null THEN "top" ELSE "filterOut"
          /\ j' = 0
          /\ UNCHANGED <<wp, wstop>>
    /\ UNCHANGED <<hostVars, devVars, readersend, writersend, readerVars, mgrVars>>

(* One filter on the way out.  It may clear filter_out (no more filters)   *)
(* and transmit_out (do not forward the request).  What the last filter    *)
(* says of further ones makes no difference.                               *)
WriterFilterOut ==
    /\ wpc = "filterOut"
    /\ j < NumFilters /\ wp.filter_out
    /\ \E more, forward \in BOOLEAN :
          /\ more \/ j + 1 < NumFilters
          /\ wp' = [wp EXCEPT !.filter_out = more, !.transmit_out = forward]
    /\ j' = j + 1
    /\ UNCHANGED <<wpc, wstop, hostVars, devVars, readersend, writersend, readerVars, mgrVars>>

(* if (!s->transmit_out) continue: nothing is sent back to the reader.     *)
WriterDrop ==
    /\ wpc = "filterOut"
    /\ ~(j < NumFilters /\ wp.filter_out)
    /\ ~wp.transmit_out
    /\ dropped' = (dropped \/ wp.id = asked)
    /\ wpc' = "top"
    /\ wp' = Null
    /\ j' = 0
    /\ UNCHANGED <<hostProxy, nreq, transfer, taken, answer, asked, promised, wstop, devVars, readersend,
                   writersend, readerVars, mgrVars>>

WriterForward ==
    /\ wpc = "filterOut"
    /\ ~(j < NumFilters /\ wp.filter_out)
    /\ wp.transmit_out
    /\ wpc' = "request"
    /\ UNCHANGED <<wp, j, wstop, hostVars, devVars, readersend, writersend, readerVars, mgrVars>>

(* Mutant: the device's verdict is not looked at.                          *)
WriterRequestUnchecked ==
    /\ wpc = "request"
    /\ \E ok \in BOOLEAN, length \in BOOLEAN :
          wp' = [wp EXCEPT !.transmit_in = TRUE,
                           !.hasData = (wp.kind = "IN" /\ length),
                           !.device = IF ok THEN "ok" ELSE "failed"]
    /\ j' = IF wp.kind = "IN" THEN 0 ELSE j
    /\ executed' = wp.id
    /\ wpc' = IF wp.kind = "SET_CONFIGURATION" THEN "setConfig" ELSE "filterIn"
    /\ UNCHANGED <<wstop, configured, hostVars, readersend, writersend, readerVars, mgrVars>>

(* Mutant: setConfig() is called only when the device accepted.            *)
WriterRequestConfigIfOk ==
    /\ wpc = "request"
    /\ \E ok \in BOOLEAN, length \in BOOLEAN :
          /\ wp' = [wp EXCEPT !.transmit_in = ok,
                              !.hasData = (wp.kind = "IN" /\ length),
                              !.device = IF ok THEN "ok" ELSE "failed"]
          /\ wpc' = IF ok /\ wp.kind = "SET_CONFIGURATION" THEN "setConfig" ELSE "filterIn"
    /\ j' = IF wp.kind = "IN" THEN 0 ELSE j
    /\ executed' = wp.id
    /\ UNCHANGED <<wstop, configured, hostVars, readersend, writersend, readerVars, mgrVars>>

(***************************************************************************)
(* deviceProxy->control_request().  An IN request restarts the filters for *)
(* the way back (j=0) and takes wLength from the device; if the device     *)
(* fails, length is uninitialized.  An OUT request goes on with the j its  *)
(* way out ended with, and has no data to return.                          *)
(***************************************************************************)
WriterControlRequest ==
    /\ wpc = "request"
    /\ \E ok \in BOOLEAN, length \in BOOLEAN :
          wp' = [wp EXCEPT !.transmit_in = ok,
                           !.hasData = (wp.kind = "IN" /\ length),
                           !.device = IF ok THEN "ok" ELSE "failed"]
    /\ j' = IF wp.kind = "IN" THEN 0 ELSE j
    /\ executed' = wp.id
    /\ wpc' = IF wp.kind = "SET_CONFIGURATION" THEN "setConfig" ELSE "filterIn"
    /\ UNCHANGED <<wstop, configured, hostVars, readersend, writersend, readerVars, mgrVars>>

(* manager->setConfig(), whatever the device answered; Manager.tla models  *)
(* what it starts.                                                         *)
WriterSetConfig ==
    /\ wpc = "setConfig"
    /\ configured' = wp.id
    /\ wpc' = "filterIn"
    /\ UNCHANGED <<wp, j, wstop, executed, hostVars, readersend, writersend, readerVars, mgrVars>>

(* One filter on the way back.                                             *)
WriterFilterIn ==
    /\ wpc = "filterIn"
    /\ j < NumFilters /\ wp.filter_in
    /\ \E more, transmit \in BOOLEAN :
          /\ more \/ j + 1 < NumFilters
          /\ wp' = [wp EXCEPT !.filter_in = more, !.transmit_in = transmit,
                              !.overridden = (@ \/ transmit # wp.transmit_in)]
    /\ j' = j + 1
    /\ UNCHANGED <<wpc, wstop, hostVars, devVars, readersend, writersend, readerVars, mgrVars>>

(* Mutant: a request the device refused is not sent back.                  *)
WriterEnqueueIfOk ==
    /\ wpc = "filterIn"
    /\ ~(j < NumFilters /\ wp.filter_in)
    /\ writersend' = IF wp.transmit_in THEN Enqueue(writersend, wp) ELSE writersend
    /\ wpc' = "top"
    /\ wp' = Null
    /\ j' = 0
    /\ UNCHANGED <<wstop, hostVars, devVars, readersend, readerVars, mgrVars>>

WriterEnqueue ==
    /\ wpc = "filterIn"
    /\ ~(j < NumFilters /\ wp.filter_in)
    /\ writersend' = Enqueue(writersend, wp)
    /\ wpc' = "top"
    /\ wp' = Null
    /\ j' = 0
    /\ UNCHANGED <<wstop, hostVars, devVars, readersend, readerVars, mgrVars>>

-----------------------------------------------------------------------------
(* Manager::start_control_relaying and stop_relaying, as far as endpoint 0 *)
(* is concerned.                                                           *)

(* New relayers over the old queues; hostProxy->connect() succeeds.        *)
Start ==
    /\ mpc = "idle"
    /\ session < MaxSessions
    /\ session' = session + 1
    /\ clean' = (readersend = <<>> /\ writersend = <<>>)
    /\ direction_out' = TRUE
    /\ rstop' = FALSE
    /\ wstop' = FALSE
    /\ dropped' = FALSE
    /\ promised' = 0
    /\ mpc' = "connected"
    /\ UNCHANGED <<hostProxy, nreq, transfer, taken, answer, asked, devVars, readersend, writersend, rpc, rp, wpc, wp, j>>

StartReader ==
    /\ mpc = "connected"
    /\ rpc' = "top"
    /\ mpc' = "readerStarted"
    /\ UNCHANGED <<hostVars, devVars, readersend, writersend, direction_out, rp, rstop,
                   writerVars, session, clean>>

StartWriter ==
    /\ mpc = "readerStarted"
    /\ wpc' = "top"
    /\ mpc' = "relaying"
    /\ UNCHANGED <<hostVars, devVars, readersend, writersend, readerVars, wp, j, wstop,
                   session, clean>>

(* A signal, or a status other than USBM_SETUP after either thread start.  *)
StopRelaying ==
    /\ mpc \in {"connected", "readerStarted", "relaying"}
    /\ mpc' = "stopReader"
    /\ UNCHANGED <<hostVars, devVars, readersend, writersend, readerVars, writerVars,
                   session, clean>>

(* RelayReader::please_stop: the flag first, then the null packet, and     *)
(* only for a thread that was started.                                     *)
SignalReader ==
    /\ mpc = "stopReader"
    /\ IF rpc = "off" THEN mpc' = "stopWriter" /\ UNCHANGED rstop
                      ELSE mpc' = "wakeReader" /\ rstop' = TRUE
    /\ UNCHANGED <<hostVars, devVars, readersend, writersend, rpc, direction_out, rp,
                   writerVars, session, clean>>

(* Mutant: please_stop() sets the flag and enqueues nothing.               *)
WakeReaderSilently ==
    /\ mpc = "wakeReader"
    /\ mpc' = "stopWriter"
    /\ UNCHANGED <<hostVars, devVars, readersend, writersend, readerVars, writerVars, session, clean>>

WakeReader ==
    /\ mpc = "wakeReader"
    /\ writersend' = Enqueue(writersend, Null)
    /\ mpc' = "stopWriter"
    /\ UNCHANGED <<hostVars, devVars, readersend, readerVars, writerVars, session, clean>>

(* RelayWriter::please_stop *)
SignalWriter ==
    /\ mpc = "stopWriter"
    /\ IF wpc = "off" THEN mpc' = "joinReader" /\ UNCHANGED wstop
                      ELSE mpc' = "wakeWriter" /\ wstop' = TRUE
    /\ UNCHANGED <<hostVars, devVars, readersend, writersend, readerVars, wpc, wp, j,
                   session, clean>>

WakeWriter ==
    /\ mpc = "wakeWriter"
    /\ readersend' = Enqueue(readersend, Null)
    /\ mpc' = "joinReader"
    /\ UNCHANGED <<hostVars, devVars, writersend, readerVars, writerVars, session, clean>>

(* thread.join(), delete the relayer                                       *)
JoinReader ==
    /\ mpc = "joinReader"
    /\ rpc \in {"off", "exited"}
    /\ rpc' = "off"
    /\ mpc' = "joinWriter"
    /\ UNCHANGED <<hostVars, devVars, readersend, writersend, direction_out, rp, rstop,
                   writerVars, session, clean>>

JoinWriter ==
    /\ mpc = "joinWriter"
    /\ wpc \in {"off", "exited"}
    /\ wpc' = "off"
    /\ mpc' = "disconnect"
    /\ UNCHANGED <<hostVars, devVars, readersend, writersend, readerVars, wp, j, wstop,
                   session, clean>>

(* hostProxy->disconnect() ends what the host had outstanding; the queues  *)
(* are left as they are.                                                   *)
Disconnect ==
    /\ mpc = "disconnect"
    /\ transfer' = 0
    /\ taken' = FALSE
    /\ mpc' = "idle"
    /\ UNCHANGED <<hostProxy, nreq, answer, asked, dropped, promised, devVars, readersend,
                   writersend, readerVars, writerVars, session, clean>>

(* The program ends here when it is not started again.                     *)
Finished ==
    /\ mpc = "idle"
    /\ session = MaxSessions
    /\ UNCHANGED vars

-----------------------------------------------------------------------------
Reader == ReaderTop \/ ReaderControlRequest \/ ReaderRequestTimeout \/ ReaderEnqueue
          \/ ReaderDequeue \/ ReaderNothing \/ ReaderAnswer \/ ReaderComplete
          \/ ReaderIncomplete
WriterOwn == WriterTop \/ WriterDequeue \/ WriterGot \/ WriterFilterOut \/ WriterDrop
             \/ WriterForward \/ WriterControlRequest \/ WriterFilterIn \/ WriterEnqueue
Writer == WriterOwn \/ WriterSetConfig
Starting == Start \/ StartReader \/ StartWriter
Stopping == SignalReader \/ WakeReader \/ SignalWriter \/ WakeWriter \/ JoinReader
            \/ JoinWriter \/ Disconnect

Next == HostSetup \/ Reader \/ Writer \/ Starting \/ StopRelaying \/ Stopping \/ Finished

Spec == Init /\ [][Next]_vars

(***************************************************************************)
(* Fairness.  A relayer thread that can run does run: control requests     *)
(* have a timeout in every proxy, the dequeue blocks, a filter call        *)
(* returns.  send_wait_complete(0) is synchronous in every host proxy.     *)
(* setConfig() is not assumed to return: DeviceProxy_TCP::setConfig() waits *)
(* for the other side without bound.  The stopping thread runs, but a join *)
(* waits for its thread.  Nobody has to issue a request, stop or start.    *)
(***************************************************************************)
FairSpec ==
    /\ Spec
    /\ WF_vars(Reader) /\ SF_vars(ReaderComplete)
    /\ WF_vars(WriterOwn)
    /\ WF_vars(StartReader \/ StartWriter)
    /\ WF_vars(Stopping)

-----------------------------------------------------------------------------
Packets == SetupPackets \cup {Null}
AnswerRecords ==
    [transfer : Nat, id : Nat, kind : Kinds, how : {"data", "ack", "stall", "early"},
     device : {"unasked", "ok", "failed"}, overridden : BOOLEAN]

FlagsOK == /\ taken \in BOOLEAN /\ dropped \in BOOLEAN /\ clean \in BOOLEAN
           /\ direction_out \in BOOLEAN /\ rstop \in BOOLEAN /\ wstop \in BOOLEAN

(* Types of the two relayers, the queues and the host's view.              *)
TypeOK ==
    /\ FlagsOK
    /\ hostProxy \in {"GadgetFS", "TCP"}
    /\ nreq \in Nat /\ transfer \in Nat /\ answer \in AnswerRecords
    /\ asked \in Nat /\ promised \in Nat
    /\ executed \in Nat /\ configured \in Nat
    /\ readersend \in Seq(Packets) /\ writersend \in Seq(Packets)
    /\ rpc \in ReaderPoints /\ rp \in Packets
    /\ wpc \in WriterPoints /\ wp \in Packets /\ j \in Nat
    /\ mpc \in ManagerPoints /\ session \in Nat

(* Where a request or its answer can be on its way.                        *)
Pending(queue) == {i \in DOMAIN queue : queue[i] # Null}
InReader == rpc \in {"enqueue", "got"} /\ rp # Null
InWriter == wp # Null

(* The packet is the one handed out last, and the host waits for it or had *)
(* its answer early.                                                       *)
Owned(p) ==
    /\ p.id = asked
    /\ IF taken THEN transfer = asked ELSE Early(p.kind)

(* At most one control packet is on its way, the one handed out last.      *)
OneToken ==
    /\ \A i \in Pending(readersend) : Owned(readersend[i])
    /\ \A i \in Pending(writersend) : Owned(writersend[i])
    /\ InReader => Owned(rp)
    /\ InWriter => Owned(wp)
    /\ \A i, k \in Pending(readersend) : i = k
    /\ \A i, k \in Pending(writersend) : i = k
    /\ Pending(readersend) = {} \/ Pending(writersend) = {}
    /\ InReader \/ InWriter => Pending(readersend) = {} /\ Pending(writersend) = {}
    /\ ~(InReader /\ InWriter)

(* In a session that starts with empty queues, at most one control packet  *)
(* is on its way at any time, also when an early acknowledgement lets the  *)
(* host issue its next request.  The reader's strict alternation           *)
(* (direction_out) is what keeps _readersend and _writersend far from      *)
(* QUEUE_MAX.                                                              *)
SingleInFlight == clean /\ mpc # "idle" => OneToken

(* In a session that starts with empty queues, the answer the host sees is *)
(* the answer to the transfer it has outstanding (RelayReader.cpp:92-100). *)
PairedInCleanSession ==
    [][clean /\ answer' # answer => answer'.id = answer'.transfer]_vars

(* The same in every session: "sighup: reset forwarding threads, reset     *)
(* device and gadget" (usb-mitm.cpp:53).                                   *)
AnswersArePaired == answer.id = answer.transfer

(* In any session, whatever the relayers answer to the host is a stall     *)
(* exactly when the device refused the request the answer belongs to, and  *)
(* data only for an IN request, unless a filter overrode transmit_in.  The *)
(* host never sees the refusal of what GadgetFS acknowledged early.        *)
AnswerFaithful ==
    answer.id # 0 /\ answer.how # "early" /\ ~answer.overridden =>
        /\ answer.device # "unasked"
        /\ answer.how = "stall" <=> answer.device = "failed"
        /\ answer.how = "data" => answer.kind = "IN"

(* Manager::setConfig() runs before the relayers answer SET_CONFIGURATION. *)
(* GadgetFS acknowledges it earlier than that, and the host may go on; in  *)
(* a session that starts with empty queues setConfig() has still run for   *)
(* it before the device is asked anything else.                            *)
ConfiguredInTime ==
    /\ answer.kind = "SET_CONFIGURATION" /\ answer.how # "early" => configured >= answer.id
    /\ clean /\ wpc = "request" => wp.id = promised \/ configured >= promised

(* Across any number of restarts, and whatever the queues held when they   *)
(* happened, the device executes the host's requests in the order the host *)
(* issued them and none of them twice.                                     *)
ExecutedInOrder ==
    [][wpc = "request" /\ wpc' # "request" => executed' > executed]_vars

(* stop_relaying() ends: whatever the relayers are doing or blocked on,    *)
(* the flag and the null packet of please_stop() get them to exit.  Only a *)
(* setConfig() that does not return keeps it from it: out of setConfig()   *)
(* the same holds again.                                                   *)
StopCompletes ==
    (mpc \in {"stopReader", "wakeReader", "stopWriter", "wakeWriter", "joinReader", "joinWriter"})
        ~> (mpc = "idle" \/ wpc = "setConfig")

(* In a session that starts with empty queues, a request the host issues   *)
(* while relaying is answered, unless a filter cleared transmit_out of it, *)
(* or of the one acknowledged early before it (then nothing comes back and *)
(* the reader blocks), setConfig() hangs or relaying is stopped.           *)
AnsweredOrDropped ==
    (clean /\ transfer # 0 /\ mpc = "relaying")
        ~> (transfer = 0 \/ dropped \/ mpc # "relaying" \/ wpc = "setConfig")
===============================================================================
