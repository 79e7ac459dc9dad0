------------------------------- MODULE GadgetFS -------------------------------
(***************************************************************************)
(* HostProxy_GadgetFS and GadgetFS_helpers.c: the proxy's side of the USB  *)
(* host.  Control transfers come as events of the gadget's device file;    *)
(* every data endpoint has a file and one aiocb, which the aio library     *)
(* executes in a thread of its own.  The callers are the ones of the       *)
(* relaying engine: Manager connects, configures and disconnects, the EP0  *)
(* reader asks for control requests and answers them one at a time, one    *)
(* writer per IN endpoint sends a packet and waits until it is complete,   *)
(* one reader per OUT endpoint receives.                                   *)
(*                                                                         *)
(* External, modelled from their use here: the kernel's gadgetfs (a file   *)
(* of an endpoint can be open once; reads and writes of the device file    *)
(* answer a transfer only while its SETUP has been read and is unanswered; *)
(* reading the data of an OUT transfer completes it) and the aio library   *)
(* (requests of one file run one after the other, a request's buffer is    *)
(* looked up in the aiocb when it starts, the aiocb's status is the one of *)
(* the request submitted or completed last).                               *)
(***************************************************************************)
EXTENDS Naturals, Sequences, SequencesExt

CONSTANTS Layouts,      \* the endpoints of a configuration, in setConfig()'s order
          MaxTransfers, \* bound: control transfers of the host
          MaxPackets,   \* bound: packets per endpoint and session
          MaxSessions,  \* bound: calls of connect() and reset()
          MaxFaults     \* bound: timeouts of aio_suspend() and failed requests

ASSUME GadgetAssumption ==
    /\ MaxTransfers \in Nat /\ MaxPackets \in Nat /\ MaxSessions \in Nat /\ MaxFaults \in Nat
    /\ \A l \in Layouts : l \in Seq([number : 1 .. 15, in : BOOLEAN])

Numbers == UNION {{l[i].number : i \in DOMAIN l} : l \in Layouts}
Kinds == {"inData", "inEmpty", "outData", "outEmpty", "setConfig"}
Transfers == 1 .. MaxTransfers
NEVENT == 5
Idle == MaxPackets + 1    \* no request runs
NULL == 0

VARIABLES
    layout,
    \* The proxy: gadgetfs_path, its mount, p_is_connected, p_device_file, descriptor.
    path, mounted, connected, file, descriptor,
    \* EP0: lastControl, the kernel's event queue and transfer in SETUP state.
    lastControl, events, setup,
    kind,        \* transfers issued so far
    asked,       \* the transfer the EP0 relayers work on, 0 if none
    configured,  \* setConfig() has run for it
    verdict,     \* what the relayers answered, per transfer
    answer,      \* what the host saw
    \* IN endpoints: p_epin_async, p_epin_active, aio_buf, status of the aiocb,
    \* requests not started, packet of the request that runs.
    epin, active, buf, status, queued, wire,
    \* OUT endpoints: p_epout_async, status of the aiocb.
    epout, ostatus,
    files,       \* endpoint files open
    \* The data relayers and the host.
    relaying,    \* the data relayers have been started
    writing, sent, seen, hostSent, received,
    \* History.
    sessions, faults,
    lost,        \* packets whose request failed
    unsure,      \* endpoints with a timeout, or used while closed, in this session
    leaked       \* an aio_read() could not be submitted

mountVars == <<path, mounted>>
linkVars == <<connected, file, descriptor>>
controlVars == <<lastControl, events, setup, kind, asked, configured, verdict, answer>>
inVars == <<epin, active, buf, status, queued, wire>>
outVars == <<epout, ostatus>>
relayVars == <<relaying, writing, sent, seen, hostSent, received>>
histVars == <<sessions, faults, lost, unsure, leaked>>
vars == <<layout, mountVars, linkVars, controlVars, inVars, outVars, files, relayVars, histVars>>

All(v) == [n \in Numbers |-> v]
NoRelaying ==
    /\ relaying' = FALSE
    /\ writing' = All(FALSE) /\ sent' = All(0) /\ seen' = All(<<>>)
    /\ hostSent' = All(0) /\ received' = All(0)

(* The constructor mounts gadgetfs; the return value is not looked at.     *)
Init ==
    /\ layout \in Layouts
    /\ path = "dir" /\ mounted \in BOOLEAN
    /\ connected = FALSE /\ file = "closed" /\ descriptor = FALSE
    /\ lastControl = 0 /\ events = <<>> /\ setup = 0
    /\ kind = <<>> /\ asked = 0 /\ configured = FALSE
    /\ verdict = [t \in Transfers |-> "none"] /\ answer = [t \in Transfers |-> "none"]
    /\ epin = All(FALSE) /\ active = All(FALSE) /\ buf = All(NULL)
    /\ status = All("none") /\ queued = All(0) /\ wire = All(Idle)
    /\ epout = All(FALSE) /\ ostatus = All("none")
    /\ files = {}
    /\ relaying = FALSE
    /\ writing = All(FALSE) /\ sent = All(0) /\ seen = All(<<>>)
    /\ hostSent = All(0) /\ received = All(0)
    /\ sessions = 0 /\ faults = 0 /\ lost = All({}) /\ unsure = {} /\ leaked = FALSE

-----------------------------------------------------------------------------
(* Connecting and disconnecting *)

(* mount_gadget() first unmounts what an earlier run left, puts back the   *)
(* mounts of others, removes empty directories and makes a new one.  It    *)
(* keeps the path also when the mount fails.                               *)
MountGadget == path' = "dir" /\ mounted' \in BOOLEAN

(* find_gadget_filename() mounts again after a disconnect, and finds the   *)
(* controller's file in the mount.                                         *)
FindGadget == IF path = "NULL" THEN MountGadget ELSE UNCHANGED mountVars

(* open_gadget() and the write of the descriptors: found, opened, written. *)
OpenGadget ==
    \/ /\ mounted' /\ file' = "open" /\ connected' = TRUE
    \/ /\ file' \in {"failed", "closed"} /\ connected' = FALSE

(* connect(), with generate_descriptor() (DeviceModel.tla).                *)
Connect ==
    /\ ~connected /\ sessions < MaxSessions
    /\ sessions' = sessions + 1
    /\ descriptor' = TRUE
    /\ FindGadget
    /\ OpenGadget
    /\ UNCHANGED <<layout, controlVars, inVars, outVars, files, relayVars, faults, lost, unsure, leaked>>

(* Closing the device file ends what the kernel was doing for the host.    *)
EndControl ==
    /\ events' = <<>> /\ setup' = 0 /\ asked' = 0 /\ configured' = FALSE
    /\ answer' = [t \in Transfers |->
                    IF t \in DOMAIN kind /\ answer[t] = "none" THEN "aborted" ELSE answer[t]]
    /\ UNCHANGED <<lastControl, kind, verdict>>

(* Mutant: the aiocbs are deleted and their files stay open.               *)
CloseEndpointsUnclosed ==
    /\ epin' = All(FALSE) /\ epout' = All(FALSE)
    /\ buf' = All(NULL) /\ status' = All("none") /\ queued' = All(0) /\ wire' = All(Idle)
    /\ ostatus' = All("none")
    /\ UNCHANGED <<active, files>>

(* Each aiocb is cancelled, its file closed and its buffer freed;          *)
(* p_epin_active keeps its value.                                          *)
CloseEndpoints ==
    /\ files' = {e \in files : ~(IF e.in THEN epin ELSE epout)[e.number]}
    /\ epin' = All(FALSE) /\ epout' = All(FALSE)
    /\ buf' = All(NULL) /\ status' = All("none") /\ queued' = All(0) /\ wire' = All(Idle)
    /\ ostatus' = All("none")
    /\ UNCHANGED active

(* Only a mount without open files can be unmounted; the path is forgotten *)
(* either way.                                                             *)
UnmountGadget == path' = "NULL" /\ mounted' = (files' # {})

Disconnect ==
    /\ connected
    /\ file' = "closed" /\ connected' = FALSE
    /\ EndControl
    /\ CloseEndpoints
    /\ UnmountGadget
    /\ NoRelaying
    /\ unsure' = {} /\ lost' = All({})
    /\ UNCHANGED <<layout, descriptor, sessions, faults, leaked>>

(* reset(): disconnect(), then reconnect() with the descriptor there is.   *)
(* The endpoints stay closed until the next setConfig().                   *)
Reset ==
    /\ connected /\ sessions < MaxSessions
    /\ sessions' = sessions + 1
    /\ EndControl
    /\ CloseEndpoints
    /\ path' = "dir" /\ mounted' \in BOOLEAN
    /\ OpenGadget
    /\ unsure' = Numbers
    /\ UNCHANGED <<layout, descriptor, relayVars, faults, lost, leaked>>

-----------------------------------------------------------------------------
(* EP0 *)

In(t) == kind[t] \in {"inData", "inEmpty"}
HasLength(t) == kind[t] \in {"inData", "outData"}

(* What the kernel makes of a read or a write of the device file: an       *)
(* answer to the transfer in SETUP state, or an error if there is none.    *)
OnWrite(t) == IF In(t) THEN "ok" ELSE "stall"
OnRead(t) == IF In(t) THEN "stall" ELSE "ok"
Answered(a) == answer' = IF setup = 0 THEN answer ELSE [answer EXCEPT ![setup] = a]

ControlAck == IF In(lastControl) THEN OnWrite(lastControl) ELSE OnRead(lastControl)

(* Mutant: the directions of a stall are those of an ack.                  *)
StallEpSwapped == IF In(lastControl) THEN OnWrite(lastControl) ELSE OnRead(lastControl)
StallEp == IF In(lastControl) THEN OnRead(lastControl) ELSE OnWrite(lastControl)

HostSetup ==
    /\ connected
    /\ Len(kind) < MaxTransfers
    /\ \A t \in DOMAIN kind : answer[t] # "none"
    /\ \E k \in Kinds : kind' = Append(kind, k)
    /\ events' = Append(events, Len(kind) + 1)
    /\ UNCHANGED <<layout, mountVars, linkVars, lastControl, setup, asked, configured, verdict,
                   answer, inVars, outVars, files, relayVars, histVars>>

(* Connect, disconnect, suspend: event 0.                                  *)
HostEvent ==
    /\ connected /\ 0 \notin Range(events)
    /\ events' = Append(events, 0)
    /\ UNCHANGED <<layout, mountVars, linkVars, lastControl, setup, kind, asked, configured,
                   verdict, answer, inVars, outVars, files, relayVars, histVars>>

(* A read returns the events up to the first SETUP, at most NEVENT.  The   *)
(* ones before it are ignored.  SET_CONFIGURATION is acknowledged at once, *)
(* and the data of an OUT transfer is read.                                *)
ControlRequest ==
    /\ connected /\ asked = 0 /\ events # <<>>
    /\ LET first == SelectInSeq(events, LAMBDA e : e # 0)
           n == IF first # 0 THEN first ELSE Len(events)
           t == events[n]
           early == t # 0 /\ kind[t] \in {"setConfig", "outData"}
       IN /\ n <= NEVENT
          /\ events' = SubSeq(events, n + 1, Len(events))
          /\ IF t = 0 THEN UNCHANGED <<lastControl, setup, asked, configured, answer>>
             ELSE /\ lastControl' = t /\ asked' = t /\ configured' = FALSE
                  /\ setup' = IF early THEN 0 ELSE t
                  /\ answer' = IF early THEN [answer EXCEPT ![t] = "ok"] ELSE answer
    /\ UNCHANGED <<layout, mountVars, linkVars, kind, verdict, inVars, outVars, files, relayVars,
                   histVars>>

(* The EP0 reader returns the device's answer: data, an ack or a stall.    *)
AnswerControl ==
    /\ connected /\ asked # 0
    /\ kind[asked] = "setConfig" => configured
    /\ \E v \in {"ok", "stall"} :
         /\ verdict' = [verdict EXCEPT ![asked] = v]
         /\ Answered(IF v = "stall" THEN StallEp
                     ELSE IF HasLength(asked) THEN OnWrite(lastControl) ELSE ControlAck)
    /\ setup' = 0 /\ asked' = 0
    /\ UNCHANGED <<layout, mountVars, linkVars, lastControl, events, kind, configured, inVars,
                   outVars, files, relayVars, histVars>>

(* open_endpoint(): the file of an endpoint, by number and direction up to *)
(* 12, by number alone behind that.  (On the controller sw_usb_udc every   *)
(* file goes by number alone, as it does here from 13 on.)                 *)
FileOf(e) == [number |-> e.number, direction |-> IF e.number > 12 THEN "" ELSE IF e.in THEN "in" ELSE "out"]

(* setConfig() opens the endpoints of all alternates one by one and gives  *)
(* up at the first that cannot be opened, which an endpoint open already   *)
(* cannot.  An OUT endpoint is read from at once; if that is refused its   *)
(* aiocb is deleted and its file stays open.                               *)
SetConfig ==
    /\ connected /\ asked # 0 /\ kind[asked] = "setConfig" /\ ~configured
    /\ configured' = TRUE /\ relaying' = TRUE
    /\ \E k \in 0 .. Len(layout), refused \in SUBSET Numbers :
         LET opened == {layout[i] : i \in 1 .. k}
             outs == {e.number : e \in {o \in opened : ~o.in}}
             ins == {e.number : e \in {o \in opened : o.in}}
         IN /\ \A e \in opened, f \in files : FileOf(e) # FileOf(f)
            /\ \A i, j \in 1 .. k : FileOf(layout[i]) = FileOf(layout[j]) => i = j
            /\ refused \subseteq outs
            /\ files' = files \cup opened
            /\ epin' = [n \in Numbers |-> epin[n] \/ n \in ins]
            /\ epout' = [n \in Numbers |-> epout[n] \/ n \in outs \ refused]
            /\ ostatus' = [n \in Numbers |-> IF n \in outs \ refused THEN "inprogress" ELSE ostatus[n]]
            /\ leaked' = (leaked \/ refused # {})
    /\ UNCHANGED <<layout, mountVars, linkVars, lastControl, events, setup, kind, asked, verdict,
                   answer, active, buf, status, queued, wire, writing, sent, seen, hostSent, received,
                   sessions, faults, lost, unsure>>

-----------------------------------------------------------------------------
(* IN endpoints *)

Unchanged == UNCHANGED <<layout, mountVars, linkVars, controlVars, files, relaying, sessions, leaked>>

(* Mutant: the request is submitted twice.                                 *)
SubmitTwice(n) == queued' = [queued EXCEPT ![n] = @ + 2]
Submit(n) == queued' = [queued EXCEPT ![n] = @ + 1]

(* send_data(): the packet is copied and an aio_write() submitted, which   *)
(* may fail.  On an endpoint that is not open nothing happens.             *)
SendData(n) ==
    /\ relaying /\ [number |-> n, in |-> TRUE] \in Range(layout)
    /\ ~writing[n] /\ sent[n] < MaxPackets
    /\ writing' = [writing EXCEPT ![n] = TRUE]
    /\ sent' = [sent EXCEPT ![n] = @ + 1]
    /\ buf' = [buf EXCEPT ![n] = IF epin[n] THEN sent[n] + 1 ELSE @]
    /\ \/ /\ ~epin[n]
          /\ unsure' = unsure \cup {n}
          /\ UNCHANGED <<active, status, queued, faults, lost>>
       \/ /\ epin[n]
          /\ Submit(n)
          /\ status' = [status EXCEPT ![n] = "inprogress"]
          /\ active' = [active EXCEPT ![n] = TRUE]
          /\ UNCHANGED <<faults, lost, unsure>>
       \/ /\ epin[n] /\ faults < MaxFaults
          /\ status' = [status EXCEPT ![n] = "error"]
          /\ faults' = faults + 1
          /\ lost' = [lost EXCEPT ![n] = @ \cup {sent[n] + 1}]
          /\ UNCHANGED <<active, queued, unsure>>
    /\ UNCHANGED <<epin, wire, outVars, seen, hostSent, received>>
    /\ Unchanged

(* Mutant: a request in progress is never waited for.                      *)
SendWaitUnchecked(n) ==
    /\ writing[n] /\ epin[n]
    /\ buf' = [buf EXCEPT ![n] = NULL]
    /\ active' = [active EXCEPT ![n] = FALSE]
    /\ writing' = [writing EXCEPT ![n] = FALSE]
    /\ UNCHANGED <<epin, status, queued, wire, outVars, sent, seen, hostSent, received, faults, lost,
                   unsure>>
    /\ Unchanged

(* send_wait_complete() returns true: nothing in flight; an error; a       *)
(* completed write; or an aio_suspend() that timed out, whose buffer is    *)
(* freed and whose endpoint stays active, as after a write of no bytes.    *)
(* It returns false, the buffer freed, when the write fails just after     *)
(* aio_suspend() has timed out: aio_return() is -1, and the writer asks    *)
(* again.                                                                  *)
SendWait(n) ==
    /\ writing[n] /\ epin[n]
    /\ \/ /\ ~active[n]
          /\ writing' = [writing EXCEPT ![n] = FALSE]
          /\ UNCHANGED <<buf, active, faults, unsure>>
       \/ /\ active[n] /\ status[n] # "inprogress"
          /\ writing' = [writing EXCEPT ![n] = FALSE]
          /\ buf' = [buf EXCEPT ![n] = NULL]
          /\ active' = [active EXCEPT ![n] = status[n] = "zero"]
          /\ UNCHANGED <<faults, unsure>>
       \/ /\ active[n] /\ status[n] = "inprogress" /\ faults < MaxFaults
          /\ writing' = [writing EXCEPT ![n] = FALSE]
          /\ buf' = [buf EXCEPT ![n] = NULL]
          /\ faults' = faults + 1
          /\ unsure' = unsure \cup {n}
          /\ UNCHANGED active
       \/ /\ active[n] /\ status[n] = "error" /\ faults < MaxFaults
          /\ buf' = [buf EXCEPT ![n] = NULL]
          /\ faults' = faults + 1
          /\ UNCHANGED <<active, writing, unsure>>
    /\ UNCHANGED <<epin, status, queued, wire, outVars, sent, seen, hostSent, received, lost>>
    /\ Unchanged

(* The aio library's thread takes the next request of the endpoint.        *)
AioStart(n) ==
    /\ queued[n] > 0 /\ wire[n] = Idle
    /\ wire' = [wire EXCEPT ![n] = buf[n]]
    /\ queued' = [queued EXCEPT ![n] = @ - 1]
    /\ UNCHANGED <<epin, active, buf, status, outVars, writing, sent, seen, hostSent, received,
                   faults, lost, unsure>>
    /\ Unchanged

HostTakes(n) ==
    /\ wire[n] # Idle
    /\ seen' = [seen EXCEPT ![n] = Append(@, wire[n])]
    /\ status' = [status EXCEPT ![n] = IF wire[n] = NULL THEN "zero" ELSE "done"]
    /\ wire' = [wire EXCEPT ![n] = Idle]
    /\ UNCHANGED <<epin, active, buf, queued, outVars, writing, sent, hostSent, received, faults, lost,
                   unsure>>
    /\ Unchanged

(* The transfer fails, for example because the host resets the bus.        *)
HostRefuses(n) ==
    /\ wire[n] # Idle /\ faults < MaxFaults
    /\ status' = [status EXCEPT ![n] = "error"]
    /\ wire' = [wire EXCEPT ![n] = Idle]
    /\ faults' = faults + 1
    /\ lost' = [lost EXCEPT ![n] = @ \cup ({wire[n]} \ {NULL})]
    /\ UNCHANGED <<epin, active, buf, queued, outVars, writing, sent, seen, hostSent, received, unsure>>
    /\ Unchanged

-----------------------------------------------------------------------------
(* OUT endpoints *)

HostSends(n) ==
    /\ epout[n] /\ ostatus[n] = "inprogress" /\ hostSent[n] < MaxPackets
    /\ \/ /\ hostSent' = [hostSent EXCEPT ![n] = @ + 1]
          /\ ostatus' = [ostatus EXCEPT ![n] = "done"]
          /\ UNCHANGED faults
       \/ /\ faults < MaxFaults
          /\ ostatus' = [ostatus EXCEPT ![n] = "error"]
          /\ faults' = faults + 1
          /\ UNCHANGED hostSent
    /\ UNCHANGED <<epout, inVars, writing, sent, seen, received, lost, unsure>>
    /\ Unchanged

(* receive_data(): a completed read is returned and the next one           *)
(* submitted; if that fails the aiocb is deleted with its file open.  A    *)
(* read in progress, or one that failed, returns nothing.                  *)
ReceiveData(n) ==
    /\ epout[n] /\ ostatus[n] = "done"
    /\ received' = [received EXCEPT ![n] = @ + 1]
    /\ \/ /\ ostatus' = [ostatus EXCEPT ![n] = "inprogress"]
          /\ UNCHANGED <<epout, faults, leaked>>
       \/ /\ faults < MaxFaults
          /\ faults' = faults + 1 /\ leaked' = TRUE
          /\ epout' = [epout EXCEPT ![n] = FALSE]
          /\ ostatus' = [ostatus EXCEPT ![n] = "none"]
    /\ UNCHANGED <<layout, mountVars, linkVars, controlVars, inVars, files, relaying, writing,
                   sent, seen, hostSent, sessions, lost, unsure>>

Next ==
    \/ Connect \/ Disconnect \/ Reset
    \/ HostSetup \/ HostEvent \/ ControlRequest \/ SetConfig \/ AnswerControl
    \/ \E n \in Numbers :
         \/ SendData(n) \/ SendWait(n) \/ AioStart(n) \/ HostTakes(n) \/ HostRefuses(n)
         \/ HostSends(n) \/ ReceiveData(n)

Spec == Init /\ [][Next]_vars
-----------------------------------------------------------------------------
(* Types; no endpoint has more requests than packets given to send_data(). *)
TypeOK ==
    /\ layout \in Layouts
    /\ path \in {"NULL", "dir"} /\ mounted \in BOOLEAN
    /\ connected \in BOOLEAN /\ file \in {"closed", "open", "failed"} /\ descriptor \in BOOLEAN
    /\ lastControl \in 0 .. MaxTransfers /\ setup \in 0 .. MaxTransfers
    /\ asked \in 0 .. MaxTransfers /\ configured \in BOOLEAN
    /\ events \in Seq(0 .. MaxTransfers) /\ kind \in Seq(Kinds) /\ Len(kind) <= MaxTransfers
    /\ verdict \in [Transfers -> {"none", "ok", "stall"}]
    /\ answer \in [Transfers -> {"none", "ok", "stall", "aborted"}]
    /\ epin \in [Numbers -> BOOLEAN] /\ active \in [Numbers -> BOOLEAN]
    /\ buf \in [Numbers -> 0 .. MaxPackets] /\ wire \in [Numbers -> 0 .. Idle]
    /\ status \in [Numbers -> {"none", "inprogress", "done", "zero", "error"}]
    /\ queued \in [Numbers -> 0 .. MaxPackets]
    /\ epout \in [Numbers -> BOOLEAN]
    /\ ostatus \in [Numbers -> {"none", "inprogress", "done", "error"}]
    /\ files \subseteq [number : Numbers, in : BOOLEAN]
    /\ relaying \in BOOLEAN /\ writing \in [Numbers -> BOOLEAN] /\ sent \in [Numbers -> 0 .. MaxPackets]
    /\ seen \in [Numbers -> Seq(0 .. MaxPackets)]
    /\ hostSent \in [Numbers -> 0 .. MaxPackets] /\ received \in [Numbers -> 0 .. MaxPackets]
    /\ sessions \in 0 .. MaxSessions /\ faults \in 0 .. MaxFaults
    /\ lost \in [Numbers -> SUBSET (1 .. MaxPackets)] /\ unsure \subseteq Numbers /\ leaked \in BOOLEAN

(* As long as no wait timed out and every endpoint was open: a packet the  *)
(* writer believes sent has reached the host, once and in order, or it is  *)
(* the one whose request failed.  A failed request takes no other packet   *)
(* with it, although all of them share one aiocb.                          *)
SentOnce ==
    \A n \in Numbers \ unsure :
        /\ \A i, j \in DOMAIN seen[n] : i < j => seen[n][i] < seen[n][j]
        /\ Range(seen[n]) \cap lost[n] = {}
        /\ Range(seen[n]) \cup lost[n]
              \in {1 .. sent[n], 1 .. IF writing[n] THEN sent[n] - 1 ELSE sent[n]}

(* The host sees of every control transfer what the relayers answered to   *)
(* this transfer, also when the ack of SET_CONFIGURATION has let it send   *)
(* the next one meanwhile.  The only exceptions are SET_CONFIGURATION and  *)
(* OUT data, which are accepted before the device is asked.                *)
AnswersFaithful ==
    \A t \in DOMAIN kind : answer[t] \notin {"none", "aborted"} =>
        \/ answer[t] = verdict[t]
        \/ kind[t] \in {"setConfig", "outData"} /\ answer[t] = "ok"

(* Every open endpoint file belongs to an aiocb that disconnect() will     *)
(* find, unless an aio_read() failed: so no session leaves a file behind   *)
(* that would keep gadgetfs from being unmounted.                          *)
FilesAccountedFor ==
    ~leaked => files = {e \in [number : Numbers, in : BOOLEAN] :
                          (IF e.in THEN epin ELSE epout)[e.number]}
=============================================================================
