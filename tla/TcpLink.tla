-------------------------------- MODULE TcpLink --------------------------------
(***************************************************************************)
(* Two USBProxy programs connected by TCP.  The server's device proxy is   *)
(* DeviceProxy_TCP, the client's host proxy HostProxy_TCP, both on top of  *)
(* a TCP_Helper with a socket per endpoint.  Control requests of the       *)
(* server (its device model's, then those of its host) go to the client    *)
(* over endpoint 0's socket and are answered from the client's device.     *)
(*                                                                         *)
(* TCP is external: it delivers what was written in order, but a read may  *)
(* return several messages at once.  A message is assumed to fit           *)
(* TCP_BUFFER_SIZE, and bind() and listen() to work.                       *)
(***************************************************************************)
EXTENDS Integers, Sequences, FiniteSets

CONSTANTS Eps,          \* the endpoints of the configuration
          MaxRequests,  \* bound: control requests
          MaxRestarts   \* bound: restarts (SIGHUP), of both programs together

ASSUME TcpLinkAssumption ==
    /\ IsFiniteSet(Eps) /\ 0 \notin Eps
    /\ MaxRequests \in Nat /\ MaxRestarts \in Nat

Ports == Eps \cup {0}

(* The requests of the device model: a descriptor, which must be there,    *)
(* and the qualifier, which need not.                                      *)
ModelRequests == <<"get", "qualifier">>
HostRequests == {"get", "config", "out"}   \* out: with data for the device

VARIABLES
    server, client,             \* what each program is at
    \* ep_listener and the server's ep_connect; connections to be accepted.
    listening, accepted, backlog,
    sock,                       \* the client's ep_socket and ep_connect
    toClient, toServer,         \* endpoint 0's stream, each way
    request,                    \* the server's request that is under way
    stage,                      \* the next of the ModelRequests
    held, stalled,              \* the client's request, and its device's answer
    sent, restarts,
    \* History: the last request answered and the one the answer was for; a
    \* request timed out; a request was lost on the way.
    taken, late, lost

serverVars == <<server, listening, accepted, request, stage>>
clientVars == <<client, sock, held, stalled>>
history == <<sent, restarts, taken, late, lost>>
vars == <<serverVars, clientVars, backlog, toClient, toServer, history>>

Null == <<>>

Init ==
    /\ server = "connect" /\ client = "connect"
    /\ listening = {} /\ accepted = {} /\ backlog = {}
    /\ sock = [p \in Ports |-> "none"]
    /\ toClient = <<>> /\ toServer = <<>>
    /\ request = Null /\ stage = 1 /\ held = Null /\ stalled = FALSE
    /\ sent = 0 /\ restarts = 0
    /\ taken = [asked |-> 0, answer |-> 0] /\ late = FALSE /\ lost = FALSE

-----------------------------------------------------------------------------
(* The server's connections *)

Waiting == IF server = "connect" THEN {0} ELSE IF server = "opening" THEN Eps \ accepted ELSE {}

(* server_listen(); connect() and server_open_endpoints() begin with it.   *)
ServerListen(p) ==
    /\ p \in Waiting \ listening
    /\ listening' = listening \cup {p}
    /\ UNCHANGED <<server, accepted, request, stage, clientVars, backlog, toClient, toServer, history>>

(* server_connect() on port 0.  A connection there is already is not       *)
(* looked at: after a restart connect() waits for another one.             *)
ServerConnect ==
    /\ server = "connect" /\ 0 \in listening \cap backlog
    /\ accepted' = accepted \cup {0} /\ backlog' = backlog \ {0}
    /\ server' = "model" /\ stage' = 1
    /\ UNCHANGED <<listening, request, clientVars, toClient, toServer, history>>

(* A round of server_open_endpoints() in which poll() says something, and  *)
(* the loop of DeviceProxy_TCP::setConfig().  Only a round that accepts    *)
(* the last connection ends the loop: with none to accept it never does.   *)
ServerOpenEndpoints ==
    /\ server = "opening" /\ Waiting \subseteq listening
    /\ \E ready \in SUBSET (Waiting \cap backlog) \ {{}} :
         /\ accepted' = accepted \cup ready
         /\ backlog' = backlog \ ready
         /\ server' = IF ready = Waiting THEN "relay" ELSE "opening"
    /\ UNCHANGED <<listening, request, stage, clientVars, toClient, toServer, history>>

-----------------------------------------------------------------------------
(* DeviceProxy_TCP::control_request *)

SendRequest(kind) ==
    /\ request = Null /\ sent < MaxRequests
    /\ \/ server = "model" /\ kind = ModelRequests[stage]
       \/ server = "relay" /\ kind \in HostRequests
    /\ sent' = sent + 1
    /\ request' = <<[id |-> sent', kind |-> kind]>>
    /\ toClient' = Append(toClient, request'[1])
    /\ UNCHANGED <<server, listening, accepted, stage, clientVars, backlog, toServer, restarts, taken,
                   late, lost>>

(* Mutant: setConfig() only for a request that worked.                     *)
RequestDoneChecked(ok) ==
    LET kind == request[1].kind
    IN /\ request' = Null
       /\ server' = CASE server = "model" /\ ~ok /\ kind = "get" -> "exited"
                      [] server = "model" /\ stage < Len(ModelRequests) -> "model"
                      [] kind = "config" /\ ok -> "opening"
                      [] OTHER -> "relay"
       /\ stage' = IF server = "model" THEN stage + 1 ELSE stage
       /\ UNCHANGED <<listening, accepted>>

(* What the caller does next: the device model gives up when a descriptor  *)
(* fails; RelayWriter calls setConfig() whatever SET_CONFIGURATION got.    *)
RequestDone(ok) ==
    LET kind == request[1].kind
    IN /\ request' = Null
       /\ server' = CASE server = "model" /\ ~ok /\ kind = "get" -> "exited"
                      [] server = "model" /\ stage < Len(ModelRequests) -> "model"
                      [] kind = "config" -> "opening"
                      [] OTHER -> "relay"
       /\ stage' = IF server = "model" THEN stage + 1 ELSE stage
       /\ UNCHANGED <<listening, accepted>>

(* The read may return more than one answer; the first is taken, the       *)
(* others are dropped.                                                     *)
ReadReply ==
    /\ request # Null
    /\ \E n \in 1 .. Len(toServer) :
         /\ toServer' = SubSeq(toServer, n + 1, Len(toServer))
         /\ taken' = [asked |-> request[1].id, answer |-> toServer[1].id]
         /\ RequestDone(~toServer[1].stall)
    /\ UNCHANGED <<clientVars, backlog, toClient, sent, restarts, late, lost>>

ReplyTimeout ==
    /\ request # Null /\ toServer = <<>>
    /\ RequestDone(FALSE)
    /\ late' = TRUE
    /\ UNCHANGED <<clientVars, backlog, toClient, toServer, sent, restarts, taken, lost>>

-----------------------------------------------------------------------------
(* The client's connections *)

Connecting == IF client = "connect" THEN {0} ELSE IF client = "opening" THEN Eps ELSE {}

(* Mutant: a refused connection's socket is kept.                          *)
ClientConnectPollKept(p) == sock' = [sock EXCEPT ![p] = "up"]

(* client_connect() of a socket that is being connected: it is, or it was  *)
(* refused and is closed.                                                  *)
ClientConnectPoll(p) == sock' = [sock EXCEPT ![p] = IF @ = "wait" THEN "up" ELSE "none"]

(* client_connect(): the socket is made and connected, at once or later,   *)
(* or polled.  Endpoint 0 refused at once ends the client's setup, another *)
(* endpoint is tried again, with a new socket.  (Having none, it is polled *)
(* as descriptor 0 first; if that is writable it is tried at once, if not  *)
(* in setConfig()'s next round.)                                           *)
ClientConnect(p) ==
    /\ p \in Connecting /\ sock[p] # "up"
    /\ \/ /\ sock[p] # "none" /\ ClientConnectPoll(p)
          /\ UNCHANGED <<backlog, client>>
       \/ /\ sock[p] = "none" /\ p \in listening
          /\ \E s \in {"wait", "up"} : sock' = [sock EXCEPT ![p] = s]
          /\ backlog' = backlog \cup {p} /\ UNCHANGED client
       \/ /\ sock[p] = "none" /\ p \notin listening
          /\ sock' = [sock EXCEPT ![p] = "refused"] /\ UNCHANGED <<backlog, client>>
       \/ /\ sock[p] = "none" /\ p \notin listening /\ p = 0
          /\ client' = "failed" /\ UNCHANGED <<sock, backlog>>
    /\ UNCHANGED <<serverVars, held, stalled, toClient, toServer, history>>

(* connect(), and the loop of HostProxy_TCP::setConfig(), end.             *)
ClientConnected ==
    /\ client \in {"connect", "opening"} /\ \A p \in Connecting : sock[p] = "up"
    /\ client' = IF client = "connect" THEN "idle" ELSE "reply"
    /\ UNCHANGED <<serverVars, sock, held, stalled, backlog, toClient, toServer, history>>

-----------------------------------------------------------------------------
(* HostProxy_TCP under the client's relayers *)

(* control_request(): of all that was read, the first request is taken.    *)
(* Data for the device is copied over the pointer to the buffer, not into  *)
(* the buffer.                                                             *)
ReadRequest ==
    /\ client = "idle"
    /\ \E n \in 1 .. Len(toClient) :
         /\ toClient' = SubSeq(toClient, n + 1, Len(toClient))
         /\ held' = <<toClient[1]>>
         /\ client' = IF toClient[1].kind = "out" THEN "crashed" ELSE "device"
         /\ lost' = (lost \/ n > 1)
    /\ UNCHANGED <<serverVars, sock, stalled, backlog, toServer, sent, restarts, taken, late>>

(* The device answers or stalls; SET_CONFIGURATION opens the endpoints     *)
(* before the answer goes back.                                            *)
DeviceAnswers ==
    /\ client = "device"
    /\ stalled' \in BOOLEAN
    /\ client' = IF held[1].kind = "config" THEN "opening" ELSE "reply"
    /\ UNCHANGED <<serverVars, sock, held, backlog, toClient, toServer, history>>

(* Mutant: data and then an acknowledgement for it.                        *)
SendReplyTwice ==
    /\ client = "reply"
    /\ LET r == [id |-> held[1].id, stall |-> stalled] IN toServer' = toServer \o <<r, r>>
    /\ client' = "idle" /\ held' = Null
    /\ UNCHANGED <<serverVars, sock, stalled, backlog, toClient, history>>

(* send_data(), control_ack() or stall_ep() for endpoint 0.                *)
SendReply ==
    /\ client = "reply"
    /\ toServer' = Append(toServer, [id |-> held[1].id, stall |-> stalled])
    /\ client' = "idle" /\ held' = Null
    /\ UNCHANGED <<serverVars, sock, stalled, backlog, toClient, history>>

-----------------------------------------------------------------------------
(* disconnect() and connect() again, by a restart: the sockets stay as     *)
(* they are, on both sides.                                                *)

RestartServer ==
    /\ server = "relay" /\ request = Null /\ restarts < MaxRestarts
    /\ server' = "connect" /\ restarts' = restarts + 1
    /\ UNCHANGED <<listening, accepted, request, stage, clientVars, backlog, toClient, toServer, sent,
                   taken, late, lost>>

RestartClient ==
    /\ client \in {"idle", "reply", "failed"} /\ restarts < MaxRestarts
    /\ client' = "connect" /\ held' = Null /\ restarts' = restarts + 1
    /\ UNCHANGED <<serverVars, sock, stalled, backlog, toClient, toServer, sent, taken, late, lost>>

-----------------------------------------------------------------------------

ServerStep == (\E p \in Ports : ServerListen(p)) \/ ServerConnect \/ ServerOpenEndpoints
              \/ ReadReply \/ ReplyTimeout
ClientStep == (\E p \in Ports : ClientConnect(p)) \/ ClientConnected \/ ReadRequest
              \/ DeviceAnswers \/ SendReply

Next == ServerStep \/ ClientStep \/ RestartServer \/ RestartClient
        \/ \E kind \in HostRequests \cup {"qualifier"} : SendRequest(kind)

(* Every call of the two programs that waits has a timeout, and a relayer  *)
(* or a loop that retries behind it; each endpoint is tried in each round. *)
Fairness ==
    /\ WF_vars(ServerStep)
    /\ \A p \in Ports : WF_vars(ServerListen(p)) /\ WF_vars(ClientConnect(p))
    /\ WF_vars(ClientConnected) /\ WF_vars(ReadRequest) /\ WF_vars(DeviceAnswers) /\ WF_vars(SendReply)

Spec == Init /\ [][Next]_vars /\ Fairness

-----------------------------------------------------------------------------
(* Properties *)

(* Types; and each connection the server accepted is one the client made.  *)
TypeOK ==
    /\ server \in {"connect", "model", "relay", "opening", "exited"}
    /\ client \in {"connect", "idle", "device", "opening", "reply", "failed", "crashed"}
    /\ listening \subseteq Ports /\ accepted \subseteq listening /\ backlog \subseteq listening
    /\ sock \in [Ports -> {"none", "wait", "up", "refused"}]
    /\ \A p \in Ports : sock[p] \in {"wait", "up"} <=> p \in accepted \cup backlog
    /\ accepted \cap backlog = {}
    /\ Len(request) <= 1 /\ Len(held) <= 1 /\ stalled \in BOOLEAN
    /\ Len(toClient) <= sent /\ Len(toServer) <= sent
    /\ sent \in 0 .. MaxRequests /\ restarts \in 0 .. MaxRestarts

(* As long as no request has timed out, the answer the server's device     *)
(* proxy takes for a request is the answer to that request.  The protocol  *)
(* has no numbers: this rests on one answer per request.                   *)
RepliesMatch == ~late => taken.asked = taken.answer

AllOpen == Eps \subseteq accepted /\ \A p \in Eps : sock[p] = "up"

(* Once the server's host has set the configuration, the endpoints' data   *)
(* connections are opened on both sides.  The client answers only when it  *)
(* has connected, the server listens only when it has its answer or has    *)
(* given up waiting.  Only a request read together with an earlier one,    *)
(* which is dropped, or a client that has crashed or failed prevents it.   *)
EndpointsOpen ==
    (request # Null /\ request[1].kind = "config")
        ~> (AllOpen \/ lost \/ client \in {"crashed", "failed"})
================================================================================
