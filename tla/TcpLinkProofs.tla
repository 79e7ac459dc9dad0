----------------------------- MODULE TcpLinkProofs -----------------------------
(***************************************************************************)
(* Proofs about two USBProxy programs connected by TCP, for any set of     *)
(* endpoints and any number of requests and restarts.                      *)
(***************************************************************************)
EXTENDS TcpLink, SequenceTheorems, TLAPS

-----------------------------------------------------------------------------
(* The inductive invariant *)

Requests == [id : Nat, kind : HostRequests \cup {"qualifier"}]
Replies == [id : Nat, stall : BOOLEAN]

Messages ==
    /\ toClient \in Seq(Requests) /\ toServer \in Seq(Replies)
    /\ request \in Seq(Requests) /\ held \in Seq(Requests)

(* The client has a request in hand from reading it to answering it.       *)
InHand ==
    /\ client \in {"device", "opening", "reply"} => held # Null
    /\ client \in {"connect", "idle", "failed"} => held = Null

AllFor(s, r) == \A i \in DOMAIN s : s[i].id = r

Outstanding == Len(toClient) + Len(held) + Len(toServer)

(* No message is there twice: what is on its way was sent.                 *)
Counted == Outstanding <= sent

(* Until a request times out there is no message on its way but the        *)
(* request that the server waits for, or its answer.                       *)
Matched ==
    ~late =>
        /\ Outstanding <= Len(request)
        /\ AllFor(toClient, request[1].id)
        /\ AllFor(held, request[1].id)
        /\ AllFor(toServer, request[1].id)

Connections ==
    /\ listening \subseteq Ports /\ accepted \subseteq listening /\ backlog \subseteq listening
    /\ sock \in [Ports -> {"none", "wait", "up", "refused"}]
    /\ \A p \in Ports : sock[p] \in {"wait", "up"} <=> p \in accepted \cup backlog
    /\ accepted \cap backlog = {}

Programs ==
    /\ server \in {"connect", "model", "relay", "opening", "exited"}
    /\ client \in {"connect", "idle", "device", "opening", "reply", "failed", "crashed"}
    /\ sent \in 0 .. MaxRequests /\ restarts \in 0 .. MaxRestarts

Singles == Len(request) <= 1 /\ Len(held) <= 1

Inv ==
    /\ Programs /\ Connections /\ stalled \in BOOLEAN
    /\ Messages /\ Singles /\ InHand /\ Counted /\ Matched /\ RepliesMatch

-----------------------------------------------------------------------------
(* Lemmas about the operators *)

(* Taking the first n messages of a stream leaves the others, in order.    *)
LEMMA DropFacts ==
    ASSUME NEW S, NEW s \in Seq(S), NEW n \in 1 .. Len(s)
    PROVE  /\ s[1] \in S /\ 1 \in DOMAIN s
           /\ SubSeq(s, n + 1, Len(s)) \in Seq(S)
           /\ Len(SubSeq(s, n + 1, Len(s))) = Len(s) - n
           /\ \A i \in DOMAIN SubSeq(s, n + 1, Len(s)) :
                i + n \in DOMAIN s /\ SubSeq(s, n + 1, Len(s))[i] = s[i + n]
<1>1. Len(s) \in Nat /\ DOMAIN s = 1 .. Len(s) /\ n \in Nat /\ 1 <= n /\ n <= Len(s)
  BY LenProperties
<1>2. s[1] \in S /\ 1 \in DOMAIN s
  BY <1>1, ElementOfSeq
<1> DEFINE t == SubSeq(s, n + 1, Len(s))
<1>3. /\ t \in Seq(S)
      /\ Len(t) = IF n + 1 <= Len(s) THEN Len(s) - (n + 1) + 1 ELSE 0
      /\ \A i \in 1 .. Len(s) - (n + 1) + 1 : t[i] = s[n + 1 + i - 1]
  <2>1. \A i \in n + 1 .. Len(s) : s[i] \in S
    BY <1>1, ElementOfSeq
  <2>2. n + 1 \in Int /\ Len(s) \in Int
    BY <1>1
  <2> QED
    BY <2>1, <2>2, SubSeqProperties
<1> HIDE DEF t
<1>4. Len(t) = Len(s) - n /\ DOMAIN t = 1 .. Len(s) - n
  <2>1. Len(t) \in Nat /\ DOMAIN t = 1 .. Len(t)
    BY <1>3, LenProperties
  <2>2. Len(t) = Len(s) - n
    <3>1. CASE n + 1 <= Len(s)
      BY <1>1, <1>3, <3>1
    <3>2. CASE ~(n + 1 <= Len(s))
      <4>1. \A k, l \in Nat : k <= l /\ ~(k + 1 <= l) => l - k = 0
        OBVIOUS
      <4>2. Len(s) - n = 0
        BY <1>1, <3>2, <4>1, Zenon
      <4> QED
        BY <1>3, <3>2, <4>2, Zenon
    <3> QED
      BY <3>1, <3>2
  <2> QED
    BY <2>1, <2>2
<1>5. ASSUME NEW i \in DOMAIN t
      PROVE  i + n \in DOMAIN s /\ t[i] = s[i + n]
  <2>1. i \in 1 .. Len(s) - (n + 1) + 1 /\ n + 1 + i - 1 = i + n /\ i + n \in 1 .. Len(s)
    BY <1>1, <1>4
  <2> QED
    BY <1>1, <1>3, <2>1
<1> QED
  BY <1>2, <1>3, <1>4, <1>5 DEF t

(* A sequence that is not empty has a length other than 0.                 *)
LEMMA NonEmpty == ASSUME NEW S, NEW s \in Seq(S), s # <<>> PROVE Len(s) # 0
  BY EmptySeq

(* Appending a message for request r to a stream of messages for r.        *)
LEMMA AppendFor ==
    ASSUME NEW S, NEW s \in Seq(S), NEW m \in S, NEW r
    PROVE  /\ Append(s, m) \in Seq(S) /\ Len(Append(s, m)) = Len(s) + 1
           /\ AllFor(s, r) /\ m.id = r => AllFor(Append(s, m), r)
<1>1. /\ Append(s, m) \in Seq(S) /\ Len(Append(s, m)) = Len(s) + 1
      /\ \A i \in 1 .. Len(s) : Append(s, m)[i] = s[i]
      /\ Append(s, m)[Len(s) + 1] = m
  BY AppendProperties
<1>2. Len(s) \in Nat /\ DOMAIN s = 1 .. Len(s) /\ DOMAIN Append(s, m) = 1 .. Len(s) + 1
  BY <1>1, LenProperties
<1> QED
  BY <1>1, <1>2 DEF AllFor

(* However a request ended, the server is no longer waiting for it.        *)
LEMMA DoneFacts ==
    ASSUME NEW ok, RequestDone(ok)
    PROVE  /\ request' = Null /\ server' \in {"model", "relay", "opening", "exited"}
           /\ UNCHANGED <<listening, accepted>>
  BY DEF RequestDone

-----------------------------------------------------------------------------
(* Every step keeps the invariant *)

(* Nothing is connected and nothing was sent.                              *)
LEMMA InitInv == Init => Inv
<1> SUFFICES ASSUME Init PROVE Inv
  OBVIOUS
<1>1. Programs
  BY TcpLinkAssumption DEF Init, Programs
<1>2. Connections
  <2>1. sock \in [Ports -> {"none", "wait", "up", "refused"}] /\ \A p \in Ports : sock[p] = "none"
    BY DEF Init
  <2> QED
    BY <2>1 DEF Init, Connections
<1>3. stalled \in BOOLEAN
  BY DEF Init
<1>4. Messages
  BY DEF Init, Messages, Null
<1>5. Outstanding = 0 /\ Singles
  BY DEF Init, Outstanding, Singles, Null
<1>6. Counted /\ Matched
  BY <1>5 DEF Init, Counted, Matched, AllFor, Null
<1>7. InHand /\ RepliesMatch
  BY DEF Init, InHand, RepliesMatch
<1> QED
  BY <1>1, <1>2, <1>3, <1>4, <1>5, <1>6, <1>7 DEF Inv

(* A connection the server accepted is one the client made, and the other  *)
(* way round.                                                              *)
LEMMA NextConnections == Inv /\ [Next]_vars => Connections'
<1> SUFFICES ASSUME Connections, [Next]_vars PROVE Connections'
  BY DEF Inv
<1> USE DEF Connections, serverVars, clientVars, history
<1>1. CASE \E p \in Ports : ServerListen(p)
  BY <1>1 DEF ServerListen, Waiting
<1>2. CASE ServerConnect
  BY <1>2 DEF ServerConnect
<1>3. CASE ServerOpenEndpoints
  BY <1>3 DEF ServerOpenEndpoints
<1>4. CASE ReadReply
  BY <1>4, DoneFacts DEF ReadReply
<1>5. CASE ReplyTimeout
  BY <1>5, DoneFacts DEF ReplyTimeout
<1>6. CASE \E p \in Ports : ClientConnect(p)
  <2>1. PICK p \in Ports : ClientConnect(p)
    BY <1>6
  <2> QED
    BY <2>1 DEF ClientConnect, ClientConnectPoll
<1>7. CASE ClientConnected \/ ReadRequest \/ DeviceAnswers \/ SendReply
  BY <1>7 DEF ClientConnected, ReadRequest, DeviceAnswers, SendReply
<1>8. CASE RestartServer \/ RestartClient \/ \E kind \in HostRequests \cup {"qualifier"} : SendRequest(kind)
  BY <1>8 DEF RestartServer, RestartClient, SendRequest
<1>9. CASE UNCHANGED vars
  BY <1>9 DEF vars
<1> QED
  BY <1>1, <1>2, <1>3, <1>4, <1>5, <1>6, <1>7, <1>8, <1>9 DEF Next, ServerStep, ClientStep

(* Where the two programs can be.                                          *)
LEMMA NextPrograms == Inv /\ [Next]_vars => Programs'
<1> SUFFICES ASSUME Programs, [Next]_vars PROVE Programs'
  BY DEF Inv
<1> USE DEF Programs, serverVars, clientVars, history
<1>1. CASE (\E p \in Ports : ServerListen(p)) \/ ServerConnect \/ ServerOpenEndpoints
  BY <1>1 DEF ServerListen, ServerConnect, ServerOpenEndpoints
<1>2. CASE ReadReply
  BY <1>2, DoneFacts DEF ReadReply
<1>3. CASE ReplyTimeout
  BY <1>3, DoneFacts DEF ReplyTimeout
<1>4. CASE \E p \in Ports : ClientConnect(p)
  BY <1>4 DEF ClientConnect
<1>5. CASE ClientConnected \/ ReadRequest \/ DeviceAnswers \/ SendReply
  BY <1>5 DEF ClientConnected, ReadRequest, DeviceAnswers, SendReply
<1>6. CASE RestartServer \/ RestartClient
  BY <1>6, TcpLinkAssumption DEF RestartServer, RestartClient
<1>7. CASE \E kind \in HostRequests \cup {"qualifier"} : SendRequest(kind)
  BY <1>7, TcpLinkAssumption DEF SendRequest
<1>8. CASE UNCHANGED vars
  BY <1>8 DEF vars
<1> QED
  BY <1>1, <1>2, <1>3, <1>4, <1>5, <1>6, <1>7, <1>8 DEF Next, ServerStep, ClientStep

(* The messages on their way, and the pairing of requests and answers.     *)
Pairing == Messages /\ Singles /\ InHand /\ Counted /\ Matched /\ RepliesMatch

(* Every step keeps the pairing.                                           *)
LEMMA NextPairing == Inv /\ [Next]_vars => Pairing'
<1> SUFFICES ASSUME Inv, [Next]_vars PROVE Pairing'
  OBVIOUS
<1> USE DEF serverVars, clientVars, history
<1>p. Programs /\ Messages /\ Singles /\ InHand /\ Counted /\ Matched /\ RepliesMatch
  BY DEF Inv
<1>n. /\ Len(toClient) \in Nat /\ Len(toServer) \in Nat /\ Len(request) \in Nat /\ Len(held) \in Nat
      /\ sent \in Nat
  BY <1>p, LenProperties, TcpLinkAssumption DEF Messages, Programs
\* Steps that leave the messages alone.
<1>u. ASSUME UNCHANGED <<toClient, toServer, request, held, sent, late, taken>>, InHand'
      PROVE  Pairing'
  BY <1>u, <1>p DEF Pairing, Messages, Singles, Counted, Matched, RepliesMatch, Outstanding, AllFor
<1>1. CASE (\E p \in Ports : ServerListen(p)) \/ ServerConnect \/ ServerOpenEndpoints
           \/ RestartServer
  BY <1>1, <1>p, <1>u DEF ServerListen, ServerConnect, ServerOpenEndpoints, RestartServer, InHand
<1>2. CASE (\E p \in Ports : ClientConnect(p)) \/ ClientConnected
  <2>1. UNCHANGED <<toClient, toServer, request, held, sent, late, taken>>
    BY <1>2 DEF ClientConnect, ClientConnected
  <2>2. \/ client' = client
        \/ client = "connect" /\ client' \in {"idle", "failed"}
        \/ client = "opening" /\ client' = "reply"
    BY <1>2, TcpLinkAssumption DEF ClientConnect, ClientConnected, Connecting
  <2>3. InHand'
    BY <2>1, <2>2, <1>p DEF InHand
  <2> QED
    BY <2>1, <2>3, <1>u
<1>3. CASE DeviceAnswers
  <2>1. UNCHANGED <<toClient, toServer, request, held, sent, late, taken>>
    BY <1>3 DEF DeviceAnswers
  <2>2. InHand'
    BY <1>3, <1>p DEF DeviceAnswers, InHand
  <2> QED
    BY <2>1, <2>2, <1>u
<1>4. CASE UNCHANGED vars
  BY <1>4, <1>p, <1>u DEF vars, InHand
\* A new request goes out when nothing is on its way.
<1>5. CASE \E kind \in HostRequests \cup {"qualifier"} : SendRequest(kind)
  <2>1. PICK kind \in HostRequests \cup {"qualifier"} : SendRequest(kind)
    BY <1>5
  <2> DEFINE r == [id |-> sent + 1, kind |-> kind]
  <2>2. /\ request = Null /\ sent' = sent + 1 /\ request' = <<r>> /\ toClient' = Append(toClient, r)
        /\ UNCHANGED <<toServer, held, client, late, taken>>
    BY <2>1 DEF SendRequest
  <2>3. r \in Requests /\ r.id = sent + 1
    BY <1>n DEF Requests
  <2>4. toClient \in Seq(Requests)
    BY <1>p DEF Messages
  <2> HIDE DEF r
  <2>5. /\ toClient' \in Seq(Requests) /\ Len(toClient') = Len(toClient) + 1
        /\ AllFor(toClient, sent + 1) => AllFor(toClient', sent + 1)
    BY <2>2, <2>3, <2>4, AppendFor
  <2>6. request' \in Seq(Requests) /\ Len(request') = 1 /\ request'[1] = r
    BY <2>2, <2>3
  <2>7. Messages' /\ Singles'
    BY <2>2, <2>5, <2>6, <1>p DEF Messages, Singles
  <2>8. InHand' /\ RepliesMatch'
    BY <2>2, <1>p DEF InHand, RepliesMatch
  <2>9. Outstanding' = Outstanding + 1 /\ Outstanding \in Nat
    BY <2>2, <2>5, <1>n DEF Outstanding
  <2>10. Counted'
    BY <2>2, <2>9, <1>p, <1>n DEF Counted
  <2>11. Matched'
    <3>1. SUFFICES ASSUME ~late PROVE Matched'
      BY <2>2 DEF Matched
    <3>2. Outstanding = 0
      BY <3>1, <2>2, <2>9, <1>p DEF Matched, Null
    <3>3. Len(toClient) = 0 /\ Len(held) = 0 /\ Len(toServer) = 0
      BY <3>2, <1>n DEF Outstanding
    <3>4. toClient = <<>> /\ held = <<>> /\ toServer = <<>>
      BY <3>3, <1>p, EmptySeq DEF Messages
    <3>5. AllFor(toClient, sent + 1) /\ AllFor(held, sent + 1) /\ AllFor(toServer, sent + 1)
      BY <3>4 DEF AllFor
    <3>6. AllFor(held', sent + 1) /\ AllFor(toServer', sent + 1) /\ AllFor(toClient', sent + 1)
      BY <3>5, <2>2, <2>5
    <3> QED
      BY <3>2, <3>6, <2>3, <2>6, <2>9 DEF Matched
  <2> QED
    BY <2>7, <2>8, <2>10, <2>11 DEF Pairing
\* The answer that is taken is, before any timeout, the only message there is.
<1>6. CASE ReadReply
  <2>1. PICK n \in 1 .. Len(toServer) :
          /\ toServer' = SubSeq(toServer, n + 1, Len(toServer))
          /\ taken' = [asked |-> request[1].id, answer |-> toServer[1].id]
          /\ RequestDone(~toServer[1].stall)
    BY <1>6 DEF ReadReply
  <2>2. request # Null /\ request' = Null /\ UNCHANGED <<toClient, held, client, sent, late>>
    BY <1>6, <2>1, DoneFacts DEF ReadReply
  <2>3. toServer \in Seq(Replies)
    BY <1>p DEF Messages
  <2>4. toServer' \in Seq(Replies) /\ Len(toServer') = Len(toServer) - n /\ 1 \in DOMAIN toServer
    BY <2>1, <2>3, DropFacts
  <2>5. n \in Nat /\ 1 <= n /\ Len(toServer') \in Nat
    BY <2>4, LenProperties
  <2>6. Outstanding' \in Nat /\ Outstanding' < Outstanding
    BY <2>2, <2>4, <2>5, <1>n DEF Outstanding
  <2>7. Messages' /\ Singles'
    BY <2>2, <2>4, <1>p DEF Messages, Singles, Null
  <2>8. InHand' /\ Counted'
    BY <2>2, <2>6, <1>p, <1>n DEF InHand, Counted, Outstanding
  <2>9. RepliesMatch'
    BY <2>1, <2>2, <2>4, <1>p DEF RepliesMatch, Matched, AllFor
  <2>10. Matched'
    <3>1. SUFFICES ASSUME ~late PROVE Matched'
      BY <2>2 DEF Matched
    <3>2. Outstanding' = 0
      BY <3>1, <2>6, <1>p, <1>n DEF Matched, Singles, Outstanding
    <3>3. Len(toClient') = 0 /\ Len(held') = 0 /\ Len(toServer') = 0
      BY <3>2, <2>2, <2>5, <1>n DEF Outstanding
    <3>4. toClient' = <<>> /\ held' = <<>> /\ toServer' = <<>>
      BY <3>3, <2>7, EmptySeq DEF Messages
    <3>5. AllFor(toClient', request'[1].id) /\ AllFor(held', request'[1].id)
          /\ AllFor(toServer', request'[1].id)
      BY <3>4 DEF AllFor
    <3> QED
      BY <3>2, <3>5, <2>2 DEF Matched, Null
  <2> QED
    BY <2>7, <2>8, <2>9, <2>10 DEF Pairing
<1>7. CASE ReplyTimeout
  <2>1. request' = Null /\ late' /\ UNCHANGED <<toClient, toServer, held, client, sent>>
    BY <1>7, DoneFacts DEF ReplyTimeout
  <2>2. Messages' /\ Singles'
    BY <2>1, <1>p DEF Messages, Singles, Null
  <2> QED
    BY <2>1, <2>2, <1>p DEF Pairing, InHand, Counted, Outstanding, Matched, RepliesMatch
<1>8. CASE ReadRequest
  <2>1. PICK n \in 1 .. Len(toClient) :
          /\ toClient' = SubSeq(toClient, n + 1, Len(toClient))
          /\ held' = <<toClient[1]>>
          /\ client' = IF toClient[1].kind = "out" THEN "crashed" ELSE "device"
    BY <1>8 DEF ReadRequest
  <2>2. client = "idle" /\ UNCHANGED <<toServer, request, sent, late, taken>>
    BY <1>8 DEF ReadRequest
  <2>3. toClient \in Seq(Requests)
    BY <1>p DEF Messages
  <2>4. /\ toClient' \in Seq(Requests) /\ Len(toClient') = Len(toClient) - n
        /\ 1 \in DOMAIN toClient /\ toClient[1] \in Requests
        /\ \A i \in DOMAIN toClient' : i + n \in DOMAIN toClient /\ toClient'[i] = toClient[i + n]
    BY <2>1, <2>3, DropFacts
  <2>5. n \in Nat /\ 1 <= n /\ Len(toClient') \in Nat
    BY <2>4, LenProperties
  <2>6. held = Null /\ held' \in Seq(Requests) /\ Len(held') = 1 /\ held' # Null
        /\ \A i \in DOMAIN held' : held'[i] = toClient[1]
    BY <2>1, <2>2, <2>4, <1>p DEF InHand, Null
  <2>7. Outstanding' <= Outstanding
    BY <2>2, <2>4, <2>5, <2>6, <1>n DEF Outstanding, Null
  <2>8. Messages' /\ Singles'
    BY <2>2, <2>4, <2>6, <1>p DEF Messages, Singles
  <2>9. InHand'
    BY <2>1, <2>6 DEF InHand
  <2>10. Outstanding \in Nat /\ Outstanding' \in Nat
    BY <2>2, <2>5, <2>6, <1>n DEF Outstanding
  <2>11. Counted' /\ RepliesMatch'
    BY <2>2, <2>7, <2>10, <1>n, <1>p DEF Counted, RepliesMatch
  <2>12. Matched'
    <3>1. SUFFICES ASSUME ~late PROVE Matched'
      BY <2>2 DEF Matched
    <3>2. AllFor(toClient', request[1].id) /\ AllFor(held', request[1].id)
      BY <3>1, <2>4, <2>6, <1>p DEF Matched, AllFor
    <3>3. Outstanding' <= Len(request)
      BY <3>1, <2>7, <2>10, <1>n, <1>p DEF Matched
    <3> QED
      BY <3>1, <3>2, <3>3, <2>2, <1>p DEF Matched, AllFor
  <2> QED
    BY <2>8, <2>9, <2>11, <2>12 DEF Pairing
<1>9. CASE SendReply
  <2> DEFINE r == [id |-> held[1].id, stall |-> stalled]
  <2>1. /\ client = "reply" /\ toServer' = Append(toServer, r) /\ client' = "idle" /\ held' = Null
        /\ UNCHANGED <<toClient, request, sent, late, taken>>
    BY <1>9 DEF SendReply
  <2>2. held \in Seq(Requests) /\ held # <<>> /\ Len(held) <= 1
    BY <2>1, <1>p DEF InHand, Messages, Null, Singles
  <2>3. Len(held) = 1
    <3>1. Len(held) # 0
      BY ONLY <2>2, NonEmpty
    <3>2. \A k \in Nat : k # 0 /\ k <= 1 => k = 1
      OBVIOUS
    <3> QED
      BY <3>1, <3>2, <2>2, <1>n, Zenon
  <2>4. held[1] \in Requests /\ 1 \in DOMAIN held
    BY <2>2, <2>3
  <2>5. held[1].id \in Nat
    BY <2>4 DEF Requests
  <2>6. r \in Replies /\ r.id = held[1].id
    BY <2>5 DEF Replies, Inv
  <2>7. toServer \in Seq(Replies)
    BY <1>p DEF Messages
  <2> HIDE DEF r
  <2>8. /\ toServer' \in Seq(Replies) /\ Len(toServer') = Len(toServer) + 1
        /\ AllFor(toServer, held[1].id) => AllFor(toServer', held[1].id)
    BY <2>1, <2>6, <2>7, AppendFor
  <2>9. Outstanding' = Outstanding
    BY <2>1, <2>3, <2>8, <1>n DEF Outstanding, Null
  <2>10. Messages' /\ Singles' /\ InHand'
    BY <2>1, <2>8, <1>p DEF Messages, Singles, InHand, Null
  <2>11. Counted' /\ RepliesMatch'
    BY <2>1, <2>9, <1>p DEF Counted, RepliesMatch
  <2>12. Matched'
    <3>1. SUFFICES ASSUME ~late PROVE Matched'
      BY <2>1 DEF Matched
    <3>2. held[1].id = request[1].id
      BY <3>1, <2>4, <1>p DEF Matched, AllFor
    <3>3. AllFor(toServer', request[1].id)
      BY <3>1, <3>2, <2>8, <1>p DEF Matched
    <3>4. AllFor(held', request[1].id)
      BY <2>1 DEF AllFor, Null
    <3> QED
      BY <3>1, <3>3, <3>4, <2>1, <2>9, <1>p DEF Matched, AllFor
  <2> QED
    BY <2>10, <2>11, <2>12 DEF Pairing
<1>10. CASE RestartClient
  <2>1. client' = "connect" /\ held' = Null /\ UNCHANGED <<toClient, toServer, request, sent, late, taken>>
    BY <1>10 DEF RestartClient
  <2>2. Messages' /\ Singles' /\ InHand'
    BY <2>1, <1>p DEF Messages, Singles, InHand, Null
  <2>3. Outstanding' <= Outstanding /\ Outstanding' \in Nat /\ Outstanding \in Nat
    BY <2>1, <1>n DEF Outstanding, Null
  <2>4. Counted' /\ RepliesMatch'
    BY <2>1, <2>3, <1>n, <1>p DEF Counted, RepliesMatch
  <2>5. AllFor(held', request[1].id)
    BY <2>1 DEF AllFor, Null
  <2>6. Matched'
    BY <2>1, <2>3, <2>5, <1>n, <1>p DEF Matched, AllFor
  <2> QED
    BY <2>2, <2>4, <2>6 DEF Pairing
<1> QED
  BY <1>1, <1>2, <1>3, <1>4, <1>5, <1>6, <1>7, <1>8, <1>9, <1>10 DEF Next, ServerStep, ClientStep

(* The invariant holds in every reachable state.                           *)
LEMMA Invariance == Spec => []Inv
<1>1. Inv /\ [Next]_vars => Inv'
  <2> SUFFICES ASSUME Inv, [Next]_vars PROVE Inv'
    OBVIOUS
  <2>1. (stalled \in BOOLEAN)'
    BY DEF Inv, Next, vars, ServerStep, ClientStep, serverVars, clientVars, history, ServerListen,
           ServerConnect, ServerOpenEndpoints, ReadReply, ReplyTimeout, ClientConnect, ClientConnected,
           ReadRequest, DeviceAnswers, SendReply, RestartServer, RestartClient, SendRequest
  <2> QED
    BY <2>1, NextConnections, NextPrograms, NextPairing DEF Inv, Pairing
<1> QED
  BY <1>1, InitInv, PTL DEF Spec

(* The two programs and the streams between them are well typed, and the   *)
(* client's sockets are the server's connections.                          *)
THEOREM TypeCorrect == Spec => []TypeOK
<1>1. Inv => TypeOK
  <2> SUFFICES ASSUME Inv PROVE TypeOK
    OBVIOUS
  <2>1. Len(toClient) \in Nat /\ Len(held) \in Nat /\ Len(toServer) \in Nat
    BY LenProperties DEF Inv, Messages
  <2>2. Len(toClient) <= sent /\ Len(toServer) <= sent
    BY <2>1, TcpLinkAssumption DEF Inv, Counted, Outstanding, Programs
  <2> QED
    BY <2>2 DEF Inv, Programs, Connections, Singles, TypeOK
<1> QED
  BY <1>1, Invariance, PTL

(* Until a request times out, the answer taken for a request answers it.   *)
THEOREM AnswersPaired == Spec => []RepliesMatch
<1>1. Inv => RepliesMatch
  BY DEF Inv
<1> QED
  BY <1>1, Invariance, PTL
================================================================================
