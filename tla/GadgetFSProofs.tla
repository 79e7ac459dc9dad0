----------------------------- MODULE GadgetFSProofs -----------------------------
(***************************************************************************)
(* Proofs about HostProxy_GadgetFS, for any configurations and any number  *)
(* of transfers, packets, sessions and faults.                             *)
(***************************************************************************)
EXTENDS GadgetFS, SequenceTheorems, WellFoundedInduction, TLAPS

Endpoints == [number : Numbers, in : BOOLEAN]

(* The types, in groups of variables that change together.                 *)
LinkTypes == path \in {"NULL", "dir"} /\ file \in {"closed", "open", "failed"}
LinkFlags ==
    /\ mounted \in BOOLEAN /\ connected \in BOOLEAN /\ descriptor \in BOOLEAN
    /\ relaying \in BOOLEAN /\ configured \in BOOLEAN

ControlTypes ==
    /\ lastControl \in 0 .. MaxTransfers /\ setup \in 0 .. MaxTransfers
    /\ asked \in 0 .. MaxTransfers
    /\ events \in Seq(0 .. MaxTransfers) /\ kind \in Seq(Kinds) /\ Len(kind) <= MaxTransfers
    /\ verdict \in [Transfers -> {"none", "ok", "stall"}]
    /\ answer \in [Transfers -> {"none", "ok", "stall", "aborted"}]

FileTypes ==
    /\ epin \in [Numbers -> BOOLEAN] /\ epout \in [Numbers -> BOOLEAN]
    /\ files \subseteq Endpoints /\ leaked \in BOOLEAN

InFlags == active \in [Numbers -> BOOLEAN] /\ writing \in [Numbers -> BOOLEAN]

InTypes ==
    /\ buf \in [Numbers -> 0 .. MaxPackets] /\ wire \in [Numbers -> 0 .. Idle]
    /\ status \in [Numbers -> {"none", "inprogress", "done", "zero", "error"}]
    /\ queued \in [Numbers -> 0 .. MaxPackets] /\ sent \in [Numbers -> 0 .. MaxPackets]
    /\ \A n \in Numbers : queued[n] <= sent[n]
    /\ seen \in [Numbers -> Seq(0 .. MaxPackets)]
    /\ lost \in [Numbers -> SUBSET (1 .. MaxPackets)] /\ unsure \subseteq Numbers

OutTypes ==
    /\ ostatus \in [Numbers -> {"none", "inprogress", "done", "error"}]
    /\ hostSent \in [Numbers -> 0 .. MaxPackets] /\ received \in [Numbers -> 0 .. MaxPackets]
    /\ \A n \in Numbers : /\ received[n] <= hostSent[n]
                          /\ ostatus[n] = "done" => received[n] < hostSent[n]

BoundTypes == sessions \in 0 .. MaxSessions /\ faults \in 0 .. MaxFaults

(* Control transfers: an event waits only for a transfer nobody has        *)
(* answered, and there is at most one; the one in SETUP state is the one   *)
(* the relayers work on, unless it has been accepted already.              *)
Waiting == {i \in DOMAIN events : events[i] # 0}
Control ==
    /\ \A t \in Transfers \ DOMAIN kind : answer[t] = "none"
    /\ \A i \in Waiting : events[i] \in DOMAIN kind /\ answer[events[i]] = "none"
    /\ \A i, j \in Waiting : i = j
    /\ asked # 0 => asked \in DOMAIN kind /\ lastControl = asked
    /\ setup # 0 => /\ Waiting = {} /\ asked = setup /\ answer[setup] = "none"
                    /\ kind[setup] \notin {"setConfig", "outData"}
    /\ asked # 0 /\ setup = 0 => kind[asked] \in {"setConfig", "outData"} /\ answer[asked] = "ok"

(* IN endpoint n has nothing to do, all packets seen or lost; or the last  *)
(* packet is on its way, in its buffer and then on the wire.               *)
AtRest(n) ==
    /\ queued[n] = 0 /\ wire[n] = Idle /\ status[n] # "inprogress"
    /\ Range(seen[n]) \cup lost[n] = 1 .. sent[n]
OnItsWay(n) ==
    /\ writing[n] /\ active[n] /\ status[n] = "inprogress" /\ buf[n] = sent[n] /\ sent[n] > 0
    /\ \/ queued[n] = 1 /\ wire[n] = Idle
       \/ queued[n] = 0 /\ wire[n] = sent[n]
    /\ Range(seen[n]) \cup lost[n] = 1 .. sent[n] - 1

InOrder(n) ==
    /\ \A i, j \in DOMAIN seen[n] : i < j => seen[n][i] < seen[n][j]
    /\ Range(seen[n]) \cap lost[n] = {}
    /\ AtRest(n) \/ OnItsWay(n)

AllInOrder == \A n \in Numbers \ unsure : InOrder(n)

-----------------------------------------------------------------------------
(* The files of the endpoints *)

(* The endpoints of a configuration.                                       *)
LEMMA LayoutFacts ==
    ASSUME NEW l \in Layouts, NEW i \in DOMAIN l
    PROVE  l[i] \in Endpoints
<1> DEFINE R == [number : 1 .. 15, in : BOOLEAN]
<1>1. l \in Seq(R)
  BY GadgetAssumption
<1> HIDE DEF R
<1>2. l[i] \in R
  BY <1>1, LenProperties, ElementOfSeq
<1>3. l[i].number \in Numbers
  <2>1. l[i].number \in {l[k].number : k \in DOMAIN l}
    OBVIOUS
  <2>2. {l[k].number : k \in DOMAIN l} \in {{m[k].number : k \in DOMAIN m} : m \in Layouts}
    OBVIOUS
  <2> QED
    BY <2>1, <2>2 DEF Numbers
<1> QED
  BY <1>2, <1>3 DEF Endpoints, R

Files == layout \in Layouts /\ FileTypes /\ FilesAccountedFor

(* Whether an endpoint has an aiocb in p_epin_async or p_epout_async.      *)
HasAiocb(e, ein, eout) == (e.in /\ ein[e.number]) \/ (~e.in /\ eout[e.number])
WithAiocb(ein, eout) == {e \in Endpoints : HasAiocb(e, ein, eout)}

(* The same, as FilesAccountedFor puts it.                                 *)
LEMMA WithAiocbFacts ==
    ASSUME NEW ein, NEW eout
    PROVE  {e \in [number : Numbers, in : BOOLEAN] : (IF e.in THEN ein ELSE eout)[e.number]}
             = WithAiocb(ein, eout)
<1>1. ASSUME NEW e
      PROVE  (IF e.in THEN ein ELSE eout)[e.number] <=> HasAiocb(e, ein, eout)
  <2>1. CASE e.in
    BY <2>1 DEF HasAiocb
  <2>2. CASE ~e.in
    BY <2>2 DEF HasAiocb
  <2> QED
    BY <2>1, <2>2
<1> QED
  BY <1>1 DEF WithAiocb, Endpoints

(* disconnect() and reset() leave no file of an aiocb open.                *)
LEMMA CloseFacts ==
    ASSUME Files, CloseEndpoints
    PROVE  /\ epin' = All(FALSE) /\ epout' = All(FALSE) /\ files' \subseteq files
           /\ ~leaked => files' = {}
<1>1. /\ files' = {e \in files : ~(IF e.in THEN epin ELSE epout)[e.number]}
      /\ epin' = All(FALSE) /\ epout' = All(FALSE)
  BY DEF CloseEndpoints
<1>2. ASSUME ~leaked PROVE files' = {}
  BY <1>1, <1>2 DEF Files, FilesAccountedFor
<1> QED
  BY <1>1, <1>2

(* setConfig() opens a file with each aiocb, and only a refused aio_read() *)
(* takes the aiocb away again.                                             *)
LEMMA SetConfigFiles == Files /\ SetConfig => Files'
<1> SUFFICES ASSUME Files, SetConfig PROVE Files'
  OBVIOUS
<1>1. PICK k \in 0 .. Len(layout), refused \in SUBSET Numbers :
        LET opened == {layout[i] : i \in 1 .. k}
            outs == {e.number : e \in {o \in opened : ~o.in}}
            ins == {e.number : e \in {o \in opened : o.in}}
        IN /\ files' = files \cup opened
           /\ epin' = [n \in Numbers |-> epin[n] \/ n \in ins]
           /\ epout' = [n \in Numbers |-> epout[n] \/ n \in outs \ refused]
           /\ leaked' = (leaked \/ refused # {})
  BY DEF SetConfig
<1> DEFINE opened == {layout[i] : i \in 1 .. k}
           outs == {e.number : e \in {o \in opened : ~o.in}}
           ins == {e.number : e \in {o \in opened : o.in}}
<1>2. /\ files' = files \cup opened
      /\ epin' = [n \in Numbers |-> epin[n] \/ n \in ins]
      /\ epout' = [n \in Numbers |-> epout[n] \/ n \in outs \ refused]
      /\ leaked' = (leaked \/ refused # {})
  BY <1>1
<1>3. opened \subseteq Endpoints
  <2>1. layout \in Layouts
    BY DEF Files
  <2>2. layout \in Seq([number : 1 .. 15, in : BOOLEAN])
    BY <2>1, GadgetAssumption
  <2>3. \A i \in 1 .. k : i \in DOMAIN layout
    BY <2>2
  <2> QED
    BY <2>1, <2>3, LayoutFacts
<1>d. ASSUME NEW e \in Endpoints, NEW o \in opened, o.number = e.number, o.in = e.in
      PROVE  o = e
  BY <1>3, <1>d DEF Endpoints
<1>4. ASSUME NEW e \in Endpoints, e.in
      PROVE  e.number \in ins <=> e \in opened
  <2> HIDE DEF opened
  <2>1. ASSUME NEW o \in opened, o.in, o.number = e.number
        PROVE  o = e
    <3>1. o.in = e.in
      BY <2>1, <1>3, <1>4 DEF Endpoints
    <3> QED
      BY <2>1, <3>1, <1>d
  <2> QED
    BY <2>1, <1>4
<1>5. ASSUME NEW e \in Endpoints, ~e.in
      PROVE  e.number \in outs <=> e \in opened
  <2> HIDE DEF opened
  <2>1. ASSUME NEW o \in opened, ~o.in, o.number = e.number
        PROVE  o = e
    <3>1. o.in = e.in
      BY <2>1, <1>3, <1>5 DEF Endpoints
    <3> QED
      BY <2>1, <3>1, <1>d
  <2> QED
    BY <2>1, <1>5
<1> HIDE DEF opened, ins, outs
<1>6. FileTypes'
  BY <1>2, <1>3 DEF Files, FileTypes
<1>7. FilesAccountedFor'
  <2>1. SUFFICES ASSUME ~leaked' PROVE files' = WithAiocb(epin', epout')
    BY WithAiocbFacts DEF FilesAccountedFor
  <2>2. ~leaked /\ refused = {}
    BY <1>2, <2>1
  <2>3. files = WithAiocb(epin, epout)
    BY <2>2, WithAiocbFacts DEF Files, FilesAccountedFor
  <2>4. ASSUME NEW e \in Endpoints
        PROVE  HasAiocb(e, epin', epout') <=> HasAiocb(e, epin, epout) \/ e \in opened
    <3>1. e.number \in Numbers
      BY DEF Endpoints
    <3>2. epin'[e.number] <=> epin[e.number] \/ e.number \in ins
      BY <1>2, <3>1, Zenon
    <3>3. epout'[e.number] <=> epout[e.number] \/ e.number \in outs
      <4>1. e.number \in outs \ refused <=> e.number \in outs
        BY <2>2
      <4> QED
        BY <1>2, <3>1, <4>1, Zenon
    <3>4. CASE e.in
      <4>1. e.number \in ins <=> e \in opened
        BY <3>4, <1>4
      <4> QED
        BY <3>2, <3>4, <4>1 DEF HasAiocb
    <3>5. CASE ~e.in
      <4>1. e.number \in outs <=> e \in opened
        BY <3>5, <1>5
      <4> QED
        BY <3>3, <3>5, <4>1 DEF HasAiocb
    <3> QED
      BY <3>4, <3>5
  <2> QED
    BY <1>2, <1>3, <2>3, <2>4 DEF WithAiocb
<1>8. layout' \in Layouts
  BY DEF Files, SetConfig
<1> QED
  BY <1>6, <1>7, <1>8 DEF Files

(* Every other step.                                                       *)
LEMMA NextFiles == Files /\ [Next]_vars => Files'
<1> SUFFICES ASSUME Files, [Next]_vars PROVE Files'
  OBVIOUS
<1>u. ASSUME UNCHANGED <<layout, epin, epout, files, leaked>> PROVE Files'
  BY <1>u DEF Files, FileTypes, FilesAccountedFor
<1> USE DEF mountVars, linkVars, controlVars, inVars, outVars, relayVars, histVars, Unchanged
<1>1. CASE Connect \/ HostSetup \/ HostEvent \/ ControlRequest \/ AnswerControl
  BY <1>1, <1>u DEF Connect, HostSetup, HostEvent, ControlRequest, AnswerControl
<1>2. CASE Disconnect \/ Reset
  <2>1. CloseEndpoints /\ UNCHANGED <<layout, leaked>>
    BY <1>2 DEF Disconnect, Reset
  <2>2. /\ epin' = All(FALSE) /\ epout' = All(FALSE) /\ files' \subseteq files
        /\ ~leaked => files' = {}
    BY <2>1, CloseFacts
  <2>3. FileTypes'
    BY <2>1, <2>2 DEF FileTypes, Files, All
  <2>4. WithAiocb(epin', epout') = {}
    BY <2>2 DEF WithAiocb, HasAiocb, All, Endpoints
  <2>5. ~leaked' => files' = WithAiocb(epin', epout')
    BY <2>1, <2>2, <2>4
  <2>6. FilesAccountedFor'
    BY <2>5, WithAiocbFacts DEF FilesAccountedFor
  <2> QED
    BY <2>1, <2>3, <2>6 DEF Files
<1>3. CASE SetConfig
  BY <1>3, SetConfigFiles
<1>4. ASSUME NEW n \in Numbers,
             SendData(n) \/ SendWait(n) \/ AioStart(n) \/ HostTakes(n) \/ HostRefuses(n) \/ HostSends(n)
      PROVE  Files'
  BY <1>4, <1>u DEF SendData, SendWait, AioStart, HostTakes, HostRefuses, HostSends
<1>5. ASSUME NEW n \in Numbers, ReceiveData(n) PROVE Files'
  <2>1. CASE UNCHANGED <<epout, leaked>>
    BY <1>5, <2>1, <1>u DEF ReceiveData
  <2>2. CASE leaked' = TRUE /\ epout' = [epout EXCEPT ![n] = FALSE]
    <3>1. UNCHANGED <<layout, epin, files>>
      BY <1>5 DEF ReceiveData
    <3> QED
      BY <2>2, <3>1 DEF Files, FileTypes, FilesAccountedFor
  <2> QED
    BY <1>5, <2>1, <2>2 DEF ReceiveData
<1>6. CASE UNCHANGED vars
  BY <1>6, <1>u DEF vars
<1> QED
  BY <1>1, <1>2, <1>3, <1>4, <1>5, <1>6 DEF Next

(* No file is open at first.                                               *)
LEMMA InitFiles == Init => Files
<1> SUFFICES ASSUME Init PROVE Files
  OBVIOUS
<1>1. FileTypes /\ layout \in Layouts
  BY DEF Init, FileTypes, All
<1>2. WithAiocb(epin, epout) = {}
  BY DEF Init, WithAiocb, HasAiocb, All, Endpoints
<1>3. FilesAccountedFor
  BY <1>2, WithAiocbFacts DEF Init, FilesAccountedFor
<1> QED
  BY <1>1, <1>3 DEF Files

(* No session leaves the file of an endpoint behind.                       *)
THEOREM NoFileLeft == Spec => []FilesAccountedFor
<1>1. Files => FilesAccountedFor
  BY DEF Files
<1> QED
  BY <1>1, InitFiles, NextFiles, PTL DEF Spec

-----------------------------------------------------------------------------
(* Control transfers *)

(* A set of natural numbers that is not empty has a least one.             *)
LEMMA LeastExists ==
    ASSUME NEW S \in SUBSET Nat, S # {}
    PROVE  Min(S) \in S
<1> DEFINE Less == {ss \in Nat \X Nat : ss[1] < ss[2]}
<1>1. IsWellFoundedOn(Less, Nat)
  BY NatLessThanWellFounded DEF OpToRel
<1>2. \A x, y \in Nat : x < y => <<x, y>> \in Less
  OBVIOUS
<1> HIDE DEF Less
<1>3. PICK x \in S : \A y \in S : ~(<<y, x>> \in Less)
  BY <1>1, WFMin
<1>4. ASSUME NEW y \in S PROVE x <= y
  <2>1. x \in Nat /\ y \in Nat
    OBVIOUS
  <2>2. ~(y < x)
    BY <1>2, <1>3, <2>1
  <2> QED
    BY <2>1, <2>2
<1> QED
  BY <1>4 DEF Min

(* The event that control_request() acts on is one of those it read.       *)
LEMMA FirstEvent ==
    ASSUME NEW S, NEW s \in Seq(S), s # <<>>
    PROVE  LET first == SelectInSeq(s, LAMBDA e : e # 0)
           IN (IF first # 0 THEN first ELSE Len(s)) \in 1 .. Len(s)
<1> DEFINE I == {i \in 1 .. Len(s) : s[i] # 0}
           first == SelectInSeq(s, LAMBDA e : e # 0)
<1>1. Len(s) \in Nat \ {0}
  BY EmptySeq
<1>2. first = IF I # {} THEN Min(I) ELSE 0
  BY DEF SelectInSeq
<1>3. I # {} => Min(I) \in I
  <2>1. I \in SUBSET Nat
    BY <1>1
  <2> QED
    BY <2>1, LeastExists
<1> QED
  BY <1>1, <1>2, <1>3

ControlInv == ControlTypes /\ Control /\ AnswersFaithful

(* What control_request() does, by the event it finds.                     *)
LEMMA RequestFacts ==
    ASSUME ControlInv, ControlRequest
    PROVE  \E n \in 1 .. Len(events) :
             LET t == events[n]
                 early == t # 0 /\ kind[t] \in {"setConfig", "outData"}
             IN /\ asked = 0
                /\ events' = SubSeq(events, n + 1, Len(events))
                /\ IF t = 0 THEN UNCHANGED <<lastControl, setup, asked, configured, answer>>
                   ELSE /\ lastControl' = t /\ asked' = t /\ configured' = FALSE
                        /\ setup' = IF early THEN 0 ELSE t
                        /\ answer' = IF early THEN [answer EXCEPT ![t] = "ok"] ELSE answer
                /\ UNCHANGED <<kind, verdict>>
<1> DEFINE first == SelectInSeq(events, LAMBDA e : e # 0)
           n == IF first # 0 THEN first ELSE Len(events)
<1>1. events \in Seq(0 .. MaxTransfers) /\ events # <<>>
  BY DEF ControlInv, ControlTypes, ControlRequest
<1>2. n \in 1 .. Len(events)
  BY <1>1, FirstEvent
<1> WITNESS n \in 1 .. Len(events)
<1> QED
  BY DEF ControlRequest

(* Closing the device file ends every transfer.                            *)
LEMMA EndControlKeeps == ControlInv /\ EndControl => ControlInv'
<1> SUFFICES ASSUME ControlInv, EndControl PROVE ControlInv'
  OBVIOUS
<1> USE DEF EndControl
<1>1. /\ \A t \in Transfers : answer'[t] = IF t \in DOMAIN kind /\ answer[t] = "none" THEN "aborted" ELSE answer[t]
      /\ answer' \in [Transfers -> {"none", "ok", "stall", "aborted"}]
  BY DEF ControlInv, ControlTypes
<1>2. ControlTypes'
  BY <1>1, GadgetAssumption DEF ControlInv, ControlTypes
<1>3. Waiting' = {}
  BY DEF Waiting
<1>4. Control'
  BY <1>1, <1>3 DEF ControlInv, Control
<1>5. \A t \in DOMAIN kind : t \in Transfers
  BY GadgetAssumption DEF ControlInv, ControlTypes, Transfers
<1>6. AnswersFaithful'
  BY <1>1, <1>5 DEF ControlInv, AnswersFaithful
<1> QED
  BY <1>2, <1>4, <1>6 DEF ControlInv

(* The host starts a transfer: there is no other that waits.               *)
LEMMA HostSetupKeeps == ControlInv /\ HostSetup => ControlInv'
<1> SUFFICES ASSUME ControlInv, HostSetup PROVE ControlInv'
  OBVIOUS
<1>1. PICK k \in Kinds : kind' = Append(kind, k)
  BY DEF HostSetup
<1> DEFINE t == Len(kind) + 1
<1>2. /\ events' = Append(events, t) /\ Len(kind) < MaxTransfers
      /\ \A u \in DOMAIN kind : answer[u] # "none"
      /\ UNCHANGED <<lastControl, setup, asked, verdict, answer>>
  BY DEF HostSetup
<1>3. /\ kind \in Seq(Kinds) /\ events \in Seq(0 .. MaxTransfers)
      /\ Len(kind) \in Nat /\ DOMAIN kind = 1 .. Len(kind)
      /\ Len(events) \in Nat /\ DOMAIN events = 1 .. Len(events)
  BY LenProperties DEF ControlInv, ControlTypes
<1>4. t \in 0 .. MaxTransfers /\ t \in Transfers /\ t # 0 /\ t \notin DOMAIN kind
  BY <1>2, <1>3, GadgetAssumption DEF Transfers
<1>5. /\ kind' \in Seq(Kinds) /\ Len(kind') = t /\ DOMAIN kind' = DOMAIN kind \cup {t}
      /\ \A u \in DOMAIN kind : kind'[u] = kind[u]
  <2>1. /\ kind' \in Seq(Kinds) /\ Len(kind') = Len(kind) + 1
        /\ \A u \in 1 .. Len(kind) : kind'[u] = kind[u]
    BY <1>1, <1>3, AppendProperties
  <2>2. DOMAIN kind' = 1 .. Len(kind) + 1
    BY <2>1, LenProperties
  <2> QED
    BY <2>1, <2>2, <1>3
<1>6. /\ events' \in Seq(0 .. MaxTransfers)
      /\ DOMAIN events' = DOMAIN events \cup {Len(events) + 1} /\ Len(events) + 1 \notin DOMAIN events
      /\ \A i \in DOMAIN events : events'[i] = events[i]
      /\ events'[Len(events) + 1] = t
  <2>1. /\ events' \in Seq(0 .. MaxTransfers) /\ Len(events') = Len(events) + 1
        /\ \A i \in 1 .. Len(events) : events'[i] = events[i]
        /\ events'[Len(events) + 1] = t
    BY <1>2, <1>3, <1>4, AppendProperties
  <2>2. DOMAIN events' = 1 .. Len(events) + 1
    BY <2>1, LenProperties
  <2> QED
    BY <2>1, <2>2, <1>3
<1>7. Waiting = {} /\ setup = 0
  BY <1>2 DEF ControlInv, Control
<1>8. Waiting' = {Len(events) + 1}
  BY <1>4, <1>6, <1>7 DEF Waiting
<1> HIDE DEF t
<1>9. ControlTypes'
  BY <1>2, <1>3, <1>4, <1>5, <1>6, GadgetAssumption DEF ControlInv, ControlTypes
<1>10. answer[t] = "none"
  BY <1>4 DEF ControlInv, Control
<1>11. Control'
  BY <1>2, <1>4, <1>5, <1>6, <1>7, <1>8, <1>10 DEF ControlInv, Control
<1>12. AnswersFaithful'
  BY <1>2, <1>5, <1>10 DEF ControlInv, AnswersFaithful
<1> QED
  BY <1>9, <1>11, <1>12 DEF ControlInv

(* Another event of the host.                                              *)
LEMMA HostEventKeeps == ControlInv /\ HostEvent => ControlInv'
<1> SUFFICES ASSUME ControlInv, HostEvent PROVE ControlInv'
  OBVIOUS
<1>1. events' = Append(events, 0) /\ UNCHANGED <<lastControl, setup, kind, asked, verdict, answer>>
  BY DEF HostEvent
<1>2. events \in Seq(0 .. MaxTransfers) /\ 0 \in 0 .. MaxTransfers
  BY GadgetAssumption DEF ControlInv, ControlTypes
<1>3. /\ events' \in Seq(0 .. MaxTransfers) /\ Len(events') = Len(events) + 1
      /\ \A i \in 1 .. Len(events) : events'[i] = events[i]
      /\ events'[Len(events) + 1] = 0
  BY <1>1, <1>2, AppendProperties
<1>4. /\ DOMAIN events = 1 .. Len(events) /\ DOMAIN events' = 1 .. Len(events) + 1
      /\ Len(events) \in Nat
  BY <1>2, <1>3, LenProperties
<1>5. Waiting' = Waiting /\ \A i \in Waiting : events'[i] = events[i]
  BY <1>3, <1>4 DEF Waiting
<1>6. ControlTypes'
  BY <1>1, <1>3 DEF ControlInv, ControlTypes
<1>7. Control'
  BY <1>1, <1>5 DEF ControlInv, Control
<1>8. AnswersFaithful'
  BY <1>1 DEF ControlInv, AnswersFaithful
<1> QED
  BY <1>6, <1>7, <1>8 DEF ControlInv

(* control_request() takes the transfer that waits, if it finds one.       *)
LEMMA ControlRequestKeeps == ControlInv /\ ControlRequest => ControlInv'
<1> SUFFICES ASSUME ControlInv, ControlRequest PROVE ControlInv'
  OBVIOUS
<1>1. PICK n \in 1 .. Len(events) :
        LET t == events[n]
            early == t # 0 /\ kind[t] \in {"setConfig", "outData"}
        IN /\ asked = 0
           /\ events' = SubSeq(events, n + 1, Len(events))
           /\ IF t = 0 THEN UNCHANGED <<lastControl, setup, asked, configured, answer>>
              ELSE /\ lastControl' = t /\ asked' = t /\ configured' = FALSE
                   /\ setup' = IF early THEN 0 ELSE t
                   /\ answer' = IF early THEN [answer EXCEPT ![t] = "ok"] ELSE answer
           /\ UNCHANGED <<kind, verdict>>
  BY RequestFacts
<1> DEFINE t == events[n]
<1>2. events \in Seq(0 .. MaxTransfers)
  BY DEF ControlInv, ControlTypes
<1>3. n \in DOMAIN events /\ DOMAIN events = 1 .. Len(events) /\ Len(events) \in Nat /\ n \in Nat
  BY <1>2, LenProperties
<1>4. events' \in Seq(0 .. MaxTransfers)
      /\ \A i \in DOMAIN events' : i \in Nat \ {0} /\ i + n \in DOMAIN events /\ events'[i] = events[i + n]
  <2>1. ASSUME NEW i \in n + 1 .. Len(events) PROVE events[i] \in 0 .. MaxTransfers
    <3>1. i \in 1 .. Len(events)
      BY <1>3
    <3> QED
      BY <1>2, <3>1, ElementOfSeq
  <2>2. n + 1 \in Int /\ Len(events) \in Int
    BY <1>3
  <2>3. /\ events' \in Seq(0 .. MaxTransfers)
        /\ Len(events') = IF n + 1 <= Len(events) THEN Len(events) - (n + 1) + 1 ELSE 0
        /\ \A i \in 1 .. Len(events) - (n + 1) + 1 : events'[i] = events[n + 1 + i - 1]
    BY <1>1, <2>1, <2>2, SubSeqProperties
  <2>4. DOMAIN events' = 1 .. Len(events')
    BY <2>3, LenProperties
  <2>5. ASSUME NEW i \in DOMAIN events'
        PROVE  i \in Nat \ {0} /\ i + n \in DOMAIN events /\ events'[i] = events[i + n]
    <3>1. n + 1 <= Len(events) /\ i \in 1 .. Len(events) - (n + 1) + 1
      BY <2>3, <2>4, <1>3
    <3>2. n + 1 + i - 1 = i + n /\ i + n \in 1 .. Len(events) /\ i \in Nat \ {0}
      BY <3>1, <1>3
    <3> QED
      BY <3>1, <3>2, <2>3, <1>3
  <2> QED
    BY <2>3, <2>5
<1>5. \A i \in Waiting' : i + n \in Waiting /\ events'[i] = events[i + n] /\ i \in Nat \ {0} /\ i + n # n
  BY <1>3, <1>4 DEF Waiting
<1>6. CASE t = 0
  <2>1. asked = 0 /\ UNCHANGED <<lastControl, setup, asked, answer, kind, verdict>>
    BY <1>1, <1>6
  <2>2. \A i, j \in Waiting' : i = j
    BY <1>3, <1>5 DEF ControlInv, Control
  <2>3. Waiting = {} => Waiting' = {}
    BY <1>5
  <2>4. Control'
    BY <2>1, <2>2, <2>3, <1>5 DEF ControlInv, Control
  <2> QED
    BY <2>1, <2>4, <1>4 DEF ControlInv, ControlTypes, AnswersFaithful
<1>7. CASE t # 0
  <2>1. n \in Waiting
    BY <1>3, <1>7 DEF Waiting
  <2>2. /\ t \in DOMAIN kind /\ answer[t] = "none" /\ Waiting' = {} /\ setup = 0
        /\ t \in Transfers /\ t \in 0 .. MaxTransfers
    <3>1. t \in DOMAIN kind /\ answer[t] = "none"
      BY <2>1 DEF ControlInv, Control
    <3>2. Waiting' = {} /\ setup = 0
      BY <2>1, <1>5 DEF ControlInv, Control
    <3>3. t \in 0 .. MaxTransfers
      BY <1>2, ElementOfSeq
    <3>4. t \in Transfers
      BY <3>3, <1>7, GadgetAssumption DEF Transfers
    <3> QED
      BY <3>1, <3>2, <3>3, <3>4
  <2> HIDE DEF t
  <2>3. CASE kind[t] \in {"setConfig", "outData"}
    <3>1. /\ lastControl' = t /\ asked' = t /\ setup' = 0 /\ answer' = [answer EXCEPT ![t] = "ok"]
          /\ UNCHANGED <<kind, verdict>>
      BY <1>1, <1>7, <2>3 DEF t
    <3>2. /\ answer' \in [Transfers -> {"none", "ok", "stall", "aborted"}] /\ answer'[t] = "ok"
          /\ \A u \in Transfers : u # t => answer'[u] = answer[u]
      BY <2>2, <3>1 DEF ControlInv, ControlTypes
    <3>3. ControlTypes'
      BY <1>4, <2>2, <3>1, <3>2, GadgetAssumption DEF ControlInv, ControlTypes
    <3>4. Control'
      BY <1>7, <2>2, <2>3, <3>1, <3>2 DEF ControlInv, Control
    <3>5. \A u \in DOMAIN kind : u \in Transfers
      BY GadgetAssumption DEF ControlInv, ControlTypes, Transfers
    <3>6. AnswersFaithful'
      BY <2>3, <3>1, <3>2, <3>5 DEF ControlInv, AnswersFaithful
    <3> QED
      BY <3>3, <3>4, <3>6 DEF ControlInv
  <2>4. CASE kind[t] \notin {"setConfig", "outData"}
    <3>1. lastControl' = t /\ asked' = t /\ setup' = t /\ UNCHANGED <<kind, verdict, answer>>
      BY <1>1, <1>7, <2>4 DEF t
    <3>2. ControlTypes'
      BY <1>4, <2>2, <3>1 DEF ControlInv, ControlTypes
    <3>3. Control'
      BY <1>7, <2>2, <2>4, <3>1 DEF ControlInv, Control
    <3> QED
      BY <3>1, <3>2, <3>3 DEF ControlInv, AnswersFaithful
  <2> QED
    BY <2>3, <2>4
<1> QED
  BY <1>6, <1>7

(* The relayers answer the transfer that they were given.                  *)
LEMMA AnswerControlKeeps == ControlInv /\ AnswerControl => ControlInv'
<1> SUFFICES ASSUME ControlInv, AnswerControl PROVE ControlInv'
  OBVIOUS
<1>1. PICK v \in {"ok", "stall"} :
        /\ verdict' = [verdict EXCEPT ![asked] = v]
        /\ Answered(IF v = "stall" THEN StallEp
                    ELSE IF HasLength(asked) THEN OnWrite(lastControl) ELSE ControlAck)
  BY DEF AnswerControl
<1>2. asked # 0 /\ setup' = 0 /\ asked' = 0 /\ UNCHANGED <<lastControl, events, kind>>
  BY DEF AnswerControl
<1>3. /\ asked \in DOMAIN kind /\ lastControl = asked /\ asked \in Transfers /\ kind[asked] \in Kinds
      /\ \A u \in DOMAIN kind : u \in Transfers
  BY <1>2, GadgetAssumption DEF ControlInv, Control, ControlTypes, Transfers
<1>4. /\ verdict' \in [Transfers -> {"none", "ok", "stall"}] /\ verdict'[asked] = v
      /\ \A u \in Transfers : u # asked => verdict'[u] = verdict[u]
  BY <1>1, <1>3 DEF ControlInv, ControlTypes
<1>w. Waiting' = Waiting
  BY <1>2 DEF Waiting
<1>5. CASE setup = 0
  <2>1. answer' = answer /\ kind[asked] \in {"setConfig", "outData"} /\ answer[asked] = "ok"
    BY <1>1, <1>2, <1>5 DEF Answered, ControlInv, Control
  <2>2. ControlTypes'
    BY <1>2, <1>4, <2>1, GadgetAssumption DEF ControlInv, ControlTypes
  <2>3. Control'
    BY <1>2, <1>w, <2>1 DEF ControlInv, Control
  <2>4. AnswersFaithful'
    BY <1>2, <1>3, <1>4, <2>1 DEF ControlInv, AnswersFaithful
  <2> QED
    BY <2>2, <2>3, <2>4 DEF ControlInv
<1>6. CASE setup # 0
  <2>1. setup = asked /\ Waiting = {} /\ kind[asked] \in {"inData", "inEmpty", "outEmpty"}
    BY <1>3, <1>6 DEF ControlInv, Control, Kinds
  <2>2. answer' = [answer EXCEPT ![asked] = v]
    <3>1. v = (IF v = "stall" THEN StallEp
               ELSE IF HasLength(asked) THEN OnWrite(lastControl) ELSE ControlAck)
      BY <1>3, <2>1 DEF StallEp, ControlAck, OnWrite, OnRead, In, HasLength
    <3> QED
      BY <1>1, <1>6, <2>1, <3>1 DEF Answered
  <2>3. /\ answer' \in [Transfers -> {"none", "ok", "stall", "aborted"}] /\ answer'[asked] = v
        /\ \A u \in Transfers : u # asked => answer'[u] = answer[u]
    BY <1>3, <2>2 DEF ControlInv, ControlTypes
  <2>4. ControlTypes'
    BY <1>2, <1>4, <2>3, GadgetAssumption DEF ControlInv, ControlTypes
  <2>5. Control'
    BY <1>2, <1>3, <1>w, <2>1, <2>3 DEF ControlInv, Control
  <2>6. AnswersFaithful'
    BY <1>2, <1>3, <1>4, <2>3 DEF ControlInv, AnswersFaithful
  <2> QED
    BY <2>4, <2>5, <2>6 DEF ControlInv
<1> QED
  BY <1>5, <1>6

(* Every step keeps what is known of the control transfers.                *)
LEMMA NextControl == ControlInv /\ [Next]_vars => ControlInv'
<1> SUFFICES ASSUME ControlInv, [Next]_vars PROVE ControlInv'
  OBVIOUS
<1>u. ASSUME UNCHANGED <<lastControl, events, setup, kind, asked, verdict, answer>> PROVE ControlInv'
  BY <1>u DEF ControlInv, ControlTypes, Control, AnswersFaithful, Waiting
<1> USE DEF controlVars, Unchanged
<1>1. CASE Connect \/ SetConfig
  BY <1>1, <1>u DEF Connect, SetConfig
<1>2. CASE Disconnect \/ Reset
  BY <1>2, EndControlKeeps DEF Disconnect, Reset
<1>3. CASE HostSetup \/ HostEvent \/ ControlRequest \/ AnswerControl
  BY <1>3, HostSetupKeeps, HostEventKeeps, ControlRequestKeeps, AnswerControlKeeps
<1>4. ASSUME NEW n \in Numbers,
             \/ SendData(n) \/ SendWait(n) \/ AioStart(n) \/ HostTakes(n) \/ HostRefuses(n)
             \/ HostSends(n) \/ ReceiveData(n)
      PROVE  ControlInv'
  BY <1>4, <1>u DEF SendData, SendWait, AioStart, HostTakes, HostRefuses, HostSends, ReceiveData
<1>5. CASE UNCHANGED vars
  BY <1>5, <1>u DEF vars
<1> QED
  BY <1>1, <1>2, <1>3, <1>4, <1>5 DEF Next

(* Nothing has been asked yet.                                             *)
LEMMA InitControl == Init => ControlInv
<1> SUFFICES ASSUME Init PROVE ControlInv
  OBVIOUS
<1>1. ControlTypes
  BY GadgetAssumption DEF Init, ControlTypes
<1>2. Control
  BY DEF Init, Control, Waiting
<1>3. AnswersFaithful
  BY DEF Init, AnswersFaithful
<1> QED
  BY <1>1, <1>2, <1>3 DEF ControlInv

(* The host sees the answer that the relayers gave to that very transfer,  *)
(* whatever the kernel queued, the session ended or the proxy was reset.   *)
THEOREM AnswersAreFaithful == Spec => []AnswersFaithful
<1>1. ControlInv => AnswersFaithful
  BY DEF ControlInv
<1> QED
  BY <1>1, InitControl, NextControl, PTL DEF Spec

-----------------------------------------------------------------------------
(* IN endpoints *)

PacketInv == InFlags /\ InTypes /\ AllInOrder

(* The host sees one packet more.                                          *)
LEMMA SeenFacts ==
    ASSUME NEW s \in Seq(0 .. MaxPackets), NEW p \in 0 .. MaxPackets
    PROVE  /\ Append(s, p) \in Seq(0 .. MaxPackets)
           /\ Range(Append(s, p)) = Range(s) \cup {p}
           /\ (\A i, j \in DOMAIN s : i < j => s[i] < s[j]) /\ (\A q \in Range(s) : q < p)
                => \A i, j \in DOMAIN Append(s, p) : i < j => Append(s, p)[i] < Append(s, p)[j]
<1> DEFINE t == Append(s, p)
<1>1. /\ t \in Seq(0 .. MaxPackets) /\ Len(t) = Len(s) + 1
      /\ \A i \in 1 .. Len(s) : t[i] = s[i]
      /\ t[Len(s) + 1] = p
  BY AppendProperties
<1> HIDE DEF t
<1>2. Len(s) \in Nat /\ DOMAIN s = 1 .. Len(s) /\ DOMAIN t = 1 .. Len(s) + 1
  BY <1>1, LenProperties
<1>3. Range(t) = Range(s) \cup {p}
  BY <1>1, <1>2 DEF Range
<1>4. ASSUME \A i, j \in DOMAIN s : i < j => s[i] < s[j], \A q \in Range(s) : q < p,
             NEW i \in DOMAIN t, NEW j \in DOMAIN t, i < j
      PROVE  t[i] < t[j]
  <2>1. i \in 1 .. Len(s) /\ t[i] = s[i] /\ s[i] \in Range(s)
    BY <1>1, <1>2, <1>4 DEF Range
  <2>2. CASE j \in 1 .. Len(s)
    BY <1>1, <1>2, <1>4, <2>1, <2>2
  <2>3. CASE j = Len(s) + 1
    BY <1>1, <1>4, <2>1, <2>3
  <2> QED
    BY <1>2, <2>2, <2>3
<1> QED
  BY <1>1, <1>3, <1>4 DEF t

(* The state of endpoint m is left alone.                                  *)
Same(m) ==
    /\ queued'[m] = queued[m] /\ wire'[m] = wire[m] /\ status'[m] = status[m]
    /\ buf'[m] = buf[m] /\ sent'[m] = sent[m] /\ seen'[m] = seen[m] /\ lost'[m] = lost[m]
    /\ (writing[m] => writing'[m]) /\ (active[m] => active'[m])

(* What an endpoint that is left alone was in the middle of, it still is.  *)
LEMMA SameInOrder == ASSUME NEW m, Same(m), InOrder(m) PROVE InOrder(m)'
  BY DEF Same, InOrder, AtRest, OnItsWay

(* A step of endpoint n leaves the others alone.                           *)
LEMMA Others ==
    ASSUME NEW n \in Numbers, AllInOrder, unsure \subseteq unsure',
           \A m \in Numbers : m # n => Same(m), n \in unsure' \/ InOrder(n)'
    PROVE  AllInOrder'
  BY SameInOrder DEF AllInOrder

(* What an endpoint that is sure can be in the middle of.                  *)
LEMMA StateOf ==
    ASSUME PacketInv, NEW n \in Numbers, n \notin unsure
    PROVE  /\ \A i, j \in DOMAIN seen[n] : i < j => seen[n][i] < seen[n][j]
           /\ Range(seen[n]) \cap lost[n] = {}
           /\ AtRest(n) \/ OnItsWay(n)
  BY DEF PacketInv, AllInOrder, InOrder

(* The flags of the IN endpoints.                                          *)
LEMMA NextFlags == InFlags /\ [Next]_vars => InFlags'
<1> SUFFICES ASSUME InFlags, [Next]_vars PROVE InFlags'
  OBVIOUS
<1> USE DEF InFlags, inVars, relayVars
<1>1. CASE Connect \/ SetConfig \/ HostSetup \/ HostEvent \/ ControlRequest \/ AnswerControl
  BY <1>1 DEF Connect, SetConfig, HostSetup, HostEvent, ControlRequest, AnswerControl
<1>2. CASE Disconnect
  BY <1>2 DEF Disconnect, NoRelaying, CloseEndpoints, All
<1>3. CASE Reset
  BY <1>3 DEF Reset, CloseEndpoints
<1>4. ASSUME NEW n \in Numbers, SendData(n) PROVE InFlags'
  BY <1>4 DEF SendData
<1>5. ASSUME NEW n \in Numbers, SendWait(n) PROVE InFlags'
  <2>1. writing' \in [Numbers -> BOOLEAN]
    <3>1. writing' = writing \/ writing' = [writing EXCEPT ![n] = FALSE]
      BY <1>5 DEF SendWait
    <3> QED
      BY <3>1
  <2>2. active' = active \/ active' = [active EXCEPT ![n] = status[n] = "zero"]
    BY <1>5 DEF SendWait
  <2>3. active' \in [Numbers -> BOOLEAN]
    BY <2>2
  <2> QED
    BY <2>1, <2>3
<1>6. ASSUME NEW n \in Numbers,
             AioStart(n) \/ HostTakes(n) \/ HostRefuses(n) \/ HostSends(n) \/ ReceiveData(n)
      PROVE  InFlags'
  BY <1>6 DEF AioStart, HostTakes, HostRefuses, HostSends, ReceiveData
<1>7. CASE UNCHANGED vars
  BY <1>7 DEF vars
<1> QED
  BY <1>1, <1>2, <1>3, <1>4, <1>5, <1>6, <1>7 DEF Next

(* send_data() gives an endpoint at rest a packet, or loses it at once.    *)
LEMMA SendDataKeeps ==
    ASSUME PacketInv, NEW n \in Numbers, SendData(n)
    PROVE  InTypes' /\ AllInOrder'
<1>t. /\ InFlags /\ InTypes /\ MaxPackets \in Nat
      /\ sent[n] \in Nat /\ sent[n] < MaxPackets /\ queued[n] \in Nat /\ queued[n] <= sent[n]
  BY GadgetAssumption DEF PacketInv, InTypes, SendData
<1>1. /\ sent' = [sent EXCEPT ![n] = @ + 1] /\ writing' = [writing EXCEPT ![n] = TRUE] /\ ~writing[n]
      /\ buf' = [buf EXCEPT ![n] = IF epin[n] THEN sent[n] + 1 ELSE @]
      /\ UNCHANGED <<wire, seen>>
  BY DEF SendData
<1>2. /\ sent' \in [Numbers -> 0 .. MaxPackets] /\ sent'[n] = sent[n] + 1
      /\ \A m \in Numbers : m # n => sent'[m] = sent[m]
  BY <1>1, <1>t DEF InTypes
<1>s. ASSUME NEW m \in Numbers
      PROVE  queued[m] \in Nat /\ sent[m] \in Nat /\ sent'[m] \in Nat /\ queued[m] <= sent'[m]
  <2>1. queued[m] \in Nat /\ sent[m] \in Nat /\ queued[m] <= sent[m]
    BY <1>t DEF InTypes
  <2>2. CASE m = n
    BY <1>2, <2>1, <2>2
  <2>3. CASE m # n
    BY <1>2, <2>1, <2>3
  <2> QED
    BY <2>2, <2>3
<1>3. \A m \in Numbers : writing[m] => writing'[m]
  BY <1>1, <1>t DEF InFlags
<1>4. /\ buf' \in [Numbers -> 0 .. MaxPackets] /\ \A m \in Numbers : m # n => buf'[m] = buf[m]
      /\ epin[n] => buf'[n] = sent[n] + 1
  BY <1>1, <1>t DEF InTypes
<1>5. writing'[n]
  BY <1>1, <1>t DEF InFlags
<1>u. wire' = wire /\ seen' = seen
  BY <1>1
<1>6. ASSUME n \notin unsure
      PROVE  /\ AtRest(n) /\ Range(seen[n]) \cap lost[n] = {} /\ sent[n] + 1 \notin Range(seen[n])
             /\ \A i, j \in DOMAIN seen[n] : i < j => seen[n][i] < seen[n][j]
  <2>1. AtRest(n)
    BY <1>1, <1>6, StateOf DEF OnItsWay
  <2>2. Range(seen[n]) \subseteq 1 .. sent[n]
    BY <2>1 DEF AtRest
  <2>3. sent[n] + 1 \notin 1 .. sent[n]
    BY <1>t
  <2> QED
    BY <1>6, <2>1, <2>2, <2>3, StateOf
<1>7. CASE ~epin[n] /\ unsure' = unsure \cup {n} /\ UNCHANGED <<active, status, queued, lost>>
  <2>1. \A m \in Numbers : m # n => Same(m)
    BY <1>1, <1>2, <1>3, <1>4, <1>7 DEF Same
  <2>2. AllInOrder'
    BY <1>7, <2>1, Others DEF PacketInv
  <2>3. \A m \in Numbers : queued'[m] <= sent'[m]
    BY <1>s, <1>7
  <2>4. UNCHANGED <<status, queued, lost>> /\ unsure' \subseteq Numbers
    BY <1>7, <1>t DEF InTypes
  <2>5. buf' \in [Numbers -> 0 .. MaxPackets]
    BY <1>4
  <2> QED
    BY <1>2, <1>t, <1>u, <2>2, <2>3, <2>4, <2>5 DEF InTypes
<1>8. CASE /\ epin[n] /\ Submit(n) /\ status' = [status EXCEPT ![n] = "inprogress"]
           /\ active' = [active EXCEPT ![n] = TRUE] /\ UNCHANGED <<lost, unsure>>
  <2>1. /\ queued'[n] = queued[n] + 1 /\ \A m \in Numbers : m # n => queued'[m] = queued[m]
        /\ queued' \in [Numbers -> 0 .. MaxPackets]
    BY <1>8, <1>t DEF Submit, InTypes
  <2>2. /\ status' \in [Numbers -> {"none", "inprogress", "done", "zero", "error"}]
        /\ status'[n] = "inprogress" /\ \A m \in Numbers : m # n => status'[m] = status[m]
    BY <1>8, <1>t DEF InTypes
  <2>3. active'[n] /\ \A m \in Numbers : active[m] => active'[m]
    BY <1>8, <1>t DEF InFlags
  <2>4. \A m \in Numbers : m # n => Same(m)
    BY <1>1, <1>2, <1>3, <1>4, <1>8, <2>1, <2>2, <2>3 DEF Same
  <2>5. ASSUME n \notin unsure PROVE InOrder(n)'
    <3>1. 1 .. sent'[n] - 1 = 1 .. sent[n] /\ sent'[n] > 0
      BY <1>2, <1>t
    <3>2. queued[n] = 0 /\ wire[n] = Idle /\ Range(seen[n]) \cup lost[n] = 1 .. sent[n]
      BY <1>6, <2>5 DEF AtRest
    <3>3. queued'[n] = 1 /\ wire'[n] = Idle /\ buf'[n] = sent'[n]
      BY <1>2, <1>4, <1>8, <1>u, <2>1, <3>2
    <3>4. seen'[n] = seen[n] /\ lost'[n] = lost[n]
      BY <1>8, <1>u
    <3>5. Range(seen'[n]) \cup lost'[n] = 1 .. sent'[n] - 1
      BY <3>1, <3>2, <3>4
    <3>6. OnItsWay(n)'
      BY <1>5, <2>2, <2>3, <3>1, <3>3, <3>5 DEF OnItsWay
    <3> QED
      BY <1>6, <2>5, <3>4, <3>6 DEF InOrder
  <2>6. AllInOrder'
    BY <1>8, <2>4, <2>5, Others DEF PacketInv
  <2>7. \A m \in Numbers : queued'[m] <= sent'[m]
    <3> TAKE m \in Numbers
    <3>1. CASE m = n
      BY <3>1, <1>2, <1>t, <2>1
    <3>2. CASE m # n
      BY <3>2, <1>s, <2>1
    <3> QED
      BY <3>1, <3>2
  <2>8. UNCHANGED <<lost, unsure>> /\ buf' \in [Numbers -> 0 .. MaxPackets]
    BY <1>4, <1>8
  <2> QED
    BY <1>2, <1>t, <1>u, <2>1, <2>2, <2>6, <2>7, <2>8 DEF InTypes
<1>9. CASE /\ epin[n] /\ status' = [status EXCEPT ![n] = "error"]
           /\ lost' = [lost EXCEPT ![n] = @ \cup {sent[n] + 1}] /\ UNCHANGED <<active, queued, unsure>>
  <2>1. /\ status' \in [Numbers -> {"none", "inprogress", "done", "zero", "error"}]
        /\ status'[n] = "error" /\ \A m \in Numbers : m # n => status'[m] = status[m]
    BY <1>9, <1>t DEF InTypes
  <2>2. /\ lost' \in [Numbers -> SUBSET (1 .. MaxPackets)] /\ lost'[n] = lost[n] \cup {sent[n] + 1}
        /\ \A m \in Numbers : m # n => lost'[m] = lost[m]
    BY <1>9, <1>t DEF InTypes
  <2>3. \A m \in Numbers : m # n => Same(m)
    BY <1>1, <1>2, <1>3, <1>4, <1>9, <2>1, <2>2 DEF Same
  <2>4. ASSUME n \notin unsure PROVE InOrder(n)'
    <3>1. 1 .. sent'[n] = (1 .. sent[n]) \cup {sent[n] + 1}
      BY <1>2, <1>t
    <3>2. AtRest(n)'
      BY <1>1, <1>6, <1>9, <2>1, <2>2, <2>4, <3>1 DEF AtRest
    <3> QED
      BY <1>1, <1>6, <2>2, <2>4, <3>2 DEF InOrder
  <2>5. AllInOrder'
    BY <1>9, <2>3, <2>4, Others DEF PacketInv
  <2>6. \A m \in Numbers : queued'[m] <= sent'[m]
    BY <1>s, <1>9
  <2>7. UNCHANGED <<queued, unsure>> /\ buf' \in [Numbers -> 0 .. MaxPackets]
    BY <1>4, <1>9
  <2> QED
    BY <1>2, <1>t, <1>u, <2>1, <2>2, <2>5, <2>6, <2>7 DEF InTypes
<1> QED
  BY <1>7, <1>8, <1>9 DEF SendData

(* send_wait_complete() finds the endpoint at rest, or gives it up.        *)
LEMMA SendWaitKeeps ==
    ASSUME PacketInv, NEW n \in Numbers, SendWait(n)
    PROVE  InTypes' /\ AllInOrder'
<1>t. InFlags /\ InTypes /\ MaxPackets \in Nat
  BY GadgetAssumption DEF PacketInv
<1>1. /\ UNCHANGED <<status, queued, wire, sent, seen, lost>>
      /\ (writing' = writing \/ writing' = [writing EXCEPT ![n] = FALSE])
  BY DEF SendWait
<1>2. /\ buf' \in [Numbers -> 0 .. MaxPackets] /\ \A m \in Numbers : m # n => buf'[m] = buf[m]
  <2>1. buf' = buf \/ buf' = [buf EXCEPT ![n] = NULL]
    BY DEF SendWait
  <2>2. buf \in [Numbers -> 0 .. MaxPackets] /\ NULL \in 0 .. MaxPackets
    BY <1>t DEF InTypes, NULL
  <2>3. CASE buf' = buf
    BY ONLY <2>2, <2>3
  <2>4. CASE buf' = [buf EXCEPT ![n] = NULL]
    BY ONLY <2>2, <2>4
  <2> QED
    BY <2>1, <2>3, <2>4
<1>3. unsure' = unsure \/ unsure' = unsure \cup {n}
  BY DEF SendWait
<1>4. InTypes'
  <2>1. unsure' \subseteq Numbers
    BY <1>3, <1>t DEF InTypes
  <2>2. UNCHANGED <<status, queued, wire, sent, seen, lost>> /\ buf' \in [Numbers -> 0 .. MaxPackets]
    BY <1>1, <1>2
  <2>3. InTypes
    BY <1>t
  <2> QED
    BY ONLY <2>1, <2>2, <2>3 DEF InTypes
<1>5. \A m \in Numbers : m # n => (active[m] => active'[m]) /\ (writing[m] => writing'[m])
  <2>1. active' = active \/ active' = [active EXCEPT ![n] = status[n] = "zero"]
    BY DEF SendWait
  <2> QED
    BY <1>1, <1>t, <2>1 DEF InFlags
<1>6. \A m \in Numbers : m # n => Same(m)
  BY <1>1, <1>2, <1>5 DEF Same
<1>7. n \in unsure' \/ InOrder(n)'
  <2>1. SUFFICES ASSUME n \notin unsure' PROVE InOrder(n)'
    OBVIOUS
  <2>2. n \notin unsure /\ (~active[n] \/ status[n] # "inprogress")
    BY <1>3, <2>1 DEF SendWait
  <2>3. AtRest(n)
    BY <2>2, StateOf DEF OnItsWay
  <2>4. AtRest(n)'
    BY <1>1, <2>3 DEF AtRest
  <2> QED
    BY <1>1, <2>2, <2>4, StateOf DEF InOrder
<1> QED
  BY <1>3, <1>4, <1>6, <1>7, Others DEF PacketInv

(* The request starts: the packet in its buffer goes on the wire.          *)
LEMMA AioStartKeeps ==
    ASSUME PacketInv, NEW n \in Numbers, AioStart(n)
    PROVE  InTypes' /\ AllInOrder'
<1>t. InTypes /\ MaxPackets \in Nat
  BY GadgetAssumption DEF PacketInv
<1>1. /\ queued[n] > 0 /\ wire[n] = Idle
      /\ wire' = [wire EXCEPT ![n] = buf[n]] /\ queued' = [queued EXCEPT ![n] = @ - 1]
      /\ UNCHANGED <<buf, status, sent, seen, lost, unsure>>
  BY DEF AioStart
<1>a. UNCHANGED <<active, writing>>
  BY DEF AioStart
<1>2. /\ queued[n] \in Nat /\ buf[n] \in 0 .. MaxPackets /\ sent[n] \in Nat /\ queued[n] <= sent[n]
      /\ queued[n] <= MaxPackets
  BY <1>t DEF InTypes
<1>3. /\ wire' \in [Numbers -> 0 .. Idle] /\ wire'[n] = buf[n]
      /\ \A m \in Numbers : m # n => wire'[m] = wire[m]
  BY <1>1, <1>2, <1>t DEF InTypes, Idle
<1>4. queued[n] - 1 \in 0 .. MaxPackets /\ queued[n] - 1 <= sent[n]
  BY <1>1, <1>2, <1>t
<1>5. /\ queued' \in [Numbers -> 0 .. MaxPackets] /\ queued'[n] = queued[n] - 1
      /\ \A m \in Numbers : m # n => queued'[m] = queued[m]
  BY <1>1, <1>4, <1>t DEF InTypes
<1>6. \A m \in Numbers : queued'[m] <= sent'[m]
  <2> TAKE m \in Numbers
  <2>1. CASE m = n
    BY <2>1, <1>1, <1>4, <1>5
  <2>2. CASE m # n
    BY <2>2, <1>1, <1>5, <1>t DEF InTypes
  <2> QED
    BY <2>1, <2>2
<1>7. InTypes'
  BY <1>1, <1>3, <1>5, <1>6, <1>t DEF InTypes
<1>8. \A m \in Numbers : m # n => Same(m)
  BY <1>1, <1>a, <1>3, <1>5 DEF Same
<1>9. n \in unsure' \/ InOrder(n)'
  <2>1. SUFFICES ASSUME n \notin unsure PROVE InOrder(n)'
    BY <1>1
  <2>2. OnItsWay(n) /\ queued[n] = 1
    <3>1. ~AtRest(n)
      BY <1>1 DEF AtRest
    <3>2. OnItsWay(n)
      BY <2>1, <3>1, StateOf
    <3> QED
      BY <1>1, <3>2 DEF OnItsWay
  <2>3. queued'[n] = 0 /\ wire'[n] = sent'[n]
    BY <1>1, <1>3, <1>5, <2>2 DEF OnItsWay
  <2>4. OnItsWay(n)'
    BY <1>1, <1>a, <2>2, <2>3 DEF OnItsWay
  <2> QED
    BY <1>1, <2>1, <2>4, StateOf DEF InOrder
<1> QED
  BY <1>1, <1>7, <1>8, <1>9, Others DEF PacketInv

(* The packet that is on the wire of an endpoint that is sure.             *)
LEMMA OnTheWire ==
    ASSUME PacketInv, NEW n \in Numbers, n \notin unsure, wire[n] # Idle
    PROVE  /\ wire[n] = sent[n] /\ sent[n] > 0 /\ queued[n] = 0
           /\ Range(seen[n]) \cup lost[n] = 1 .. sent[n] - 1
           /\ 1 .. sent[n] = (1 .. sent[n] - 1) \cup {sent[n]}
           /\ \A q \in 1 .. sent[n] - 1 : q < sent[n]
<1>1. OnItsWay(n)
  BY StateOf DEF AtRest
<1>2. sent[n] \in Nat
  BY GadgetAssumption DEF PacketInv, InTypes
<1>3. wire[n] = sent[n] /\ sent[n] > 0 /\ queued[n] = 0 /\ Range(seen[n]) \cup lost[n] = 1 .. sent[n] - 1
  BY <1>1 DEF OnItsWay
<1> QED
  BY <1>2, <1>3

(* The host takes the packet on the wire.                                  *)
LEMMA HostTakesKeeps ==
    ASSUME PacketInv, NEW n \in Numbers, HostTakes(n)
    PROVE  InTypes' /\ AllInOrder'
<1>t. InTypes /\ MaxPackets \in Nat
  BY GadgetAssumption DEF PacketInv
<1>1. /\ wire[n] # Idle /\ seen' = [seen EXCEPT ![n] = Append(@, wire[n])]
      /\ status' = [status EXCEPT ![n] = IF wire[n] = NULL THEN "zero" ELSE "done"]
      /\ wire' = [wire EXCEPT ![n] = Idle]
      /\ UNCHANGED <<buf, queued, sent, lost, unsure>>
  BY DEF HostTakes
<1>a. UNCHANGED <<active, writing>>
  BY DEF HostTakes
<1>2. wire[n] \in 0 .. MaxPackets
  BY <1>1, <1>t DEF InTypes, Idle
<1>3. /\ seen[n] \in Seq(0 .. MaxPackets) /\ Append(seen[n], wire[n]) \in Seq(0 .. MaxPackets)
      /\ Range(Append(seen[n], wire[n])) = Range(seen[n]) \cup {wire[n]}
  BY <1>2, <1>t, SeenFacts DEF InTypes
<1>4. /\ seen' \in [Numbers -> Seq(0 .. MaxPackets)] /\ seen'[n] = Append(seen[n], wire[n])
      /\ \A m \in Numbers : m # n => seen'[m] = seen[m]
  BY <1>1, <1>3, <1>t DEF InTypes
<1>5. /\ status' \in [Numbers -> {"none", "inprogress", "done", "zero", "error"}]
      /\ status'[n] # "inprogress" /\ \A m \in Numbers : m # n => status'[m] = status[m]
  BY <1>1, <1>t DEF InTypes
<1>6. /\ wire' \in [Numbers -> 0 .. Idle] /\ wire'[n] = Idle
      /\ \A m \in Numbers : m # n => wire'[m] = wire[m]
  BY <1>1, <1>t DEF InTypes, Idle
<1>7. InTypes'
  BY <1>1, <1>4, <1>5, <1>6, <1>t DEF InTypes
<1>8. \A m \in Numbers : m # n => Same(m)
  BY <1>1, <1>a, <1>4, <1>5, <1>6 DEF Same
<1>9. n \in unsure' \/ InOrder(n)'
  <2>1. SUFFICES ASSUME n \notin unsure PROVE InOrder(n)'
    BY <1>1
  <2>2. /\ wire[n] = sent[n] /\ queued[n] = 0 /\ Range(seen[n]) \cup lost[n] = 1 .. sent[n] - 1
        /\ 1 .. sent[n] = (1 .. sent[n] - 1) \cup {sent[n]}
        /\ \A q \in 1 .. sent[n] - 1 : q < sent[n]
    BY <1>1, <2>1, OnTheWire
  <2>3. \A i, j \in DOMAIN seen[n] : i < j => seen[n][i] < seen[n][j]
    BY <2>1, StateOf
  <2>4. Range(seen[n]) \cap lost[n] = {}
    BY <2>1, StateOf
  <2>5. \A i, j \in DOMAIN seen'[n] : i < j => seen'[n][i] < seen'[n][j]
    <3>1. \A q \in Range(seen[n]) : q < wire[n]
      BY <2>2
    <3> QED
      BY <1>2, <1>3, <1>4, <2>3, <3>1, SeenFacts
  <2>6. Range(seen'[n]) = Range(seen[n]) \cup {sent[n]}
    BY <1>3, <1>4, <2>2
  <2>7. sent[n] \notin lost[n]
    <3>1. sent[n] \notin 1 .. sent[n] - 1
      BY <1>t DEF InTypes
    <3> QED
      BY <2>2, <3>1
  <2>8. Range(seen'[n]) \cap lost'[n] = {}
    BY <1>1, <2>4, <2>6, <2>7
  <2>9. AtRest(n)'
    BY <1>1, <1>5, <1>6, <2>2, <2>6 DEF AtRest
  <2> QED
    BY <2>5, <2>8, <2>9 DEF InOrder
<1> QED
  BY <1>1, <1>7, <1>8, <1>9, Others DEF PacketInv

(* The transfer fails: the packet on the wire, and no other, is lost.      *)
LEMMA HostRefusesKeeps ==
    ASSUME PacketInv, NEW n \in Numbers, HostRefuses(n)
    PROVE  InTypes' /\ AllInOrder'
<1>t. InTypes /\ MaxPackets \in Nat
  BY GadgetAssumption DEF PacketInv
<1>1. /\ wire[n] # Idle /\ status' = [status EXCEPT ![n] = "error"]
      /\ wire' = [wire EXCEPT ![n] = Idle] /\ lost' = [lost EXCEPT ![n] = @ \cup ({wire[n]} \ {NULL})]
      /\ UNCHANGED <<buf, queued, sent, seen, unsure>>
  BY DEF HostRefuses
<1>a. UNCHANGED <<active, writing>>
  BY DEF HostRefuses
<1>2. {wire[n]} \ {NULL} \subseteq 1 .. MaxPackets
  BY <1>1, <1>t DEF InTypes, Idle, NULL
<1>3. /\ lost' \in [Numbers -> SUBSET (1 .. MaxPackets)] /\ lost'[n] = lost[n] \cup ({wire[n]} \ {NULL})
      /\ \A m \in Numbers : m # n => lost'[m] = lost[m]
  BY <1>1, <1>2, <1>t DEF InTypes
<1>5. /\ status' \in [Numbers -> {"none", "inprogress", "done", "zero", "error"}]
      /\ status'[n] # "inprogress" /\ \A m \in Numbers : m # n => status'[m] = status[m]
  BY <1>1, <1>t DEF InTypes
<1>6. /\ wire' \in [Numbers -> 0 .. Idle] /\ wire'[n] = Idle
      /\ \A m \in Numbers : m # n => wire'[m] = wire[m]
  BY <1>1, <1>t DEF InTypes, Idle
<1>7. InTypes'
  BY <1>1, <1>3, <1>5, <1>6, <1>t DEF InTypes
<1>8. \A m \in Numbers : m # n => Same(m)
  BY <1>1, <1>a, <1>3, <1>5, <1>6 DEF Same
<1>9. n \in unsure' \/ InOrder(n)'
  <2>1. SUFFICES ASSUME n \notin unsure PROVE InOrder(n)'
    BY <1>1
  <2>2. /\ wire[n] = sent[n] /\ sent[n] > 0 /\ queued[n] = 0
        /\ Range(seen[n]) \cup lost[n] = 1 .. sent[n] - 1
        /\ 1 .. sent[n] = (1 .. sent[n] - 1) \cup {sent[n]}
    BY <1>1, <2>1, OnTheWire
  <2>3. lost'[n] = lost[n] \cup {sent[n]}
    BY <1>3, <1>t, <2>2 DEF InTypes, NULL
  <2>4. sent[n] \notin Range(seen[n])
    <3>1. sent[n] \notin 1 .. sent[n] - 1
      BY <1>t DEF InTypes
    <3> QED
      BY <2>2, <3>1
  <2>5. AtRest(n)'
    BY <1>1, <1>5, <1>6, <2>2, <2>3 DEF AtRest
  <2> QED
    BY <1>1, <2>1, <2>3, <2>4, <2>5, StateOf DEF InOrder
<1> QED
  BY <1>1, <1>7, <1>8, <1>9, Others DEF PacketInv

(* A session that ends, or a reset of the proxy.                           *)
LEMMA EndKeeps == PacketInv /\ (Disconnect \/ Reset) => InTypes' /\ AllInOrder'
<1> SUFFICES ASSUME PacketInv, Disconnect \/ Reset PROVE InTypes' /\ AllInOrder'
  OBVIOUS
<1>t. InTypes /\ MaxPackets \in Nat
  BY GadgetAssumption DEF PacketInv
<1>1. /\ buf' = All(NULL) /\ status' = All("none") /\ queued' = All(0) /\ wire' = All(Idle)
  BY DEF Disconnect, Reset, CloseEndpoints
<1>2. /\ buf' \in [Numbers -> 0 .. MaxPackets] /\ wire' \in [Numbers -> 0 .. Idle]
      /\ status' \in [Numbers -> {"none", "inprogress", "done", "zero", "error"}]
      /\ queued' \in [Numbers -> 0 .. MaxPackets]
      /\ \A m \in Numbers : queued'[m] = 0 /\ wire'[m] = Idle /\ status'[m] = "none"
  BY <1>1, <1>t DEF All, Idle, NULL
<1>3. CASE Disconnect
  <2>1. sent' = All(0) /\ seen' = All(<<>>) /\ lost' = All({}) /\ unsure' = {}
    BY <1>3 DEF Disconnect, NoRelaying
  <2>2. /\ sent' \in [Numbers -> 0 .. MaxPackets] /\ seen' \in [Numbers -> Seq(0 .. MaxPackets)]
        /\ lost' \in [Numbers -> SUBSET (1 .. MaxPackets)]
        /\ \A m \in Numbers : sent'[m] = 0 /\ seen'[m] = <<>> /\ lost'[m] = {}
    BY <2>1, <1>t DEF All
  <2>3. InTypes'
    BY <1>2, <2>1, <2>2 DEF InTypes
  <2>4. ASSUME NEW m \in Numbers PROVE InOrder(m)'
    <3>1. Range(seen'[m]) = {} /\ lost'[m] = {}
      BY <2>2 DEF Range
    <3>2. 1 .. sent'[m] = {}
      BY <2>2
    <3>3. AtRest(m)'
      BY <1>2, <3>1, <3>2 DEF AtRest
    <3> QED
      BY <2>2, <3>1, <3>3 DEF InOrder
  <2> QED
    BY <2>3, <2>4 DEF AllInOrder
<1>4. CASE Reset
  <2>1. UNCHANGED <<sent, seen, lost>> /\ unsure' = Numbers
    BY <1>4 DEF Reset, relayVars
  <2>2. \A m \in Numbers : queued'[m] <= sent'[m]
    BY <1>2, <2>1, <1>t DEF InTypes
  <2>3. InTypes'
    BY <1>2, <2>1, <2>2, <1>t DEF InTypes
  <2> QED
    BY <2>1, <2>3 DEF AllInOrder
<1> QED
  BY <1>3, <1>4

(* Every step keeps the packets of every endpoint that is sure in order.   *)
LEMMA NextPackets == PacketInv /\ [Next]_vars => PacketInv'
<1> SUFFICES ASSUME PacketInv, [Next]_vars PROVE PacketInv'
  OBVIOUS
<1>f. InFlags'
  BY NextFlags DEF PacketInv
<1>u. ASSUME UNCHANGED <<active, writing, buf, wire, status, queued, sent, seen, lost, unsure>>
      PROVE  InTypes' /\ AllInOrder'
  <2>1. UNCHANGED <<buf, wire, status, queued, sent, seen, lost, unsure>> /\ InTypes
    BY <1>u DEF PacketInv
  <2>2. InTypes'
    BY ONLY <2>1 DEF InTypes
  <2>3. \A m \in Numbers : Same(m)
    BY <1>u DEF Same
  <2>4. AllInOrder'
    BY <1>u, <2>3, SameInOrder DEF PacketInv, AllInOrder
  <2> QED
    BY <2>2, <2>4
<1> USE DEF inVars, relayVars, histVars
<1>1. CASE Connect \/ SetConfig \/ HostSetup \/ HostEvent \/ ControlRequest \/ AnswerControl
  BY <1>1, <1>f, <1>u DEF Connect, SetConfig, HostSetup, HostEvent, ControlRequest, AnswerControl,
                          PacketInv
<1>2. CASE Disconnect \/ Reset
  BY <1>2, <1>f, EndKeeps DEF PacketInv
<1>3. ASSUME NEW n \in Numbers,
             SendData(n) \/ SendWait(n) \/ AioStart(n) \/ HostTakes(n) \/ HostRefuses(n)
      PROVE  PacketInv'
  BY <1>3, <1>f, SendDataKeeps, SendWaitKeeps, AioStartKeeps, HostTakesKeeps, HostRefusesKeeps
  DEF PacketInv
<1>4. ASSUME NEW n \in Numbers, HostSends(n) \/ ReceiveData(n)
      PROVE  PacketInv'
  BY <1>4, <1>f, <1>u DEF HostSends, ReceiveData, PacketInv
<1>5. CASE UNCHANGED vars
  BY <1>5, <1>f, <1>u DEF vars, PacketInv
<1> QED
  BY <1>1, <1>2, <1>3, <1>4, <1>5 DEF Next

(* No packet has been sent.                                                *)
LEMMA InitPackets == Init => PacketInv
<1> SUFFICES ASSUME Init PROVE PacketInv
  OBVIOUS
<1>1. InFlags
  BY DEF Init, InFlags, All
<1>2. /\ buf = All(NULL) /\ status = All("none") /\ queued = All(0) /\ wire = All(Idle)
      /\ sent = All(0) /\ seen = All(<<>>) /\ lost = All({}) /\ unsure = {}
  BY DEF Init
<1>3. InTypes
  BY ONLY <1>2, GadgetAssumption DEF InTypes, All, Idle, NULL
<1>4. ASSUME NEW m \in Numbers PROVE InOrder(m)
  <2>1. Range(seen[m]) = {} /\ lost[m] = {} /\ seen[m] = <<>>
    BY <1>2 DEF Range, All
  <2>2. 1 .. sent[m] = {}
    BY <1>2 DEF All
  <2>3. AtRest(m)
    BY <1>2, <2>1, <2>2 DEF AtRest, All
  <2> QED
    BY <2>1, <2>3 DEF InOrder
<1> QED
  BY <1>1, <1>3, <1>4 DEF PacketInv, AllInOrder

(* A packet the writer believes sent has reached the host once and in      *)
(* order, or its own request failed, for as long as nothing timed out.     *)
THEOREM PacketsSentOnce == Spec => []SentOnce
<1>1. PacketInv => SentOnce
  <2> SUFFICES ASSUME PacketInv, NEW n \in Numbers \ unsure
               PROVE  /\ \A i, j \in DOMAIN seen[n] : i < j => seen[n][i] < seen[n][j]
                      /\ Range(seen[n]) \cap lost[n] = {}
                      /\ Range(seen[n]) \cup lost[n]
                            \in {1 .. sent[n], 1 .. IF writing[n] THEN sent[n] - 1 ELSE sent[n]}
    BY DEF SentOnce
  <2>1. CASE AtRest(n)
    BY <2>1, StateOf DEF AtRest
  <2>2. CASE OnItsWay(n)
    <3>1. writing[n] /\ Range(seen[n]) \cup lost[n] = 1 .. sent[n] - 1
      BY <2>2 DEF OnItsWay
    <3> QED
      BY <3>1, StateOf
  <2> QED
    BY <2>1, <2>2, StateOf
<1> QED
  BY <1>1, InitPackets, NextPackets, PTL DEF Spec

-----------------------------------------------------------------------------
(* The remaining types *)

(* The path and the device file.                                           *)
LEMMA NextLink == LinkTypes /\ [Next]_vars => LinkTypes'
<1> SUFFICES ASSUME LinkTypes, [Next]_vars PROVE LinkTypes'
  OBVIOUS
<1> USE DEF LinkTypes, mountVars, linkVars
<1>1. CASE Connect
  BY <1>1 DEF Connect, FindGadget, MountGadget, OpenGadget
<1>2. CASE Disconnect \/ Reset
  BY <1>2 DEF Disconnect, Reset, UnmountGadget, OpenGadget
<1>3. CASE HostSetup \/ HostEvent \/ ControlRequest \/ SetConfig \/ AnswerControl
  BY <1>3 DEF HostSetup, HostEvent, ControlRequest, SetConfig, AnswerControl
<1>4. ASSUME NEW n \in Numbers,
             \/ SendData(n) \/ SendWait(n) \/ AioStart(n) \/ HostTakes(n) \/ HostRefuses(n)
             \/ HostSends(n) \/ ReceiveData(n)
      PROVE  LinkTypes'
  BY <1>4 DEF SendData, SendWait, AioStart, HostTakes, HostRefuses, HostSends, ReceiveData, Unchanged
<1>5. CASE UNCHANGED vars
  BY <1>5 DEF vars
<1> QED
  BY <1>1, <1>2, <1>3, <1>4, <1>5 DEF Next

(* What the proxy and Manager know of the session.                         *)
LEMMA NextLinkFlags == LinkFlags /\ [Next]_vars => LinkFlags'
<1> SUFFICES ASSUME LinkFlags, [Next]_vars PROVE LinkFlags'
  OBVIOUS
<1> USE DEF LinkFlags, mountVars, linkVars, relayVars, controlVars
<1>1. CASE Connect
  <2>1. mounted' \in BOOLEAN
    BY <1>1 DEF Connect, FindGadget, MountGadget
  <2>2. connected' \in BOOLEAN /\ descriptor' \in BOOLEAN /\ UNCHANGED <<relaying, configured>>
    BY <1>1 DEF Connect, OpenGadget
  <2> QED
    BY <2>1, <2>2
<1>2. CASE Disconnect
  <2>1. mounted' \in BOOLEAN
    BY <1>2 DEF Disconnect, UnmountGadget
  <2>2. connected' = FALSE /\ configured' = FALSE /\ relaying' = FALSE /\ UNCHANGED descriptor
    BY <1>2 DEF Disconnect, EndControl, NoRelaying
  <2> QED
    BY <2>1, <2>2
<1>3. CASE Reset
  <2>1. mounted' \in BOOLEAN /\ configured' = FALSE /\ UNCHANGED <<descriptor, relaying>>
    BY <1>3 DEF Reset, EndControl
  <2>2. connected' \in BOOLEAN
    BY <1>3 DEF Reset, OpenGadget
  <2> QED
    BY <2>1, <2>2
<1>4. CASE SetConfig
  BY <1>4 DEF SetConfig
<1>5. CASE ControlRequest
  <2>1. UNCHANGED <<mounted, connected, descriptor, relaying>>
    BY <1>5 DEF ControlRequest
  <2>2. UNCHANGED configured \/ configured' = FALSE
    BY <1>5 DEF ControlRequest
  <2> QED
    BY <2>1, <2>2
<1>6. CASE HostSetup \/ HostEvent \/ AnswerControl
  BY <1>6 DEF HostSetup, HostEvent, AnswerControl
<1>7. ASSUME NEW n \in Numbers,
             \/ SendData(n) \/ SendWait(n) \/ AioStart(n) \/ HostTakes(n) \/ HostRefuses(n)
             \/ HostSends(n) \/ ReceiveData(n)
      PROVE  LinkFlags'
  BY <1>7 DEF SendData, SendWait, AioStart, HostTakes, HostRefuses, HostSends, ReceiveData, Unchanged
<1>8. CASE UNCHANGED vars
  BY <1>8 DEF vars
<1> QED
  BY <1>1, <1>2, <1>3, <1>4, <1>5, <1>6, <1>7, <1>8 DEF Next

(* No bound is passed.                                                     *)
LEMMA NextBound == BoundTypes /\ [Next]_vars => BoundTypes'
<1> SUFFICES ASSUME BoundTypes, [Next]_vars PROVE BoundTypes'
  OBVIOUS
<1>a. MaxSessions \in Nat /\ MaxFaults \in Nat
  BY GadgetAssumption
<1>1. \/ UNCHANGED sessions
      \/ sessions < MaxSessions /\ sessions' = sessions + 1
  BY DEF Next, Connect, Disconnect, Reset, HostSetup, HostEvent, ControlRequest, SetConfig,
         AnswerControl, SendData, SendWait, AioStart, HostTakes, HostRefuses, HostSends, ReceiveData,
         Unchanged, histVars, vars
<1>2. \/ UNCHANGED faults
      \/ faults < MaxFaults /\ faults' = faults + 1
  BY DEF Next, Connect, Disconnect, Reset, HostSetup, HostEvent, ControlRequest, SetConfig,
         AnswerControl, SendData, SendWait, AioStart, HostTakes, HostRefuses, HostSends, ReceiveData,
         histVars, vars
<1> QED
  BY <1>a, <1>1, <1>2 DEF BoundTypes

(* receive_data() returns each packet of the host once.                    *)
LEMMA NextOut == OutTypes /\ [Next]_vars => OutTypes'
<1> SUFFICES ASSUME OutTypes, [Next]_vars PROVE OutTypes'
  OBVIOUS
<1>a. MaxPackets \in Nat
  BY GadgetAssumption
<1> USE DEF outVars, relayVars
<1>u. ASSUME UNCHANGED <<ostatus, hostSent, received>> PROVE OutTypes'
  BY <1>u DEF OutTypes
<1>1. CASE Connect \/ HostSetup \/ HostEvent \/ ControlRequest \/ AnswerControl
  BY <1>1, <1>u DEF Connect, HostSetup, HostEvent, ControlRequest, AnswerControl
<1>2. CASE Disconnect
  <2>1. ostatus' = All("none") /\ hostSent' = All(0) /\ received' = All(0)
    BY <1>2 DEF Disconnect, CloseEndpoints, NoRelaying
  <2> QED
    BY ONLY <1>a, <2>1 DEF OutTypes, All
<1>3. CASE Reset
  <2>1. ostatus' = All("none") /\ UNCHANGED <<hostSent, received>>
    BY <1>3 DEF Reset, CloseEndpoints
  <2> QED
    BY <2>1 DEF OutTypes, All
<1>4. CASE SetConfig
  <2>1. PICK some \in SUBSET Numbers :
          ostatus' = [n \in Numbers |-> IF n \in some THEN "inprogress" ELSE ostatus[n]]
    <3>1. PICK k \in 0 .. Len(layout), refused \in SUBSET Numbers :
            LET opened == {layout[i] : i \in 1 .. k}
                outs == {e.number : e \in {o \in opened : ~o.in}}
            IN ostatus' = [n \in Numbers |-> IF n \in outs \ refused THEN "inprogress" ELSE ostatus[n]]
      BY <1>4 DEF SetConfig
    <3> DEFINE opened == {layout[i] : i \in 1 .. k}
               outs == {e.number : e \in {o \in opened : ~o.in}}
               some == Numbers \cap (outs \ refused)
    <3>2. ostatus' = [n \in Numbers |-> IF n \in outs \ refused THEN "inprogress" ELSE ostatus[n]]
      BY <3>1
    <3> HIDE DEF outs
    <3>3. ostatus' = [n \in Numbers |-> IF n \in some THEN "inprogress" ELSE ostatus[n]]
      BY <3>2
    <3> QED
      BY <3>3
  <2>2. UNCHANGED <<hostSent, received>>
    BY <1>4 DEF SetConfig
  <2> QED
    BY <2>1, <2>2 DEF OutTypes
<1>5. ASSUME NEW n \in Numbers, HostSends(n) PROVE OutTypes'
  <2>1. ostatus[n] = "inprogress" /\ hostSent[n] < MaxPackets /\ UNCHANGED received
    BY <1>5 DEF HostSends
  <2>2. CASE hostSent' = [hostSent EXCEPT ![n] = @ + 1] /\ ostatus' = [ostatus EXCEPT ![n] = "done"]
    BY <1>a, <2>1, <2>2 DEF OutTypes
  <2>3. CASE ostatus' = [ostatus EXCEPT ![n] = "error"] /\ UNCHANGED hostSent
    BY <1>a, <2>1, <2>3 DEF OutTypes
  <2> QED
    BY <1>5, <2>2, <2>3 DEF HostSends
<1>6. ASSUME NEW n \in Numbers, ReceiveData(n) PROVE OutTypes'
  <2>1. /\ ostatus[n] = "done" /\ UNCHANGED hostSent /\ received' = [received EXCEPT ![n] = @ + 1]
        /\ \E o \in {"inprogress", "none"} : ostatus' = [ostatus EXCEPT ![n] = o]
    BY <1>6 DEF ReceiveData
  <2> QED
    BY <1>a, <2>1 DEF OutTypes
<1>7. ASSUME NEW n \in Numbers,
             SendData(n) \/ SendWait(n) \/ AioStart(n) \/ HostTakes(n) \/ HostRefuses(n)
      PROVE  OutTypes'
  BY <1>7, <1>u DEF SendData, SendWait, AioStart, HostTakes, HostRefuses
<1>8. CASE UNCHANGED vars
  BY <1>8, <1>u DEF vars
<1> QED
  BY <1>1, <1>2, <1>3, <1>4, <1>5, <1>6, <1>7, <1>8 DEF Next

(* Types, and no endpoint with more requests than packets.                 *)
THEOREM TypeCorrect == Spec => []TypeOK
<1> DEFINE Types == /\ LinkTypes /\ LinkFlags /\ BoundTypes /\ OutTypes
                    /\ Files /\ ControlInv /\ PacketInv
<1>1. Init => Types
  <2> SUFFICES ASSUME Init PROVE Types
    OBVIOUS
  <2>1. LinkTypes /\ LinkFlags
    BY DEF Init, LinkTypes, LinkFlags
  <2>2. BoundTypes
    BY GadgetAssumption DEF Init, BoundTypes
  <2>3. OutTypes
    <3>1. ostatus = All("none") /\ hostSent = All(0) /\ received = All(0)
      BY DEF Init
    <3> QED
      BY ONLY <3>1, GadgetAssumption DEF OutTypes, All
  <2> QED
    BY <2>1, <2>2, <2>3, InitFiles, InitControl, InitPackets
<1>2. Types /\ [Next]_vars => Types'
  BY NextLink, NextLinkFlags, NextBound, NextOut, NextFiles, NextControl, NextPackets
<1>3. Types => TypeOK
  BY DEF LinkTypes, LinkFlags, BoundTypes, OutTypes, Files, FileTypes, Endpoints, ControlInv,
         ControlTypes, PacketInv, InFlags, InTypes, TypeOK
<1> QED
  BY <1>1, <1>2, <1>3, PTL DEF Spec
================================================================================
