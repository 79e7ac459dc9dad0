----------------------------- MODULE LibUSBProofs -----------------------------
(***************************************************************************)
(* Theorems about LibUSB: its types, that the flags of epInterfaces can be *)
(* relied on, that the descriptors it gives the host read back as the      *)
(* device model, and that the gadget's polling rates are converted where   *)
(* they are and nowhere else.  They hold for any set of devices, with any number of     *)
(* descriptors in any order, any filter and any number of sessions.        *)
(***************************************************************************)
EXTENDS LibUSB, WellFoundedInduction, SequenceTheorems, TLAPS

-----------------------------------------------------------------------------
(* The invariant *)

Running == {"claim", "control", "claimData", "data", "release"}

(* The model of device d with configuration k active.                      *)
Model(d, k) == [BuildDevice(d) EXCEPT !.active = k]

(* While a session runs, the Manager's device is the model of the device   *)
(* that was read, with one of its configurations active.                   *)
ModelOK ==
    phase \in Running => \E k \in DOMAIN device.configurations : model = <<Model(device, k)>>

(* Whenever there is a device model, also where a session ends or the      *)
(* program does, it is that of the device.                                 *)
ModelKept == model # Null => \E k : model = <<Model(device, k)>>

Single == Len(device.configurations) = 1

(* What is relayed of the only configuration, and the interface each       *)
(* number's last endpoint is in.                                           *)
Table == Relayed(ParseConfiguration(device.configurations[1]))
Interface(n) == Table[Max(WithNumber(Table, n))].ifc.desc.number

(* Once an entry of epInterfaces is defined it says the same in every      *)
(* session.                                                                *)
EntriesOK ==
    \A n \in Slots : ep[n].defined => WithNumber(Table, n) # {} /\ ep[n].interface = Interface(n)

(* An entry is marked claimed only while the interface it names is held;   *)
(* stop_relaying() clears those below next and has cleared all when it     *)
(* disconnects.                                                            *)
ClaimsOK ==
    \A n \in Slots : ep[n].claimed =>
        /\ ep[n].defined /\ ep[n].interface \in held
        /\ ep[n].interface < device.configurations[1].bNumInterfaces
        /\ phase \in Running \cup {"crashed"}
        /\ phase = "release" => next <= ep[n].interface

(* While data may be relayed, the endpoints are those of the table and all *)
(* of them have an entry.                                                  *)
RelayedOK ==
    phase \in {"claimData", "data"} =>
        /\ endpoints = Endpoints(Table)
        /\ \A n \in Slots : WithNumber(Table, n) # {} => ep[n].defined

(* The last transfer is one of the current session.                        *)
TransferOK ==
    /\ phase \notin {"data", "release", "disconnect"} => transfer = NoTransfer
    /\ ~SharedSlot => transfer.held

FlagsOK == EntriesOK /\ ClaimsOK /\ RelayedOK /\ TransferOK

Inv == TypeOK /\ ModelOK /\ (released /\ Single => FlagsOK)

-----------------------------------------------------------------------------
(* Lemmas about the operators *)

(* Induction up to n, for a set.                                           *)
LEMMA UpTo ==
    ASSUME NEW n \in Nat, NEW S, 0 \in S, \A m \in 0 .. n - 1 : m \in S => m + 1 \in S
    PROVE  \A m \in 0 .. n : m \in S
<1> DEFINE D == {m \in 0 .. n : m \notin S}
           R == {ss \in Nat \X Nat : ss[1] < ss[2]}
<1>1. SUFFICES ASSUME D # {} PROVE FALSE
  OBVIOUS
<1>2. D \subseteq Nat
  OBVIOUS
<1>3. IsWellFoundedOn(R, Nat)
  BY NatLessThanWellFounded DEF OpToRel
<1>4. PICK m \in D : \A y \in D : <<y, m>> \notin R
  <2> HIDE DEF D, R
  <2> QED
    BY <1>1, <1>2, <1>3, WFMin
<1>5. m \in 1 .. n /\ m - 1 \in 0 .. n - 1 /\ m \notin S
  BY <1>4
<1>6. m - 1 \in S
  <2>1. <<m - 1, m>> \in R /\ m - 1 \in 0 .. n
    BY <1>5
  <2>2. m - 1 \notin D
    BY <1>4, <2>1, Zenon
  <2> QED
    BY <2>1, <2>2
<1> QED
  BY <1>5, <1>6

(* n steps on values in V, and what is reached from v by them.             *)
Steps(V, n) == [1 .. n -> [V -> V]]
IsRun(f, st, v, V, n) == f \in [0 .. n -> V] /\ f[0] = v /\ \A i \in 1 .. n : f[i] = st[i][f[i - 1]]

(* The recursion that a step function describes has a solution.            *)
LEMMA Recursion ==
    ASSUME NEW V, NEW n \in Nat, NEW v \in V, NEW st \in Steps(V, n)
    PROVE  \E f : IsRun(f, st, v, V, n)
<1> USE DEF Steps, IsRun
<1> DEFINE Solves(f, m) == f[0] = v /\ \A i \in 1 .. m : f[i] = st[i][f[i - 1]]
           S == {m \in 0 .. n : \E f \in [0 .. m -> V] : Solves(f, m)}
<1>1. 0 \in S
  <2> DEFINE f == [i \in 0 .. 0 |-> v]
  <2>1. f \in [0 .. 0 -> V] /\ Solves(f, 0) /\ 0 \in 0 .. n
    OBVIOUS
  <2> HIDE DEF f
  <2> QED
    BY <2>1
<1>2. ASSUME NEW m \in 0 .. n - 1, m \in S PROVE m + 1 \in S
  <2>1. PICK f \in [0 .. m -> V] : Solves(f, m)
    BY <1>2
  <2> DEFINE g == [i \in 0 .. m + 1 |-> IF i <= m THEN f[i] ELSE st[m + 1][f[m]]]
  <2>2. m + 1 \in 1 .. n /\ m \in 0 .. m /\ m + 1 \in 0 .. n
    OBVIOUS
  <2>3. st[m + 1][f[m]] \in V
    BY <2>2
  <2>4. g \in [0 .. m + 1 -> V]
    BY <2>3
  <2>5. g[0] = v
    BY <2>1
  <2>6. ASSUME NEW i \in 1 .. m + 1 PROVE g[i] = st[i][g[i - 1]]
    <3>1. CASE i <= m
      BY <2>1, <3>1
    <3>2. CASE i = m + 1
      BY <2>2, <3>2
    <3> QED
      BY <3>1, <3>2
  <2> HIDE DEF g
  <2>7. Solves(g, m + 1)
    BY <2>5, <2>6
  <2> QED
    BY <2>2, <2>4, <2>7
<1> HIDE DEF S
<1>3. \A m \in 0 .. n : m \in S
  BY <1>1, <1>2, UpTo, Zenon
<1>4. n \in S
  BY <1>3
<1> QED
  BY <1>4 DEF S

(* A set of positions that is not empty has a last one, and Max finds it.  *)
LEMMA MaxOfPositions ==
    ASSUME NEW n \in Nat, NEW T, T \subseteq 1 .. n, T # {}
    PROVE  Max(T) \in T /\ \A j \in T : j <= Max(T)
<1> DEFINE D == {n - j : j \in T}
           R == {ss \in Nat \X Nat : ss[1] < ss[2]}
<1>1. D \subseteq Nat
  OBVIOUS
<1>2. D # {}
  OBVIOUS
<1>3. IsWellFoundedOn(R, Nat)
  BY NatLessThanWellFounded DEF OpToRel
<1>4. PICK m \in D : \A y \in D : <<y, m>> \notin R
  <2> HIDE DEF D, R
  <2> QED
    BY <1>1, <1>2, <1>3, WFMin
<1>5. PICK k \in T : m = n - k
  BY <1>4
<1>6. \A j \in T : k >= j
  <2> TAKE j \in T
  <2>1. n - j \in D /\ n - j \in Nat /\ m \in Nat
    BY <1>1, <1>4
  <2>2. ~(n - j < m)
    BY <2>1, <1>4
  <2> QED
    BY <2>1, <2>2, <1>5
<1> QED
  BY <1>5, <1>6 DEF Max

(* A prefix of the positions, and its last one.                            *)
LEMMA LastPosition ==
    ASSUME NEW m \in Nat
    PROVE  /\ \A s \in SUBSET (1 .. m) : s # {} => Max(s) \in s /\ s \ {Max(s)} \in SUBSET (1 .. m - 1)
           /\ \A s \in SUBSET (1 .. m) : m \in s => Max(s) = m
           /\ m # 0 => 1 .. m # {} /\ Max(1 .. m) = m /\ (1 .. m) \ {m} = 1 .. m - 1
<1>1. ASSUME NEW s \in SUBSET (1 .. m), s # {}
      PROVE  Max(s) \in s /\ \A j \in s : j <= Max(s)
  BY <1>1, MaxOfPositions
<1>2. ASSUME NEW s \in SUBSET (1 .. m), s # {}
      PROVE  s \ {Max(s)} \in SUBSET (1 .. m - 1)
  <2> DEFINE k == Max(s)
  <2>1. k \in 1 .. m /\ \A j \in s : j \in 1 .. m /\ j <= k
    BY <1>1, <1>2
  <2> HIDE DEF k
  <2>2. \A j \in s \ {k} : j \in 1 .. m - 1
    BY <2>1
  <2> QED
    BY <2>2 DEF k
<1>3. ASSUME NEW s \in SUBSET (1 .. m), m \in s
      PROVE  Max(s) = m
  <2> DEFINE k == Max(s)
  <2>1. k \in 1 .. m /\ m <= k
    BY <1>1, <1>3
  <2> HIDE DEF k
  <2> QED
    BY <2>1 DEF k
<1>4. m # 0 => 1 .. m # {} /\ (1 .. m) \ {m} = 1 .. m - 1 /\ m \in 1 .. m
  OBVIOUS
<1> QED
  BY <1>1, <1>2, <1>3, <1>4

(* The recursion of the community module's folds, which is over the sets   *)
(* of positions, last one first.                                           *)
IsFold(g, st, v, V, n) ==
    /\ g \in [SUBSET (1 .. n) -> V]
    /\ \A s \in SUBSET (1 .. n) : g[s] = IF s = {} THEN v ELSE st[Max(s)][g[s \ {Max(s)}]]

(* It has a solution.                                                      *)
LEMMA FoldRecursion ==
    ASSUME NEW V, NEW n \in Nat, NEW v \in V, NEW st \in Steps(V, n)
    PROVE  \E g : IsFold(g, st, v, V, n)
<1> USE DEF Steps, IsFold
<1> DEFINE Solves(g, m) ==
             \A s \in SUBSET (1 .. m) : g[s] = IF s = {} THEN v ELSE st[Max(s)][g[s \ {Max(s)}]]
           S == {m \in 0 .. n : \E g \in [SUBSET (1 .. m) -> V] : Solves(g, m)}
<1>1. 0 \in S
  <2> DEFINE g == [s \in SUBSET (1 .. 0) |-> v]
  <2>1. g \in [SUBSET (1 .. 0) -> V] /\ Solves(g, 0)
    <3>1. \A s \in SUBSET (1 .. 0) : s = {}
      OBVIOUS
    <3> QED
      BY <3>1
  <2>2. 0 \in 0 .. n
    OBVIOUS
  <2> HIDE DEF g
  <2> QED
    BY <2>1, <2>2
<1>2. ASSUME NEW m \in 0 .. n - 1, m \in S PROVE m + 1 \in S
  <2>1. PICK g \in [SUBSET (1 .. m) -> V] : Solves(g, m)
    BY <1>2
  <2> DEFINE h == [s \in SUBSET (1 .. m + 1) |->
                     IF m + 1 \in s THEN st[m + 1][g[s \ {m + 1}]] ELSE g[s]]
  <2>2. m + 1 \in 1 .. n /\ m + 1 \in 0 .. n /\ m \in Nat /\ m + 1 \in Nat
    OBVIOUS
  <2>3. ASSUME NEW s \in SUBSET (1 .. m + 1)
        PROVE  (m + 1 \in s => s \ {m + 1} \in SUBSET (1 .. m)) /\ (m + 1 \notin s => s \in SUBSET (1 .. m))
    OBVIOUS
  <2>4. h \in [SUBSET (1 .. m + 1) -> V]
    BY <2>2, <2>3
  <2>5. ASSUME NEW s \in SUBSET (1 .. m)
        PROVE  h[s] = g[s]
    <3>1. s \in SUBSET (1 .. m + 1) /\ m + 1 \notin s
      OBVIOUS
    <3> QED
      BY <3>1
  <2>6. ASSUME NEW s \in SUBSET (1 .. m + 1)
        PROVE  h[s] = IF s = {} THEN v ELSE st[Max(s)][h[s \ {Max(s)}]]
    <3>1. CASE m + 1 \in s
      <4>1. Max(s) = m + 1
        BY <2>2, <3>1, LastPosition
      <4>2. h[s] = st[m + 1][g[s \ {m + 1}]] /\ h[s \ {m + 1}] = g[s \ {m + 1}]
        BY <2>3, <2>5, <3>1
      <4> QED
        BY <3>1, <4>1, <4>2
    <3>2. CASE m + 1 \notin s
      <4>1. s \in SUBSET (1 .. m) /\ h[s] = g[s]
        BY <2>3, <3>2
      <4>2. CASE s = {}
        BY <2>1, <4>1, <4>2
      <4>3. CASE s # {}
        <5>1. s \ {Max(s)} \in SUBSET (1 .. m)
          BY <4>1
        <5>2. g[s] = st[Max(s)][g[s \ {Max(s)}]]
          BY <2>1, <4>1, <4>3
        <5> QED
          BY <2>5, <4>1, <4>3, <5>1, <5>2
      <4> QED
        BY <4>2, <4>3
    <3> QED
      BY <3>1, <3>2
  <2> HIDE DEF h
  <2>7. Solves(h, m + 1)
    BY <2>6
  <2> QED
    BY <2>2, <2>4, <2>7
<1> HIDE DEF S
<1>3. \A m \in 0 .. n : m \in S
  BY <1>1, <1>2, UpTo, Zenon
<1>4. n \in S
  BY <1>3
<1> QED
  BY <1>4 DEF S

(* Every value of a fold is of a type that its steps keep.                 *)
LEMMA FoldType ==
    ASSUME NEW V, NEW n \in Nat, NEW g,
           \A s \in SUBSET (1 .. n) : s # {} /\ g[s \ {Max(s)}] \in V => g[s] \in V,
           g[{}] \in V
    PROVE  \A s \in SUBSET (1 .. n) : g[s] \in V
<1> DEFINE S == {m \in 0 .. n : \A s \in SUBSET (1 .. m) : g[s] \in V}
<1>1. 0 \in S
  <2>1. 0 \in 0 .. n /\ \A s \in SUBSET (1 .. 0) : s = {}
    OBVIOUS
  <2> QED
    BY <2>1, Zenon
<1>2. ASSUME NEW m \in 0 .. n - 1, m \in S PROVE m + 1 \in S
  <2>1. m + 1 \in Nat /\ m + 1 \in 0 .. n
    OBVIOUS
  <2>2. ASSUME NEW s \in SUBSET (1 .. m + 1), s # {} PROVE g[s] \in V
    <3> DEFINE k == m + 1
    <3>a. k \in Nat /\ s \in SUBSET (1 .. k) /\ k - 1 = m
      BY <2>1
    <3> HIDE DEF k
    <3>0. s \ {Max(s)} \in SUBSET (1 .. k - 1)
      BY <3>a, <2>2, LastPosition, Zenon
    <3>1. s \ {Max(s)} \in SUBSET (1 .. m)
      BY <3>0, <3>a
    <3>2. g[s \ {Max(s)}] \in V
      BY <1>2, <3>1
    <3>3. s \in SUBSET (1 .. n)
      OBVIOUS
    <3> QED
      BY <2>2, <3>2, <3>3
  <2> QED
    BY <2>1, <2>2
<1> HIDE DEF S
<1>3. \A m \in 0 .. n : m \in S
  BY <1>1, <1>2, UpTo, Zenon
<1>4. n \in S
  BY <1>3
<1> QED
  BY <1>4 DEF S

-----------------------------------------------------------------------------
(* A function on the first numbers is a sequence.                          *)
LEMMA FcnIsSeq ==
    ASSUME NEW Y, NEW n \in Nat, NEW f \in [1 .. n -> Y]
    PROVE  f \in Seq(Y)
  OBVIOUS

(* FlattenSeq, one sequence after the other.                               *)
LEMMA FlattenSteps ==
    ASSUME NEW X, NEW seqs \in Seq(Seq(X))
    PROVE  \E F \in [0 .. Len(seqs) -> Seq(X)] :
             /\ F[0] = <<>> /\ \A i \in 1 .. Len(seqs) : F[i] = F[i - 1] \o seqs[i]
             /\ FlattenSeq(seqs) = F[Len(seqs)]
<1> DEFINE n == Len(seqs)
           st == [i \in 1 .. n |-> [v \in Seq(X) |-> v \o seqs[i]]]
           Solves(f) == f = [i \in 1 .. n |-> IF i = 1 THEN seqs[i] ELSE f[i - 1] \o seqs[i]]
<1>1. n \in Nat /\ (\A i \in 1 .. n : seqs[i] \in Seq(X)) /\ <<>> \in Seq(X)
  OBVIOUS
<1>2. st \in [1 .. n -> [Seq(X) -> Seq(X)]]
  BY <1>1
<1> HIDE DEF n
<1>3. PICK G \in [0 .. n -> Seq(X)] : G[0] = <<>> /\ \A i \in 1 .. n : G[i] = st[i][G[i - 1]]
  <2> DEFINE V == Seq(X)
             v == <<>>
  <2>1. n \in Nat /\ v \in V /\ st \in Steps(V, n)
    BY <1>1, <1>2 DEF Steps
  <2> HIDE DEF st, V, v
  <2>2. PICK G : IsRun(G, st, v, V, n)
    BY ONLY <2>1, Recursion, Zenon
  <2> QED
    BY <2>2 DEF V, v, IsRun
<1>4. ASSUME NEW i \in 1 .. n PROVE G[i] = G[i - 1] \o seqs[i]
  <2>1. i - 1 \in 0 .. n
    BY <1>1
  <2>2. G[i - 1] \in Seq(X)
    BY <2>1
  <2>3. st[i] = [v \in Seq(X) |-> v \o seqs[i]]
    OBVIOUS
  <2> QED
    BY <1>3, <2>2, <2>3
<1>0. n # 0 => 1 \in 1 .. n /\ 1 - 1 = 0 /\ G[1] = seqs[1]
  <2>1. n # 0 => 1 \in 1 .. n /\ 1 - 1 = 0
    BY <1>1
  <2>2. n # 0 => G[1] = <<>> \o seqs[1] /\ seqs[1] \in Seq(X)
    BY <1>1, <1>3, <1>4, <2>1
  <2> QED
    BY <2>1, <2>2
<1> HIDE DEF st
<1>5. CASE n = 0
  <2>1. seqs = <<>> /\ FlattenSeq(seqs) = seqs
    BY <1>5 DEF n, FlattenSeq
  <2> QED
    BY <1>3, <1>4, <1>5, <2>1 DEF n
<1>6. CASE n # 0
  <2> DEFINE g == [i \in 1 .. n |-> G[i]]
             f == CHOOSE x : Solves(x)
  <2>1. Solves(g)
    <3>1. ASSUME NEW i \in 1 .. n PROVE g[i] = IF i = 1 THEN seqs[i] ELSE g[i - 1] \o seqs[i]
      <4>1. CASE i = 1
        BY <1>0, <1>6, <4>1
      <4>2. CASE i # 1
        <5>1. i - 1 \in 1 .. n
          BY <1>1, <4>2
        <5> QED
          BY <1>4, <4>2, <5>1
      <4> QED
        BY <4>1, <4>2
    <3> QED
      BY <3>1
  <2> HIDE DEF g
  <2>2. Solves(f)
    BY <2>1, Zenon
  <2>3. FlattenSeq(seqs) = f[n]
    BY <1>6, Zenon DEF FlattenSeq, n
  <2> HIDE DEF f
  <2>4. \A i \in 1 .. n : f[i] = IF i = 1 THEN seqs[i] ELSE f[i - 1] \o seqs[i]
    BY <2>2
  <2> DEFINE S == {m \in 0 .. n : m = 0 \/ f[m] = G[m]}
  <2>5. 0 \in S
    BY <1>1
  <2>6. ASSUME NEW m \in 0 .. n - 1, m \in S PROVE m + 1 \in S
    <3>1. m + 1 \in 1 .. n /\ m + 1 \in 0 .. n
      BY <1>1
    <3>2. CASE m = 0
      <4>1. f[1] = seqs[1] /\ G[1] = seqs[1]
        BY <1>0, <1>6, <2>4
      <4> QED
        BY <3>1, <3>2, <4>1
    <3>3. CASE m # 0
      <4> DEFINE k == m + 1
      <4>1. f[m] = G[m] /\ k \in 1 .. n /\ k # 1 /\ k - 1 = m
        BY <2>6, <3>1, <3>3
      <4> HIDE DEF k
      <4>2. f[k] = f[m] \o seqs[k]
        BY <2>4, <4>1
      <4>3. G[k] = G[m] \o seqs[k]
        BY <1>4, <4>1
      <4> QED
        BY <3>1, <4>1, <4>2, <4>3 DEF k
    <3> QED
      BY <3>2, <3>3
  <2> HIDE DEF S
  <2>7. \A m \in 0 .. n : m \in S
    BY <1>1, <2>5, <2>6, UpTo, Zenon
  <2>8. f[n] = G[n]
    BY <1>1, <1>6, <2>7 DEF S
  <2> QED
    BY <1>3, <1>4, <2>3, <2>8 DEF n
<1> QED
  BY <1>5, <1>6

(* FlattenSeq of sequences over X is one over X.                           *)
LEMMA FlattenType ==
    ASSUME NEW X, NEW seqs \in Seq(Seq(X))
    PROVE  FlattenSeq(seqs) \in Seq(X)
<1>1. PICK F \in [0 .. Len(seqs) -> Seq(X)] : FlattenSeq(seqs) = F[Len(seqs)]
  BY FlattenSteps
<1> QED
  BY <1>1

-----------------------------------------------------------------------------
(* What parsing makes: an interface, and the state of the loop.            *)
Hids == {h \in Seq(HidItems) : Len(h) <= 1}
Ifcs == [desc : InterfaceItems, hid : Hids, generics : Seq(Items), endpoints : Seq(EndpointItems)]
Accs == [lead : Seq(Items), list : Seq(Ifcs)]
Start == [lead |-> <<>>, list |-> <<>>]

(* What the type of a descriptor says it is.                               *)
LEMMA ItemTypes ==
    ASSUME NEW it \in Items
    PROVE  /\ it.type = "interface" => it \in InterfaceItems
           /\ it.type = "endpoint" => it \in EndpointItems
           /\ it.type = "hid" => it \in HidItems
  BY DEF Items, InterfaceItems, EndpointItems, HidItems, OtherItems

(* Attach() makes an interface of an interface.                            *)
LEMMA AttachType ==
    ASSUME NEW it \in Items, NEW ifc \in Ifcs
    PROVE  Attach(ifc, it) \in Ifcs
<1> DEFINE E == Seq(EndpointItems)
           G == Seq(Items)
           D == InterfaceItems
<1>0. ifc \in [desc : D, hid : Hids, generics : G, endpoints : E]
  BY DEF Ifcs
<1>1. it \in EndpointItems => Append(ifc.endpoints, it) \in E
  BY <1>0
<1>2. Append(ifc.generics, it) \in G
  BY <1>0
<1>3. it \in HidItems => <<it>> \in Hids
  BY DEF Hids
<1> HIDE DEF D, G, E
<1>4. CASE it.type = "endpoint"
  <2>1. Attach(ifc, it) = [ifc EXCEPT !.endpoints = Append(ifc.endpoints, it)]
    BY <1>4 DEF Attach
  <2>2. Append(ifc.endpoints, it) \in E
    BY <1>1, <1>4, ItemTypes
  <2>3. Attach(ifc, it) \in [desc : D, hid : Hids, generics : G, endpoints : E]
    BY <1>0, <2>1, <2>2
  <2> QED
    BY <2>3 DEF Ifcs, D, G, E
<1>5. CASE it.type = "hid"
  <2>1. Attach(ifc, it) = [ifc EXCEPT !.hid = <<it>>]
    BY <1>5 DEF Attach
  <2>2. <<it>> \in Hids
    BY <1>3, <1>5, ItemTypes
  <2>3. Attach(ifc, it) \in [desc : D, hid : Hids, generics : G, endpoints : E]
    BY <1>0, <2>1, <2>2
  <2> QED
    BY <2>3 DEF Ifcs, D, G, E
<1>6. CASE it.type \notin {"endpoint", "hid"}
  <2>1. Attach(ifc, it) = [ifc EXCEPT !.generics = Append(ifc.generics, it)]
    BY <1>6 DEF Attach
  <2>3. Attach(ifc, it) \in [desc : D, hid : Hids, generics : G, endpoints : E]
    BY <1>0, <2>1, <1>2
  <2> QED
    BY <2>3 DEF Ifcs, D, G, E
<1> QED
  BY <1>4, <1>5, <1>6

(* One turn of the loop leaves its state one.                              *)
LEMMA ParseItemType ==
    ASSUME NEW it \in Items, NEW acc \in Accs
    PROVE  ParseItem(acc, it) \in Accs
<1>0. acc.lead \in Seq(Items) /\ acc.list \in Seq(Ifcs) /\ acc = [lead |-> acc.lead, list |-> acc.list]
  BY DEF Accs
<1>1. CASE it.type = "interface"
  <2> DEFINE new == [desc |-> it, hid |-> Null, generics |-> acc.lead, endpoints |-> <<>>]
  <2>1. new \in Ifcs
    <3>1. it \in InterfaceItems /\ Null \in Hids /\ <<>> \in Seq(EndpointItems)
      BY <1>1, ItemTypes DEF Null, Hids
    <3> QED
      BY <1>0, <3>1 DEF Ifcs
  <2>2. ParseItem(acc, it) = [lead |-> <<>>, list |-> Append(acc.list, new)]
    BY <1>1 DEF ParseItem
  <2> HIDE DEF new
  <2>3. Append(acc.list, new) \in Seq(Ifcs) /\ <<>> \in Seq(Items)
    BY <1>0, <2>1
  <2> QED
    BY <2>2, <2>3 DEF Accs
<1>2. CASE it.type # "interface" /\ acc.list = <<>>
  <2>1. ParseItem(acc, it) = [lead |-> Append(acc.lead, it), list |-> acc.list]
    BY <1>0, <1>2 DEF ParseItem
  <2>2. Append(acc.lead, it) \in Seq(Items)
    BY <1>0
  <2> QED
    BY <1>0, <2>1, <2>2 DEF Accs
<1>3. CASE it.type # "interface" /\ acc.list # <<>>
  <2> DEFINE k == Len(acc.list)
             new == Attach(acc.list[k], it)
  <2>1. k \in 1 .. Len(acc.list)
    BY <1>0, <1>3
  <2>2. new \in Ifcs
    BY <1>0, <2>1, AttachType
  <2>3. ParseItem(acc, it) = [lead |-> acc.lead, list |-> [acc.list EXCEPT ![k] = new]]
    BY <1>0, <1>3 DEF ParseItem
  <2> HIDE DEF new
  <2>4. [acc.list EXCEPT ![k] = new] \in Seq(Ifcs)
    BY <1>0, <2>1, <2>2, ExceptSeq
  <2> QED
    BY <1>0, <2>3, <2>4 DEF Accs
<1> QED
  BY <1>1, <1>2, <1>3

(* A fold from the left, position by position: what the steps st reach.    *)
LEMMA FoldRun ==
    ASSUME NEW V, NEW n \in Nat, NEW v \in V, NEW st \in Steps(V, n), NEW g,
           g[{}] = v,
           \A s \in SUBSET (1 .. n) : s # {} /\ g[s \ {Max(s)}] \in V => g[s] = st[Max(s)][g[s \ {Max(s)}]]
    PROVE  IsRun([i \in 0 .. n |-> g[1 .. i]], st, v, V, n)
<1>1. ASSUME NEW s \in SUBSET (1 .. n), s # {}, g[s \ {Max(s)}] \in V
      PROVE  g[s] \in V
  <2>1. Max(s) \in 1 .. n
    BY <1>1, LastPosition
  <2>2. st[Max(s)] \in [V -> V]
    BY <2>1 DEF Steps
  <2> QED
    BY <1>1, <2>2
<1>2. \A s \in SUBSET (1 .. n) : g[s] \in V
  BY <1>1, FoldType
<1> DEFINE f == [i \in 0 .. n |-> g[1 .. i]]
<1>3. \A i \in 0 .. n : 1 .. i \in SUBSET (1 .. n)
  OBVIOUS
<1>4. f \in [0 .. n -> V]
  BY <1>2, <1>3
<1>5. f[0] = v
  <2>1. 1 .. 0 = {} /\ 0 \in 0 .. n
    OBVIOUS
  <2> QED
    BY <2>1
<1>6. ASSUME NEW i \in 1 .. n PROVE f[i] = st[i][f[i - 1]]
  <2>1. i \in 0 .. n /\ i - 1 \in 0 .. n /\ i \in Nat /\ i # 0
    OBVIOUS
  <2>2. 1 .. i # {} /\ Max(1 .. i) = i /\ (1 .. i) \ {i} = 1 .. i - 1
    BY <2>1, LastPosition
  <2>3. 1 .. i \in SUBSET (1 .. n) /\ 1 .. i - 1 \in SUBSET (1 .. n)
    OBVIOUS
  <2>4. g[1 .. i] = st[i][g[1 .. i - 1]]
    BY <1>2, <2>2, <2>3
  <2> QED
    BY <2>1, <2>4
<1> HIDE DEF f
<1>7. IsRun(f, st, v, V, n)
  BY <1>4, <1>5, <1>6 DEF IsRun
<1> QED
  BY <1>7 DEF f

(* The loop of Interface::Interface over the items.                        *)
ParseStep(items) == [i \in 1 .. Len(items) |-> [acc \in Accs |-> ParseItem(acc, items[i])]]

(* The fold of ParseInterfaces() is a run of that loop.                    *)
LEMMA ParseRun ==
    ASSUME NEW items \in Seq(Items)
    PROVE  \E A : /\ IsRun(A, ParseStep(items), Start, Accs, Len(items))
                  /\ ParseInterfaces(items) = A[Len(items)].list
<1> DEFINE n == Len(items)
           st == ParseStep(items)
           Solves(g) == g = [s \in SUBSET DOMAIN items |->
                               IF s = {} THEN Start ELSE ParseItem(g[s \ {Max(s)}], items[Max(s)])]
           f == CHOOSE g : Solves(g)
<1>1. n \in Nat /\ DOMAIN items = 1 .. n /\ \A i \in 1 .. n : items[i] \in Items
  OBVIOUS
<1>2. Start \in Accs
  BY DEF Start, Accs
<1>3. st \in Steps(Accs, n)
  BY <1>1, ParseItemType DEF Steps, ParseStep
<1>4. \A i \in 1 .. n : \A acc \in Accs : st[i][acc] = ParseItem(acc, items[i])
  BY DEF ParseStep
<1> HIDE DEF st, n
<1>5. PICK g : IsFold(g, st, Start, Accs, n)
  BY <1>1, <1>2, <1>3, FoldRecursion, Zenon
<1>6. Solves(g)
  <2>1. g \in [SUBSET (1 .. n) -> Accs]
        /\ \A s \in SUBSET (1 .. n) : g[s] = IF s = {} THEN Start ELSE st[Max(s)][g[s \ {Max(s)}]]
    BY <1>5 DEF IsFold
  <2>2. ASSUME NEW s \in SUBSET (1 .. n), s # {}
        PROVE  st[Max(s)][g[s \ {Max(s)}]] = ParseItem(g[s \ {Max(s)}], items[Max(s)])
    <3>1. Max(s) \in 1 .. n
      BY <1>1, <2>2, LastPosition
    <3>2. g[s \ {Max(s)}] \in Accs
      BY <2>1
    <3> QED
      BY <1>4, <3>1, <3>2
  <2> QED
    BY <1>1, <2>1, <2>2
<1>7. Solves(f)
  BY <1>6, Zenon
<1>8. ParseInterfaces(items) = f[DOMAIN items].list
  BY Zenon DEF ParseInterfaces, FoldLeft, MapThenFoldSet, Start
<1> HIDE DEF f
<1>9. f[{}] = Start
  BY <1>7
<1>10. ASSUME NEW s \in SUBSET (1 .. n), s # {}, f[s \ {Max(s)}] \in Accs
       PROVE  f[s] = st[Max(s)][f[s \ {Max(s)}]]
  <2>1. f[s] = ParseItem(f[s \ {Max(s)}], items[Max(s)])
    BY <1>1, <1>7, <1>10
  <2>2. Max(s) \in 1 .. n
    BY <1>1, <1>10, LastPosition
  <2> QED
    BY <1>4, <1>10, <2>1, <2>2
<1> DEFINE A == [i \in 0 .. n |-> f[1 .. i]]
<1>11. IsRun(A, st, Start, Accs, n)
  BY <1>1, <1>2, <1>3, <1>9, <1>10, FoldRun
<1>12. A[n] = f[DOMAIN items]
  BY <1>1
<1> QED
  BY <1>8, <1>11, <1>12 DEF n, st

(* Parsing gives a list of interfaces.                                     *)
LEMMA InterfacesType ==
    ASSUME NEW items \in Seq(Items)
    PROVE  ParseInterfaces(items) \in Seq(Ifcs)
<1>1. PICK A : /\ IsRun(A, ParseStep(items), Start, Accs, Len(items))
               /\ ParseInterfaces(items) = A[Len(items)].list
  BY ParseRun
<1>2. A \in [0 .. Len(items) -> Accs] /\ Len(items) \in 0 .. Len(items)
  BY <1>1 DEF IsRun
<1>3. A[Len(items)] \in Accs
  BY <1>2
<1> QED
  BY <1>1, <1>3 DEF Accs

(* The groups of a configuration whose interfaces are all in X.            *)
Groups(X, N) == [0 .. N - 1 -> Seq(Seq(X))]

(* InterfaceGroup::add_interface() leaves groups of such interfaces.       *)
LEMMA AddInterfaceType ==
    ASSUME NEW X \in SUBSET Ifcs, NEW N \in Nat, NEW groups \in Groups(X, N), NEW ifc \in X
    PROVE  AddInterface(groups, ifc) \in Groups(X, N)
<1> DEFINE k == ifc.desc.number
           a == ifc.desc.alternate + 1
           old == groups[k]
           size == IF a > Len(old) THEN a ELSE Len(old)
           new == [i \in 1 .. size |-> IF i = a THEN <<ifc>> ELSE IF i <= Len(old) THEN old[i] ELSE Null]
           Q == Seq(Seq(X))
<1>1. AddInterface(groups, ifc) = [groups EXCEPT ![k] = new]
  BY DEF AddInterface
<1>2. a \in Nat
  <2>1. ifc.desc \in InterfaceItems
    BY DEF Ifcs
  <2> QED
    BY <2>1 DEF InterfaceItems, Byte
<1>3. k \in 0 .. N - 1 => new \in Q
  <2>1. SUFFICES ASSUME k \in 0 .. N - 1 PROVE new \in Q
    OBVIOUS
  <2>2. old \in Seq(Seq(X)) /\ <<ifc>> \in Seq(X) /\ Null \in Seq(X)
    BY <2>1 DEF Groups, Null
  <2> HIDE DEF a, old
  <2>3. size \in Nat
    BY <1>2, <2>2
  <2>4. \A i \in 1 .. size : (IF i = a THEN <<ifc>> ELSE IF i <= Len(old) THEN old[i] ELSE Null) \in Seq(X)
    BY <2>2, <2>3
  <2> HIDE DEF size
  <2> QED
    BY <2>3, <2>4, IsASeq
<1> HIDE DEF new, k
<1>4. groups \in [0 .. N - 1 -> Q]
  BY DEF Groups
<1> HIDE DEF Q
<1>5. [groups EXCEPT ![k] = new] \in [0 .. N - 1 -> Q]
  BY <1>3, <1>4
<1> QED
  BY <1>1, <1>5 DEF Groups, Q

(* So does the loop of Configuration::Configuration over all interfaces.   *)
LEMMA GroupsType ==
    ASSUME NEW X \in SUBSET Ifcs, NEW c, c.bNumInterfaces \in Nat, ParseInterfaces(c.items) \in Seq(X)
    PROVE  ParseGroups(c) \in Groups(X, c.bNumInterfaces)
<1> DEFINE ifcs == ParseInterfaces(c.items)
           n == Len(ifcs)
           none == [k \in 0 .. c.bNumInterfaces - 1 |-> <<>>]
           V == Groups(X, c.bNumInterfaces)
           st == [i \in 1 .. n |-> [groups \in V |-> AddInterface(groups, ifcs[i])]]
           Solves(g) == g = [s \in SUBSET DOMAIN ifcs |->
                               IF s = {} THEN none ELSE AddInterface(g[s \ {Max(s)}], ifcs[Max(s)])]
           f == CHOOSE g : Solves(g)
<1>8. ParseGroups(c) = f[DOMAIN ifcs]
  BY Zenon DEF ParseGroups, FoldLeft, MapThenFoldSet
<1> HIDE DEF ifcs
<1>1. n \in Nat /\ DOMAIN ifcs = 1 .. n /\ \A i \in 1 .. n : ifcs[i] \in X
  BY DEF ifcs
<1>2. none \in V
  BY DEF Groups
<1>0. \A i \in 1 .. n : \A groups \in V : AddInterface(groups, ifcs[i]) \in V
  BY <1>1, AddInterfaceType
<1> HIDE DEF V, none, n
<1>3. st \in Steps(V, n)
  BY <1>0 DEF Steps
<1>4. \A i \in 1 .. n : \A groups \in V : st[i][groups] = AddInterface(groups, ifcs[i])
  OBVIOUS
<1> HIDE DEF st
<1>5. PICK g : IsFold(g, st, none, V, n)
  BY <1>1, <1>2, <1>3, FoldRecursion, Zenon
<1>6. Solves(g)
  <2>1. g \in [SUBSET (1 .. n) -> V]
        /\ \A s \in SUBSET (1 .. n) : g[s] = IF s = {} THEN none ELSE st[Max(s)][g[s \ {Max(s)}]]
    BY <1>5 DEF IsFold
  <2>2. ASSUME NEW s \in SUBSET (1 .. n), s # {}
        PROVE  st[Max(s)][g[s \ {Max(s)}]] = AddInterface(g[s \ {Max(s)}], ifcs[Max(s)])
    <3>1. Max(s) \in 1 .. n
      BY <1>1, <2>2, LastPosition
    <3>2. g[s \ {Max(s)}] \in V
      BY <2>1
    <3> QED
      BY <1>4, <3>1, <3>2
  <2> QED
    BY <1>1, <2>1, <2>2
<1>7. Solves(f)
  BY <1>6, Zenon
<1> HIDE DEF f
<1>9. ASSUME NEW s \in SUBSET (1 .. n), s # {}, f[s \ {Max(s)}] \in V PROVE f[s] \in V
  <2>1. f[s] = AddInterface(f[s \ {Max(s)}], ifcs[Max(s)])
    BY <1>1, <1>7, <1>9
  <2>2. Max(s) \in 1 .. n
    BY <1>1, <1>9, LastPosition
  <2> QED
    BY <1>0, <1>9, <2>1, <2>2
<1>10. f[{}] \in V
  BY <1>2, <1>7
<1>11. f[1 .. n] \in V
  BY <1>1, <1>9, <1>10, FoldType
<1> QED
  BY <1>1, <1>8, <1>11 DEF V

(* All alternates of a configuration, in one list.                         *)
LEMMA AlternatesType ==
    ASSUME NEW X \in SUBSET Ifcs, NEW c, c.bNumInterfaces \in Nat, ParseInterfaces(c.items) \in Seq(X)
    PROVE  AllAlternates(ParseConfiguration(c)) \in Seq(X)
<1> DEFINE cfg == ParseConfiguration(c)
           N == c.bNumInterfaces
           alts == [k \in 1 .. N |-> Alternates(cfg, k - 1)]
<1>1. cfg.groups = ParseGroups(c) /\ cfg.bNumInterfaces = N
  BY DEF ParseConfiguration
<1>2. cfg.groups \in [0 .. N - 1 -> Seq(Seq(X))]
  BY <1>1, GroupsType DEF Groups
<1> HIDE DEF cfg
<1>3. ASSUME NEW k \in 1 .. N PROVE Alternates(cfg, k - 1) \in Seq(X)
  <2>1. cfg.groups[k - 1] \in Seq(Seq(X))
    BY <1>2
  <2> QED
    BY <2>1, FlattenType DEF Alternates
<1>4. alts \in Seq(Seq(X))
  BY <1>3, IsASeq
<1>5. AllAlternates(cfg) = FlattenSeq(alts)
  BY <1>1 DEF AllAlternates
<1> HIDE DEF alts
<1> QED
  BY <1>4, <1>5, FlattenType DEF cfg

(* What is relayed, endpoint by endpoint.                                  *)
LEMMA RelayedType ==
    ASSUME NEW cfg, AllAlternates(cfg) \in Seq(Ifcs)
    PROVE  Relayed(cfg) \in Seq([e : EndpointItems, ifc : Ifcs])
<1> DEFINE ifcs == AllAlternates(cfg)
           P == [e : EndpointItems, ifc : Ifcs]
           one(ifc, i) == IF ifc.endpoints[i].xfer = "isoc" THEN <<>> ELSE <<[e |-> ifc.endpoints[i], ifc |-> ifc]>>
           all(ifc) == [i \in DOMAIN ifc.endpoints |-> one(ifc, i)]
           eps == [k \in DOMAIN ifcs |-> FlattenSeq(all(ifcs[k]))]
<1>1. Relayed(cfg) = FlattenSeq(eps)
  BY DEF Relayed
<1>2. ASSUME NEW ifc \in Ifcs PROVE FlattenSeq(all(ifc)) \in Seq(P)
  <2>1. ifc.endpoints \in Seq(EndpointItems)
    BY DEF Ifcs
  <2>2. \A i \in DOMAIN ifc.endpoints : ifc.endpoints[i] \in EndpointItems
    BY <2>1
  <2>3. ASSUME NEW i \in DOMAIN ifc.endpoints PROVE one(ifc, i) \in Seq(P)
    <3> DEFINE r == [e |-> ifc.endpoints[i], ifc |-> ifc]
    <3>1. r \in P
      BY <2>2
    <3> HIDE DEF r, P
    <3>2. <<r>> \in Seq(P) /\ <<>> \in Seq(P)
      BY <3>1
    <3> QED
      BY <3>2, Zenon DEF r
  <2> HIDE DEF one, P
  <2>4. all(ifc) \in Seq(Seq(P))
    <3> DEFINE Q == Seq(P)
    <3>1. Len(ifc.endpoints) \in Nat /\ DOMAIN ifc.endpoints = 1 .. Len(ifc.endpoints)
      BY <2>1
    <3> HIDE DEF Q
    <3>2. all(ifc) \in [1 .. Len(ifc.endpoints) -> Q]
      BY <2>3, <3>1 DEF Q
    <3> QED
      BY <3>1, <3>2, FcnIsSeq DEF Q
  <2> QED
    BY <2>4, FlattenType
<1> HIDE DEF ifcs, P, all
<1>3. ifcs \in Seq(Ifcs)
  BY DEF ifcs
<1>4. eps \in Seq(Seq(P))
  <2> DEFINE Q == Seq(P)
  <2>1. Len(ifcs) \in Nat /\ DOMAIN ifcs = 1 .. Len(ifcs) /\ \A k \in DOMAIN ifcs : ifcs[k] \in Ifcs
    BY <1>3
  <2>2. \A k \in DOMAIN ifcs : FlattenSeq(all(ifcs[k])) \in Q
    BY <1>2, <2>1
  <2> HIDE DEF Q
  <2>3. eps \in [1 .. Len(ifcs) -> Q]
    BY <2>1, <2>2
  <2> QED
    BY <2>1, <2>3, FcnIsSeq DEF Q
<1> HIDE DEF eps
<1>5. FlattenSeq(eps) \in Seq(P)
  BY <1>4, FlattenType
<1> QED
  BY <1>1, <1>5 DEF P

-----------------------------------------------------------------------------
(* Reading back what get_full_descriptor() writes *)

(* The loop over the items, item by item.                                  *)
LEMMA ParseNext ==
    ASSUME NEW items \in Seq(Items), NEW A, IsRun(A, ParseStep(items), Start, Accs, Len(items))
    PROVE  /\ A[0] = Start
           /\ \A i \in 0 .. Len(items) : A[i] \in Accs
           /\ \A i \in 1 .. Len(items) : A[i] = ParseItem(A[i - 1], items[i])
<1>1. A[0] = Start /\ A \in [0 .. Len(items) -> Accs]
      /\ \A i \in 1 .. Len(items) : A[i] = ParseStep(items)[i][A[i - 1]]
  BY DEF IsRun
<1>2. ASSUME NEW i \in 1 .. Len(items) PROVE A[i] = ParseItem(A[i - 1], items[i])
  <2>1. i - 1 \in 0 .. Len(items)
    OBVIOUS
  <2>2. A[i - 1] \in Accs
    BY <1>1, <2>1
  <2>3. ParseStep(items)[i] = [acc \in Accs |-> ParseItem(acc, items[i])]
    BY DEF ParseStep
  <2> QED
    BY <1>1, <2>2, <2>3
<1> QED
  BY <1>1, <1>2

(* The state of the loop behind an interface that is not complete yet.     *)
Behind(L, y) == [lead |-> <<>>, list |-> Append(L, y)]

(* A descriptor behind an interface goes to that interface.                *)
LEMMA AttachBehind ==
    ASSUME NEW L \in Seq(Ifcs), NEW y \in Ifcs, NEW it \in Items, it.type # "interface"
    PROVE  ParseItem(Behind(L, y), it) = Behind(L, Attach(y, it))
<1> DEFINE list == Append(L, y)
           z == Attach(y, it)
<1>1. list # <<>> /\ Len(list) = Len(L) + 1 /\ list[Len(L) + 1] = y
  OBVIOUS
<1>2. z \in Ifcs
  BY AttachType
<1>3. ParseItem(Behind(L, y), it) = [lead |-> <<>>, list |-> [list EXCEPT ![Len(list)] = Attach(list[Len(list)], it)]]
  <2>1. Behind(L, y) = [lead |-> <<>>, list |-> list]
    BY DEF Behind
  <2>2. Behind(L, y).list = list
    BY <2>1
  <2> HIDE DEF list
  <2>3. ParseItem(Behind(L, y), it)
          = [Behind(L, y) EXCEPT !.list[Len(list)] = Attach(list[Len(list)], it)]
    BY <1>1, <2>2 DEF ParseItem
  <2> QED
    BY <2>1, <2>3
<1> HIDE DEF z
<1>4. [list EXCEPT ![Len(L) + 1] = z] = Append(L, z)
  <2> DEFINE t == [list EXCEPT ![Len(L) + 1] = z]
             u == Append(L, z)
  <2>1. list \in Seq(Ifcs) /\ Len(L) + 1 \in 1 .. Len(list)
    OBVIOUS
  <2>2. u \in Seq(Ifcs) /\ Len(u) = Len(L) + 1
    BY <1>2
  <2>3. t \in Seq(Ifcs) /\ Len(t) = Len(L) + 1
    <3> HIDE DEF list
    <3> QED
      BY <1>1, <1>2, <2>1, ExceptSeq
  <2>4. ASSUME NEW i \in 1 .. Len(L) + 1 PROVE t[i] = u[i]
    <3>1. DOMAIN list = 1 .. Len(L) + 1 /\ (i <= Len(L) => list[i] = L[i] /\ u[i] = L[i])
          /\ (i = Len(L) + 1 => u[i] = z)
      BY <1>2
    <3> HIDE DEF list, u
    <3>2. t[i] = IF i = Len(L) + 1 THEN z ELSE list[i]
      BY <3>1
    <3> HIDE DEF t
    <3> QED
      BY <3>1, <3>2
  <2> HIDE DEF t, u
  <2>5. t = u
    BY <2>2, <2>3, <2>4, SeqEqual
  <2> QED
    BY <2>5 DEF t, u
<1> QED
  BY <1>1, <1>3, <1>4 DEF Behind, z

(* A stretch of items behind an interface descriptor.                      *)
IsStretch(full, A, L, b, n, Y) ==
    /\ full \in Seq(Items) /\ IsRun(A, ParseStep(full), Start, Accs, Len(full))
    /\ L \in Seq(Ifcs) /\ b \in Nat /\ n \in Nat /\ b + n <= Len(full)
    /\ Y \in [0 .. n -> Ifcs]
    /\ \A p \in 1 .. n : full[b + p].type # "interface" /\ Y[p] = Attach(Y[p - 1], full[b + p])
    /\ A[b] = Behind(L, Y[0])

(* All of them go to the interface.                                        *)
LEMMA Stretch ==
    ASSUME NEW full, NEW A, NEW L, NEW b, NEW n, NEW Y, IsStretch(full, A, L, b, n, Y)
    PROVE  A[b + n] = Behind(L, Y[n])
<1> USE DEF IsStretch
<1> DEFINE S == {p \in 0 .. n : A[b + p] = Behind(L, Y[p])}
<1>1. 0 \in S
  OBVIOUS
<1>2. ASSUME NEW m \in 0 .. n - 1, m \in S PROVE m + 1 \in S
  <2> DEFINE p == m + 1
             q == b + p
  <2>1. p \in 1 .. n /\ p \in 0 .. n /\ p - 1 = m /\ q \in 1 .. Len(full) /\ q - 1 = b + m
    OBVIOUS
  <2>2. A[b + m] = Behind(L, Y[m]) /\ Y[m] \in Ifcs
    BY <1>2
  <2> HIDE DEF p, q
  <2>3. A[q] = ParseItem(A[b + m], full[q]) /\ full[q] \in Items
    BY <2>1, ParseNext
  <2>4. full[q].type # "interface" /\ Y[p] = Attach(Y[m], full[q])
    BY <2>1 DEF q
  <2>5. A[q] = Behind(L, Y[p])
    BY <2>2, <2>3, <2>4, AttachBehind
  <2> QED
    BY <2>1, <2>5 DEF p, q
<1> HIDE DEF S
<1>3. \A m \in 0 .. n : m \in S
  BY <1>1, <1>2, UpTo, Zenon
<1> QED
  BY <1>3 DEF S

(* The first k elements of a sequence.                                     *)
Firsts(s, k) == [i \in 1 .. k |-> s[i]]

(* They are a sequence, which grows by one element at a time.              *)
LEMMA FirstsFacts ==
    ASSUME NEW Y, NEW s \in Seq(Y)
    PROVE  /\ \A k \in 0 .. Len(s) : Firsts(s, k) \in Seq(Y) /\ Len(Firsts(s, k)) = k
           /\ Firsts(s, 0) = <<>> /\ Firsts(s, Len(s)) = s
           /\ \A k \in 1 .. Len(s) : Firsts(s, k) = Append(Firsts(s, k - 1), s[k])
<1>1. ASSUME NEW k \in 0 .. Len(s) PROVE Firsts(s, k) \in Seq(Y) /\ Len(Firsts(s, k)) = k
  BY DEF Firsts
<1>2. Firsts(s, 0) = <<>>
  BY DEF Firsts
<1>3. Firsts(s, Len(s)) = s
  BY DEF Firsts
<1>4. ASSUME NEW k \in 1 .. Len(s) PROVE Firsts(s, k) = Append(Firsts(s, k - 1), s[k])
  <2>1. k - 1 \in 0 .. Len(s) /\ k \in 0 .. Len(s) /\ s[k] \in Y
    OBVIOUS
  <2> DEFINE t == Firsts(s, k)
             u == Append(Firsts(s, k - 1), s[k])
  <2>2. t \in Seq(Y) /\ Len(t) = k /\ u \in Seq(Y) /\ Len(u) = k
    BY <1>1, <2>1
  <2>3. \A i \in 1 .. k : t[i] = u[i]
    BY <1>1, <2>1 DEF Firsts
  <2> HIDE DEF t, u
  <2>4. t = u
    BY <2>2, <2>3, SeqEqual
  <2> QED
    BY <2>4 DEF t, u
<1> QED
  BY <1>1, <1>2, <1>3, <1>4

(* Interfaces whose generic descriptors are neither of endpoints nor HID.  *)
PlainIfcs == [desc : InterfaceItems, hid : Hids, generics : Seq(OtherItems), endpoints : Seq(EndpointItems)]

(* Plain interfaces are interfaces, and descriptors descriptors.           *)
LEMMA PlainTypes ==
    /\ PlainIfcs \in SUBSET Ifcs
    /\ InterfaceItems \subseteq Items /\ EndpointItems \subseteq Items
    /\ HidItems \subseteq Items /\ OtherItems \subseteq Items
<1>1. /\ InterfaceItems \subseteq Items /\ EndpointItems \subseteq Items
      /\ HidItems \subseteq Items /\ OtherItems \subseteq Items
  BY DEF Items
<1>2. Seq(OtherItems) \subseteq Seq(Items)
  BY <1>1
<1> DEFINE G == Seq(OtherItems)
           H == Seq(Items)
           E == Seq(EndpointItems)
<1>3. G \subseteq H
  BY <1>2
<1> HIDE DEF G, H, E
<1>4. [desc : InterfaceItems, hid : Hids, generics : G, endpoints : E]
        \subseteq [desc : InterfaceItems, hid : Hids, generics : H, endpoints : E]
  BY <1>3
<1> QED
  BY <1>1, <1>4 DEF PlainIfcs, Ifcs, G, H, E

IsJoined(u, s, t, S) ==
    /\ u \in Seq(S) /\ Len(u) = Len(s) + Len(t)
    /\ \A i \in 1 .. Len(s) : u[i] = s[i]
    /\ \A p \in 1 .. Len(t) : u[Len(s) + p] = t[p]

(* What a concatenation is, element by element.                            *)
LEMMA Joined ==
    ASSUME NEW S, NEW s \in Seq(S), NEW t \in Seq(S)
    PROVE  IsJoined(s \o t, s, t, S)
<1>1. s \o t \in Seq(S) /\ Len(s \o t) = Len(s) + Len(t) /\ Len(s) \in Nat /\ Len(t) \in Nat
  OBVIOUS
<1>2. \A i \in 1 .. Len(s) + Len(t) : (s \o t)[i] = IF i <= Len(s) THEN s[i] ELSE t[i - Len(s)]
  BY ConcatProperties
<1> DEFINE m == Len(s)
           n == Len(t)
           u == s \o t
<1> HIDE DEF m, n, u
<1>3. m \in Nat /\ n \in Nat /\ \A i \in 1 .. m + n : u[i] = IF i <= m THEN s[i] ELSE t[i - m]
  BY <1>1, <1>2 DEF m, n, u
<1>4. \A i \in 1 .. m : u[i] = s[i]
  BY <1>3
<1>5. ASSUME NEW p \in 1 .. n PROVE u[m + p] = t[p]
  <2>1. m + p \in 1 .. m + n /\ ~(m + p <= m) /\ m + p - m = p
    BY <1>3
  <2> QED
    BY <1>3, <2>1
<1> QED
  BY <1>1, <1>4, <1>5 DEF m, n, u, IsJoined

(* get_full_descriptor() of an interface, item by item.                    *)
IsDescriptor(d, x, h, g, e) ==
    /\ h \in 0 .. 1 /\ g \in Nat /\ e \in Nat
    /\ d \in Seq(Items) /\ Len(d) = 1 + h + g + e
    /\ d[1] = x.desc
    /\ \A p \in 1 .. h : d[1 + p] = x.hid[p]
    /\ \A p \in 1 .. g : d[1 + h + p] = x.generics[p]
    /\ \A p \in 1 .. e : d[1 + h + g + p] = x.endpoints[p]

(* The descriptor of a plain interface has these items.                    *)
LEMMA DescriptorItems ==
    ASSUME NEW x \in PlainIfcs
    PROVE  IsDescriptor(InterfaceDescriptor(x), x, Len(x.hid), Len(x.generics), Len(x.endpoints))
<1> DEFINE r == x.hid
           q == x.generics
           z == x.endpoints
           h == Len(r)
           g == Len(q)
           e == Len(z)
           s == <<x.desc>>
           t == s \o r
           u == t \o q
           v == u \o z
<1>0. /\ x.desc \in InterfaceItems /\ r \in Seq(HidItems) /\ h <= 1
      /\ q \in Seq(OtherItems) /\ z \in Seq(EndpointItems)
  BY DEF PlainIfcs, Hids
<1>1. x.desc \in Items /\ r \in Seq(Items) /\ q \in Seq(Items) /\ z \in Seq(Items)
  BY <1>0, PlainTypes
<1>3. InterfaceDescriptor(x) = v
  BY DEF InterfaceDescriptor
<1> HIDE DEF r, q, z
<1>2. h \in 0 .. 1 /\ g \in Nat /\ e \in Nat
  <2>1. h \in Nat /\ h <= 1
    BY <1>0
  <2>2. g \in Nat
    BY <1>0
  <2>3. e \in Nat
    BY <1>0
  <2> HIDE DEF h, g, e
  <2> QED
    BY <2>1, <2>2, <2>3
<1>4. s \in Seq(Items) /\ Len(s) = 1 /\ s[1] = x.desc
  BY <1>1
<1> HIDE DEF s
<1>5. /\ t \in Seq(Items) /\ Len(t) = 1 + h
      /\ \A i \in 1 .. 1 : t[i] = s[i]
      /\ \A p \in 1 .. h : t[1 + p] = r[p]
  <2>1. IsJoined(t, s, r, Items)
    BY ONLY <1>1, <1>4, Joined, Zenon
  <2> HIDE DEF t
  <2> QED
    BY <1>4, <2>1 DEF IsJoined
<1> HIDE DEF t
<1>6. /\ u \in Seq(Items) /\ Len(u) = 1 + h + g
      /\ \A i \in 1 .. 1 + h : u[i] = t[i]
      /\ \A p \in 1 .. g : u[1 + h + p] = q[p]
  <2>1. IsJoined(u, t, q, Items)
    BY ONLY <1>1, <1>5, Joined, Zenon
  <2> HIDE DEF u
  <2> QED
    BY <1>5, <2>1 DEF IsJoined
<1> HIDE DEF u
<1>7. /\ v \in Seq(Items) /\ Len(v) = 1 + h + g + e
      /\ \A i \in 1 .. 1 + h + g : v[i] = u[i]
      /\ \A p \in 1 .. e : v[1 + h + g + p] = z[p]
  <2>1. IsJoined(v, u, z, Items)
    BY ONLY <1>1, <1>6, Joined, Zenon
  <2> HIDE DEF v
  <2> QED
    BY <1>6, <2>1 DEF IsJoined
<1> HIDE DEF v, h, g, e
<1>8. v[1] = x.desc
  BY <1>2, <1>4, <1>5, <1>6, <1>7
<1>9. \A p \in 1 .. h : v[1 + p] = r[p]
  BY <1>2, <1>5, <1>6, <1>7
<1>10. \A p \in 1 .. g : v[1 + h + p] = q[p]
  BY <1>2, <1>6, <1>7
<1>11. IsDescriptor(v, x, h, g, e)
  BY <1>2, <1>7, <1>8, <1>9, <1>10 DEF IsDescriptor, r, q, z
<1> QED
  BY <1>3, <1>11 DEF h, g, e, r, q, z

(* The descriptors of an interface, where they stand in the list.          *)
IsPlaced(full, x, b, d) ==
    /\ full \in Seq(Items) /\ x \in PlainIfcs /\ b \in Nat
    /\ d = InterfaceDescriptor(x) /\ b + Len(d) <= Len(full)
    /\ \A p \in 1 .. Len(d) : full[b + p] = d[p]

(* The items in these places, one by one.                                  *)
HasItems(full, x, b, d, h, g, e) ==
    /\ h \in 0 .. 1 /\ g \in Nat /\ e \in Nat /\ b \in Nat
    /\ b + Len(d) = b + 1 + h + g + e /\ b + 1 + h + g + e <= Len(full)
    /\ full[b + 1] = x.desc
    /\ \A p \in 1 .. h : full[b + 1 + p] = x.hid[p]
    /\ \A p \in 1 .. g : full[b + 1 + h + p] = x.generics[p]
    /\ \A p \in 1 .. e : full[b + 1 + h + g + p] = x.endpoints[p]

(* They are the items of the interface.                                    *)
LEMMA PlacedItems ==
    ASSUME NEW full, NEW x, NEW b, NEW d, IsPlaced(full, x, b, d)
    PROVE  HasItems(full, x, b, d, Len(x.hid), Len(x.generics), Len(x.endpoints))
<1> DEFINE h == Len(x.hid)
           g == Len(x.generics)
           e == Len(x.endpoints)
           l == Len(d)
<1>0. /\ x \in PlainIfcs /\ b \in Nat /\ d = InterfaceDescriptor(x) /\ b + l <= Len(full)
      /\ \A p \in 1 .. l : full[b + p] = d[p]
  BY DEF IsPlaced
<1>1. IsDescriptor(d, x, h, g, e)
  BY <1>0, DescriptorItems
<1> HIDE DEF h, g, e
<1>2. /\ h \in 0 .. 1 /\ g \in Nat /\ e \in Nat /\ l = 1 + h + g + e
      /\ d[1] = x.desc
      /\ \A p \in 1 .. h : d[1 + p] = x.hid[p]
      /\ \A p \in 1 .. g : d[1 + h + p] = x.generics[p]
      /\ \A p \in 1 .. e : d[1 + h + g + p] = x.endpoints[p]
  BY <1>1 DEF IsDescriptor
<1>n. b \in Nat /\ h \in Nat /\ g \in Nat /\ e \in Nat /\ l = 1 + h + g + e
  BY <1>0, <1>2
<1> HIDE DEF l
<1>3. b + l = b + 1 + h + g + e
  BY ONLY <1>n
<1>4. full[b + 1] = x.desc
  <2>1. 1 \in 1 .. l
    BY ONLY <1>n
  <2> QED
    BY <1>0, <1>2, <2>1
<1>5. ASSUME NEW p \in 1 .. h PROVE full[b + 1 + p] = x.hid[p]
  <2>1. 1 + p \in 1 .. l /\ b + (1 + p) = b + 1 + p
    BY ONLY <1>n
  <2> QED
    BY <1>0, <1>2, <2>1
<1>6. ASSUME NEW p \in 1 .. g PROVE full[b + 1 + h + p] = x.generics[p]
  <2>1. 1 + h + p \in 1 .. l /\ b + (1 + h + p) = b + 1 + h + p
    BY ONLY <1>n
  <2> QED
    BY <1>0, <1>2, <2>1
<1>7. ASSUME NEW p \in 1 .. e PROVE full[b + 1 + h + g + p] = x.endpoints[p]
  <2>1. 1 + h + g + p \in 1 .. l /\ b + (1 + h + g + p) = b + 1 + h + g + p
    BY ONLY <1>n
  <2> QED
    BY <1>0, <1>2, <2>1
<1>8. b + 1 + h + g + e <= Len(full)
  BY <1>0, <1>3
<1> QED
  <2>1. HasItems(full, x, b, d, h, g, e)
    BY <1>0, <1>2, <1>3, <1>4, <1>5, <1>6, <1>7, <1>8 DEF l, HasItems
  <2> QED
    BY <2>1 DEF h, g, e

(* The parser has read what precedes the descriptors of an interface.      *)
Reaches(full, A, L, x, b, d) ==
    /\ IsPlaced(full, x, b, d) /\ IsRun(A, ParseStep(full), Start, Accs, Len(full))
    /\ L \in Seq(Ifcs) /\ A[b] = [lead |-> <<>>, list |-> L]

(* It reads the interface back.                                            *)
LEMMA OneInterface ==
    ASSUME NEW full, NEW A, NEW L, NEW x, NEW b, NEW d, Reaches(full, A, L, x, b, d)
    PROVE  A[b + Len(d)] = Behind(L, x)
<1> SUFFICES ASSUME IsPlaced(full, x, b, d), full \in Seq(Items), x \in PlainIfcs,
                    IsRun(A, ParseStep(full), Start, Accs, Len(full)),
                    L \in Seq(Ifcs), A[b] = [lead |-> <<>>, list |-> L]
             PROVE  A[b + Len(d)] = Behind(L, x)
  BY DEF Reaches, IsPlaced
<1> DEFINE h == Len(x.hid)
           g == Len(x.generics)
           e == Len(x.endpoints)
           y(k, i, j) == [desc |-> x.desc, hid |-> Firsts(x.hid, k), generics |-> Firsts(x.generics, i),
                          endpoints |-> Firsts(x.endpoints, j)]
<1>0. /\ x.desc \in InterfaceItems /\ x.hid \in Seq(HidItems) /\ Len(x.hid) <= 1
      /\ x.generics \in Seq(OtherItems) /\ x.endpoints \in Seq(EndpointItems)
      /\ x = [desc |-> x.desc, hid |-> x.hid, generics |-> x.generics, endpoints |-> x.endpoints]
  BY DEF PlainIfcs, Hids
<1>1. HasItems(full, x, b, d, h, g, e)
  BY PlacedItems, Zenon
<1> HIDE DEF h, g, e
<1>2. /\ h \in 0 .. 1 /\ g \in Nat /\ e \in Nat /\ b \in Nat
      /\ b + Len(d) = b + 1 + h + g + e /\ b + 1 + h + g + e <= Len(full)
      /\ full[b + 1] = x.desc
      /\ \A p \in 1 .. h : full[b + 1 + p] = x.hid[p]
      /\ \A p \in 1 .. g : full[b + 1 + h + p] = x.generics[p]
      /\ \A p \in 1 .. e : full[b + 1 + h + g + p] = x.endpoints[p]
  BY <1>1 DEF HasItems
<1>n. b \in Nat /\ h \in Nat /\ g \in Nat /\ e \in Nat /\ Len(full) \in Nat
      /\ b + 1 + h + g + e <= Len(full)
  BY <1>2
<1>3. \A k \in 0 .. h : \A i \in 0 .. g : \A j \in 0 .. e : y(k, i, j) \in Ifcs
  <2> SUFFICES ASSUME NEW k \in 0 .. h, NEW i \in 0 .. g, NEW j \in 0 .. e PROVE y(k, i, j) \in Ifcs
    OBVIOUS
  <2>1. Firsts(x.hid, k) \in Hids
    <3>0. k <= 1 /\ k \in 0 .. h
      BY <1>2
    <3>1. Firsts(x.hid, k) \in Seq(HidItems) /\ Len(Firsts(x.hid, k)) = k
      BY <1>0, <3>0, FirstsFacts DEF h
    <3> QED
      BY <3>0, <3>1 DEF Hids
  <2>2. Firsts(x.generics, i) \in Seq(OtherItems)
    BY <1>0, FirstsFacts DEF g
  <2>3. Firsts(x.endpoints, j) \in Seq(EndpointItems)
    BY <1>0, FirstsFacts DEF e
  <2>4. y(k, i, j) \in PlainIfcs
    BY <1>0, <2>1, <2>2, <2>3 DEF PlainIfcs
  <2> QED
    BY <2>4, PlainTypes
<1>4. A[b + 1] = Behind(L, y(0, 0, 0))
  <2>1. b + 1 \in 1 .. Len(full) /\ b + 1 - 1 = b
    BY <1>2
  <2>2. A[b + 1] = ParseItem([lead |-> <<>>, list |-> L], x.desc)
    BY <1>2, <2>1, ParseNext
  <2>3. x.desc.type = "interface"
    BY <1>0 DEF InterfaceItems
  <2>4. A[b + 1] = Behind(L, [desc |-> x.desc, hid |-> Null, generics |-> <<>>, endpoints |-> <<>>])
    BY <2>2, <2>3 DEF ParseItem, Behind
  <2>5. Firsts(x.hid, 0) = Null /\ Firsts(x.generics, 0) = <<>> /\ Firsts(x.endpoints, 0) = <<>>
    BY <1>0, FirstsFacts DEF Null
  <2> QED
    BY <2>4, <2>5
<1>5. A[b + 1 + h] = Behind(L, y(h, 0, 0))
  <2> DEFINE Y == [p \in 0 .. h |-> y(p, 0, 0)]
             c == b + 1
  <2>1. Y \in [0 .. h -> Ifcs]
    BY <1>2, <1>3
  <2>2. ASSUME NEW p \in 1 .. h
        PROVE  full[c + p].type # "interface" /\ Y[p] = Attach(Y[p - 1], full[c + p])
    <3>1. p = 1 /\ h = 1 /\ p - 1 = 0 /\ 0 \in 0 .. h /\ 1 \in 0 .. h
      BY <1>2
    <3>2. full[c + p] = x.hid[1] /\ x.hid[1] \in HidItems
      BY <1>0, <1>2, <3>1 DEF h
    <3>3. full[c + p].type = "hid"
      BY <3>2 DEF HidItems
    <3>4. Attach(y(0, 0, 0), full[c + p]) = [y(0, 0, 0) EXCEPT !.hid = <<x.hid[1]>>]
      BY <3>2, <3>3 DEF Attach
    <3>5. Firsts(x.hid, 1) = <<x.hid[1]>>
      BY <1>0, <3>1 DEF Firsts, h
    <3>6. [y(0, 0, 0) EXCEPT !.hid = <<x.hid[1]>>] = y(1, 0, 0)
      BY ONLY <3>5
    <3> HIDE DEF y
    <3>7. Y[p] = y(1, 0, 0) /\ Y[p - 1] = y(0, 0, 0)
      BY <3>1
    <3> QED
      BY <3>3, <3>4, <3>5, <3>6, <3>7
  <2>3. c \in Nat /\ c + h <= Len(full) /\ h \in Nat /\ Y[0] = y(0, 0, 0) /\ Y[h] = y(h, 0, 0)
    BY <1>2
  <2> HIDE DEF Y, y, c
  <2>4. A[c] = Behind(L, Y[0])
    BY <1>4, <2>3 DEF c
  <2>5. A[c + h] = Behind(L, Y[h])
    <3>1. IsStretch(full, A, L, c, h, Y)
      BY <2>1, <2>2, <2>3, <2>4 DEF IsStretch
    <3> QED
      BY ONLY <3>1, Stretch, SMT
  <2> QED
    BY <2>3, <2>5 DEF c
<1>6. A[b + 1 + h + g] = Behind(L, y(h, g, 0))
  <2> DEFINE Y == [p \in 0 .. g |-> y(h, p, 0)]
             c == b + 1 + h
  <2>1. Y \in [0 .. g -> Ifcs]
    BY <1>2, <1>3
  <2>2. ASSUME NEW p \in 1 .. g
        PROVE  full[c + p].type # "interface" /\ Y[p] = Attach(Y[p - 1], full[c + p])
    <3>1. p - 1 \in 0 .. g /\ p \in 0 .. g
      BY <1>2
    <3>2. full[c + p] = x.generics[p] /\ x.generics[p] \in OtherItems
      BY <1>0, <1>2 DEF g
    <3>3. full[c + p].type = "other"
      BY <3>2 DEF OtherItems
    <3>4. Attach(y(h, p - 1, 0), full[c + p])
            = [y(h, p - 1, 0) EXCEPT !.generics = Append(Firsts(x.generics, p - 1), x.generics[p])]
      BY <3>2, <3>3 DEF Attach
    <3>5. Firsts(x.generics, p) = Append(Firsts(x.generics, p - 1), x.generics[p])
      BY <1>0, FirstsFacts DEF g
    <3>6. [y(h, p - 1, 0) EXCEPT !.generics = Firsts(x.generics, p)] = y(h, p, 0)
      OBVIOUS
    <3> HIDE DEF y
    <3>7. Y[p] = y(h, p, 0) /\ Y[p - 1] = y(h, p - 1, 0)
      BY <3>1
    <3> QED
      BY <3>3, <3>4, <3>5, <3>6, <3>7
  <2>3. c \in Nat /\ c + g <= Len(full) /\ Y[0] = y(h, 0, 0) /\ Y[g] = y(h, g, 0)
    BY <1>2
  <2> HIDE DEF Y, y, c
  <2>4. A[c] = Behind(L, Y[0])
    BY <1>5, <2>3 DEF c
  <2>5. A[c + g] = Behind(L, Y[g])
    <3>1. IsStretch(full, A, L, c, g, Y)
      BY <1>2, <2>1, <2>2, <2>3, <2>4 DEF IsStretch
    <3> QED
      BY ONLY <3>1, Stretch, SMT
  <2> QED
    BY <2>3, <2>5 DEF c
<1>7. A[b + 1 + h + g + e] = Behind(L, y(h, g, e))
  <2> DEFINE Y == [p \in 0 .. e |-> y(h, g, p)]
             c == b + 1 + h + g
  <2>1. Y \in [0 .. e -> Ifcs]
    BY <1>2, <1>3
  <2>2. ASSUME NEW p \in 1 .. e
        PROVE  full[c + p].type # "interface" /\ Y[p] = Attach(Y[p - 1], full[c + p])
    <3>1. p - 1 \in 0 .. e /\ p \in 0 .. e
      BY <1>2
    <3>2. full[c + p] = x.endpoints[p] /\ x.endpoints[p] \in EndpointItems
      BY <1>0, <1>2 DEF e
    <3>3. full[c + p].type = "endpoint"
      BY <3>2 DEF EndpointItems
    <3>4. Attach(y(h, g, p - 1), full[c + p])
            = [y(h, g, p - 1) EXCEPT !.endpoints = Append(Firsts(x.endpoints, p - 1), x.endpoints[p])]
      BY <3>2, <3>3 DEF Attach
    <3>5. Firsts(x.endpoints, p) = Append(Firsts(x.endpoints, p - 1), x.endpoints[p])
      BY <1>0, FirstsFacts DEF e
    <3>6. [y(h, g, p - 1) EXCEPT !.endpoints = Firsts(x.endpoints, p)] = y(h, g, p)
      OBVIOUS
    <3> HIDE DEF y
    <3>7. Y[p] = y(h, g, p) /\ Y[p - 1] = y(h, g, p - 1)
      BY <3>1
    <3> QED
      BY <3>3, <3>4, <3>5, <3>6, <3>7
  <2>3. c \in Nat /\ c + e <= Len(full) /\ Y[0] = y(h, g, 0) /\ Y[e] = y(h, g, e)
    BY <1>2
  <2> HIDE DEF Y, y, c
  <2>4. A[c] = Behind(L, Y[0])
    BY <1>6, <2>3 DEF c
  <2>5. A[c + e] = Behind(L, Y[e])
    <3>1. IsStretch(full, A, L, c, e, Y)
      BY <1>2, <2>1, <2>2, <2>3, <2>4 DEF IsStretch
    <3> QED
      BY ONLY <3>1, Stretch, SMT
  <2> QED
    BY <2>3, <2>5 DEF c
<1>8. y(h, g, e) = x
  <2>1. Firsts(x.hid, h) = x.hid /\ Firsts(x.generics, g) = x.generics /\ Firsts(x.endpoints, e) = x.endpoints
    BY <1>0, FirstsFacts DEF h, g, e
  <2> QED
    BY <1>0, <2>1
<1> QED
  BY <1>2, <1>7, <1>8

(* What is flattened begins with what the first sequences give.            *)
Begins(s, t) == Len(s) <= Len(t) /\ \A p \in 1 .. Len(s) : t[p] = s[p]

(* Each of FlattenSteps' sequences begins the last.                        *)
LEMMA FlattenPrefixes ==
    ASSUME NEW X, NEW seqs \in Seq(Seq(X)), NEW F \in [0 .. Len(seqs) -> Seq(X)],
           \A i \in 1 .. Len(seqs) : F[i] = F[i - 1] \o seqs[i]
    PROVE  /\ \A i \in 1 .. Len(seqs) : IsJoined(F[i], F[i - 1], seqs[i], X)
           /\ \A i \in 0 .. Len(seqs) : Begins(F[i], F[Len(seqs)])
<1> DEFINE n == Len(seqs)
<1>0. n \in Nat /\ \A i \in 1 .. n : seqs[i] \in Seq(X)
  OBVIOUS
<1>1. ASSUME NEW i \in 1 .. n PROVE IsJoined(F[i], F[i - 1], seqs[i], X)
  <2>0. i - 1 \in 0 .. n
    BY <1>0
  <2>1. F[i - 1] \in Seq(X) /\ seqs[i] \in Seq(X) /\ F[i] = F[i - 1] \o seqs[i]
    BY <1>0, <2>0
  <2> QED
    BY <2>1, Joined
<1> DEFINE S == {m \in 0 .. n : \A i \in 0 .. m : Begins(F[i], F[m])}
<1>2. \A i \in 0 .. n : Begins(F[i], F[i])
  BY DEF Begins
<1> HIDE DEF n
<1>3. 0 \in S
  BY <1>0, <1>2
<1>4. ASSUME NEW m \in 0 .. n - 1, m \in S PROVE m + 1 \in S
  <2> DEFINE k == m + 1
  <2>1. k \in 1 .. n /\ k \in 0 .. n /\ k - 1 = m
    BY <1>0
  <2>2. ASSUME NEW i \in 0 .. m PROVE Begins(F[i], F[k])
    <3>0. i \in 0 .. n /\ m \in 0 .. n
      BY <1>0
    <3>1. F[i] \in Seq(X) /\ F[m] \in Seq(X) /\ F[k] \in Seq(X) /\ seqs[k] \in Seq(X)
      <4> HIDE DEF k
      <4> QED
        BY <1>0, <2>1, <3>0 DEF n
    <3>2. IsJoined(F[k], F[m], seqs[k], X) /\ Begins(F[i], F[m])
      BY <1>1, <1>4, <2>1
    <3> DEFINE u == Len(F[i])
               v == Len(F[m])
               w == Len(seqs[k])
    <3>3. u \in Nat /\ v \in Nat /\ w \in Nat
      BY <3>1
    <3> HIDE DEF k, u, v, w
    <3>4. Len(F[k]) = v + w /\ u <= v /\ (\A p \in 1 .. v : F[k][p] = F[m][p])
          /\ \A p \in 1 .. u : F[m][p] = F[i][p]
      BY <3>2 DEF IsJoined, Begins, u, v, w
    <3>5. u <= v + w /\ \A p \in 1 .. u : F[k][p] = F[i][p]
      BY <3>3, <3>4
    <3> QED
      BY <3>4, <3>5 DEF Begins, u
  <2>3. \A i \in 0 .. k : i \in 0 .. m \/ i = k
    OBVIOUS
  <2> HIDE DEF k
  <2>4. k \in S
    BY <1>2, <2>1, <2>2, <2>3
  <2> QED
    BY <2>4 DEF k
<1> HIDE DEF S
<1>5. \A m \in 0 .. n : m \in S
  BY <1>0, <1>3, <1>4, UpTo, Zenon
<1>6. n \in S
  BY <1>0, <1>5
<1> QED
  BY <1>1, <1>6 DEF S, n

(* get_full_descriptor() of a list of interfaces.                          *)
Written(xs) == FlattenSeq([i \in DOMAIN xs |-> InterfaceDescriptor(xs[i])])

(* E says where each interface ends.                                       *)
IsLayout(E, xs, full) ==
    /\ full \in Seq(Items) /\ E \in [0 .. Len(xs) -> Nat] /\ E[0] = 0 /\ E[Len(xs)] = Len(full)
    /\ \A k \in 1 .. Len(xs) :
         LET d == InterfaceDescriptor(xs[k])
         IN IsPlaced(full, xs[k], E[k - 1], d) /\ E[k] = E[k - 1] + Len(d)

(* Every interface has its place.                                          *)
LEMMA ListPlaced ==
    ASSUME NEW xs \in Seq(PlainIfcs), NEW full, full = Written(xs)
    PROVE  \E E : IsLayout(E, xs, full)
<1> DEFINE n == Len(xs)
           seqs == [i \in DOMAIN xs |-> InterfaceDescriptor(xs[i])]
           Q == Seq(Items)
<1>1. n \in Nat /\ DOMAIN xs = 1 .. n /\ \A i \in 1 .. n : xs[i] \in PlainIfcs
  OBVIOUS
<1>2. \A i \in 1 .. n : InterfaceDescriptor(xs[i]) \in Q
  BY <1>1, DescriptorItems DEF IsDescriptor
<1>3. \A i \in 1 .. n : seqs[i] = InterfaceDescriptor(xs[i])
  BY <1>1
<1>4. seqs \in Seq(Q) /\ Len(seqs) = n
  <2> HIDE DEF Q, n
  <2>1. seqs \in [1 .. n -> Q]
    BY <1>1, <1>2
  <2> HIDE DEF seqs
  <2>2. seqs \in Seq(Q)
    BY <1>1, <2>1, FcnIsSeq
  <2>3. DOMAIN seqs = 1 .. n
    BY <2>1
  <2> QED
    BY <1>1, <2>2, <2>3
<1>0. full = FlattenSeq(seqs)
  BY DEF Written
<1> HIDE DEF n, seqs
<1>5. PICK F \in [0 .. n -> Q] :
        F[0] = <<>> /\ (\A i \in 1 .. n : F[i] = F[i - 1] \o seqs[i]) /\ full = F[n]
  BY <1>0, <1>4, FlattenSteps
<1>6. full \in Q
  BY <1>1, <1>5
<1>7. /\ \A i \in 1 .. n : IsJoined(F[i], F[i - 1], seqs[i], Items)
      /\ \A i \in 0 .. n : Begins(F[i], full)
  BY <1>4, <1>5, FlattenPrefixes
<1> DEFINE E == [k \in 0 .. n |-> Len(F[k])]
<1>8. E \in [0 .. n -> Nat] /\ E[0] = 0 /\ E[n] = Len(full)
  <2>1. \A k \in 0 .. n : Len(F[k]) \in Nat
    BY <1>5
  <2>2. 0 \in 0 .. n /\ n \in 0 .. n /\ Len(F[0]) = 0
    BY <1>1, <1>5
  <2> QED
    BY <1>5, <2>1, <2>2
<1>9. ASSUME NEW k \in 1 .. n
      PROVE  LET d == InterfaceDescriptor(xs[k])
             IN IsPlaced(full, xs[k], E[k - 1], d) /\ E[k] = E[k - 1] + Len(d)
  <2> DEFINE m == k - 1
             b == Len(F[m])
             d == seqs[k]
             x == xs[k]
  <2>1. k \in 0 .. n /\ m \in 0 .. n
    BY <1>1
  <2>0. E[k] = Len(F[k]) /\ E[m] = b
    BY <2>1
  <2> HIDE DEF m, E
  <2>2. x \in PlainIfcs /\ d = InterfaceDescriptor(x)
    BY <1>1, <1>3
  <2>3. d \in Q /\ F[m] \in Q /\ F[k] \in Q
    BY <1>2, <1>3, <1>5, <2>1
  <2>4. b \in Nat /\ Len(d) \in Nat
    BY <2>3
  <2>5. IsJoined(F[k], F[m], d, Items) /\ Begins(F[k], full)
    BY <1>7, <2>1 DEF m
  <2>6. Len(F[k]) = b + Len(d) /\ (\A p \in 1 .. Len(d) : F[k][b + p] = d[p])
        /\ Len(F[k]) <= Len(full) /\ \A p \in 1 .. Len(F[k]) : full[p] = F[k][p]
    BY <2>5 DEF IsJoined, Begins
  <2> HIDE DEF b, d, x
  <2>7. \A p \in 1 .. Len(d) : full[b + p] = d[p]
    <3> SUFFICES ASSUME NEW p \in 1 .. Len(d) PROVE full[b + p] = d[p]
      OBVIOUS
    <3>1. b + p \in 1 .. Len(F[k])
      BY <2>4, <2>6
    <3> QED
      BY <2>6, <3>1
  <2>8. IsPlaced(full, x, b, d)
    <3>1. b + Len(d) <= Len(full)
      BY <2>6
    <3> QED
      BY <1>6, <2>2, <2>4, <2>7, <3>1 DEF IsPlaced
  <2> QED
    BY <2>0, <2>2, <2>6, <2>8 DEF m, x
<1> HIDE DEF E
<1>10. IsLayout(E, xs, full)
  BY <1>6, <1>8, <1>9 DEF IsLayout, n
<1> QED
  BY <1>10

(* Configuration::get_full_descriptor() of plain interfaces reads back as  *)
(* those interfaces.                                                       *)
LEMMA ListReadsBack ==
    ASSUME NEW xs \in Seq(PlainIfcs)
    PROVE  ParseInterfaces(Written(xs)) = xs
<1> DEFINE n == Len(xs)
           full == Written(xs)
<1>1. n \in Nat
  OBVIOUS
<1>2. PICK E : IsLayout(E, xs, full)
  BY ListPlaced
<1> HIDE DEF full, n
<1>3. full \in Seq(Items) /\ E \in [0 .. n -> Nat] /\ E[0] = 0 /\ E[n] = Len(full)
  BY <1>2 DEF IsLayout, n
<1>4. ASSUME NEW k \in 1 .. n
      PROVE  LET d == InterfaceDescriptor(xs[k])
             IN IsPlaced(full, xs[k], E[k - 1], d) /\ E[k] = E[k - 1] + Len(d)
  BY <1>2 DEF IsLayout, n
<1>5. PICK A : IsRun(A, ParseStep(full), Start, Accs, Len(full)) /\ ParseInterfaces(full) = A[Len(full)].list
  BY <1>3, ParseRun
<1> DEFINE S == {m \in 0 .. n : A[E[m]] = [lead |-> <<>>, list |-> Firsts(xs, m)]}
<1>6. 0 \in S
  <2>1. A[0] = Start
    BY <1>3, <1>5, ParseNext
  <2>2. Firsts(xs, 0) = <<>> /\ 0 \in 0 .. n
    BY <1>1, FirstsFacts
  <2> QED
    BY <1>3, <2>1, <2>2 DEF Start
<1>7. ASSUME NEW m \in 0 .. n - 1, m \in S PROVE m + 1 \in S
  <2> DEFINE k == m + 1
             L == Firsts(xs, m)
             b == E[m]
             x == xs[k]
             d == InterfaceDescriptor(x)
  <2>1. k \in 1 .. n /\ k \in 0 .. n /\ m \in 0 .. n /\ k - 1 = m
    BY <1>1
  <2> HIDE DEF k
  <2>2. L \in Seq(Ifcs) /\ Firsts(xs, k) = Append(L, x)
    <3>1. L \in Seq(PlainIfcs) /\ Firsts(xs, k) = Append(L, x)
      BY <2>1, FirstsFacts DEF n
    <3> HIDE DEF L
    <3>2. PlainIfcs \subseteq Ifcs
      BY PlainTypes
    <3> QED
      BY <3>1, <3>2
  <2>3. IsPlaced(full, x, b, d) /\ E[k] = b + Len(d)
    BY <1>4, <2>1
  <2>4. A[b] = [lead |-> <<>>, list |-> L]
    BY <1>7
  <2> HIDE DEF b, d, x, L
  <2>5. Reaches(full, A, L, x, b, d)
    BY <1>5, <2>2, <2>3, <2>4 DEF Reaches
  <2>6. A[b + Len(d)] = Behind(L, x)
    BY ONLY <2>5, OneInterface, SMT
  <2>7. A[E[k]] = [lead |-> <<>>, list |-> Firsts(xs, k)]
    BY <2>2, <2>3, <2>6 DEF Behind
  <2> QED
    BY <2>1, <2>7 DEF k
<1> HIDE DEF S
<1>8. \A m \in 0 .. n : m \in S
  BY <1>1, <1>6, <1>7, UpTo, Zenon
<1>9. A[Len(full)] = [lead |-> <<>>, list |-> Firsts(xs, n)]
  BY <1>1, <1>3, <1>8 DEF S
<1>10. Firsts(xs, n) = xs
  BY FirstsFacts DEF n
<1> QED
  BY <1>5, <1>9, <1>10 DEF full

(* A descriptor of no known type is a generic one.                         *)
LEMMA OtherType ==
    ASSUME NEW it \in Items, it.type \notin {"interface", "endpoint", "hid"}
    PROVE  it \in OtherItems
  BY DEF Items, InterfaceItems, EndpointItems, HidItems, OtherItems

(* Attach() leaves a plain interface plain.                                *)
LEMMA AttachPlain ==
    ASSUME NEW it \in Items, NEW ifc \in PlainIfcs, it.type # "interface"
    PROVE  Attach(ifc, it) \in PlainIfcs
<1> DEFINE E == Seq(EndpointItems)
           G == Seq(OtherItems)
           D == InterfaceItems
<1>0. ifc \in [desc : D, hid : Hids, generics : G, endpoints : E]
  BY DEF PlainIfcs
<1>1. it \in EndpointItems => Append(ifc.endpoints, it) \in E
  BY <1>0
<1>2. it \in OtherItems => Append(ifc.generics, it) \in G
  BY <1>0
<1>3. it \in HidItems => <<it>> \in Hids
  BY DEF Hids
<1> HIDE DEF D, G, E
<1>4. CASE it.type = "endpoint"
  <2>1. Attach(ifc, it) = [ifc EXCEPT !.endpoints = Append(ifc.endpoints, it)]
    BY <1>4 DEF Attach
  <2>2. Append(ifc.endpoints, it) \in E
    BY <1>1, <1>4, ItemTypes
  <2>3. Attach(ifc, it) \in [desc : D, hid : Hids, generics : G, endpoints : E]
    BY <1>0, <2>1, <2>2
  <2> QED
    BY <2>3 DEF PlainIfcs, D, G, E
<1>5. CASE it.type = "hid"
  <2>1. Attach(ifc, it) = [ifc EXCEPT !.hid = <<it>>]
    BY <1>5 DEF Attach
  <2>2. <<it>> \in Hids
    BY <1>3, <1>5, ItemTypes
  <2>3. Attach(ifc, it) \in [desc : D, hid : Hids, generics : G, endpoints : E]
    BY <1>0, <2>1, <2>2
  <2> QED
    BY <2>3 DEF PlainIfcs, D, G, E
<1>6. CASE it.type \notin {"endpoint", "hid"}
  <2>1. Attach(ifc, it) = [ifc EXCEPT !.generics = Append(ifc.generics, it)]
    BY <1>6 DEF Attach
  <2>2. Append(ifc.generics, it) \in G
    BY <1>2, <1>6, OtherType
  <2>3. Attach(ifc, it) \in [desc : D, hid : Hids, generics : G, endpoints : E]
    BY <1>0, <2>1, <2>2
  <2> QED
    BY <2>3 DEF PlainIfcs, D, G, E
<1> QED
  BY <1>4, <1>5, <1>6

(* Where an interface comes first, all interfaces are plain.               *)
LEMMA ParsePlain ==
    ASSUME NEW items \in Seq(Items), LedByInterface(items)
    PROVE  ParseInterfaces(items) \in Seq(PlainIfcs)
<1> DEFINE n == Len(items)
           Plain(a, m) == /\ a.list \in Seq(PlainIfcs) /\ a.lead \in Seq(OtherItems)
                          /\ a.list = <<>> => \A j \in 1 .. m : items[j].type # "interface"
<1>1. n \in Nat /\ \A i \in 1 .. n : items[i] \in Items
  OBVIOUS
<1>2. PICK A : IsRun(A, ParseStep(items), Start, Accs, n) /\ ParseInterfaces(items) = A[n].list
  BY ParseRun
<1>3. /\ A[0] = Start /\ \A i \in 0 .. n : A[i] \in Accs
      /\ \A i \in 1 .. n : A[i] = ParseItem(A[i - 1], items[i])
  BY <1>2, ParseNext
<1> DEFINE S == {m \in 0 .. n : Plain(A[m], m)}
<1>4. 0 \in S
  <2>1. Plain(Start, 0)
    BY DEF Start
  <2> HIDE DEF Plain
  <2> QED
    BY <1>1, <1>3, <2>1
<1> HIDE DEF n
<1>5. ASSUME NEW m \in 0 .. n - 1, m \in S PROVE m + 1 \in S
  <2> DEFINE k == m + 1
             it == items[k]
             a == A[m]
  <2>1. k \in 1 .. n /\ k \in 0 .. n /\ m \in 0 .. n /\ k - 1 = m
    BY <1>1
  <2>0. \A j \in 1 .. k : j \in 1 .. m \/ j = k
    BY <1>1
  <2> HIDE DEF k
  <2>2. it \in Items /\ A[k] = ParseItem(a, it) /\ a \in Accs
    BY <1>1, <1>3, <2>1
  <2>3. a.list \in Seq(PlainIfcs) /\ a.lead \in Seq(OtherItems)
        /\ (a.list = <<>> => \A j \in 1 .. m : items[j].type # "interface")
    BY <1>5
  <2>4. a = [lead |-> a.lead, list |-> a.list]
    BY <2>2 DEF Accs
  <2>5. it.type \in {"endpoint", "hid"} => \E j \in 1 .. m : items[j].type = "interface"
    BY <2>1 DEF LedByInterface, n
  <2>9. it.type = items[k].type
    OBVIOUS
  <2> HIDE DEF it, a
  <2>6. CASE it.type = "interface"
    <3> DEFINE new == [desc |-> it, hid |-> Null, generics |-> a.lead, endpoints |-> <<>>]
               t == Append(a.list, new)
    <3>1. new \in PlainIfcs
      <4>1. it \in InterfaceItems /\ Null \in Hids /\ <<>> \in Seq(EndpointItems)
        BY <2>2, <2>6, ItemTypes DEF Null, Hids
      <4> QED
        BY <2>3, <4>1 DEF PlainIfcs
    <3>2. ParseItem(a, it) = [lead |-> <<>>, list |-> t]
      BY <2>6 DEF ParseItem
    <3> HIDE DEF new
    <3>3. t \in Seq(PlainIfcs) /\ t # <<>> /\ <<>> \in Seq(OtherItems)
      BY <2>3, <3>1
    <3> HIDE DEF t
    <3>4. A[k].list = t /\ A[k].lead = <<>>
      BY <2>2, <3>2
    <3>5. Plain(A[k], k)
      BY <3>3, <3>4
    <3> HIDE DEF Plain
    <3> QED
      BY <2>1, <3>5 DEF k
  <2>7. CASE it.type # "interface" /\ a.list = <<>>
    <3>1. it \in OtherItems
      BY <2>2, <2>3, <2>5, <2>7, OtherType
    <3> DEFINE t == Append(a.lead, it)
    <3>2. ParseItem(a, it) = [lead |-> t, list |-> a.list]
      BY <2>4, <2>7 DEF ParseItem
    <3>3. t \in Seq(OtherItems)
      BY <2>3, <3>1
    <3> HIDE DEF t
    <3>4. A[k].list = a.list /\ A[k].lead = t
      BY <2>2, <3>2
    <3>5. \A j \in 1 .. k : items[j].type # "interface"
      BY <2>0, <2>3, <2>7, <2>9
    <3>6. Plain(A[k], k)
      BY <2>3, <3>3, <3>4, <3>5
    <3> HIDE DEF Plain
    <3> QED
      BY <2>1, <3>6 DEF k
  <2>8. CASE it.type # "interface" /\ a.list # <<>>
    <3> DEFINE l == Len(a.list)
               new == Attach(a.list[l], it)
               t == [a.list EXCEPT ![l] = new]
    <3>1. l \in 1 .. Len(a.list)
      BY <2>3, <2>8
    <3>2. new \in PlainIfcs
      BY <2>2, <2>3, <2>8, <3>1, AttachPlain
    <3>3. ParseItem(a, it) = [lead |-> a.lead, list |-> t]
      BY <2>4, <2>8 DEF ParseItem
    <3> HIDE DEF new
    <3>4. t \in Seq(PlainIfcs) /\ Len(t) = Len(a.list)
      BY <2>3, <3>1, <3>2, ExceptSeq
    <3> HIDE DEF t
    <3>5. t # <<>>
      BY <3>1, <3>4
    <3>6. A[k].list = t /\ A[k].lead = a.lead
      BY <2>2, <3>3
    <3>7. Plain(A[k], k)
      BY <2>3, <3>4, <3>5, <3>6
    <3> HIDE DEF Plain
    <3> QED
      BY <2>1, <3>7 DEF k
  <2> QED
    BY <2>6, <2>7, <2>8
<1>6. A[n].list \in Seq(PlainIfcs)
  <2> HIDE DEF S
  <2>1. \A m \in 0 .. n : m \in S
    BY <1>1, <1>4, <1>5, UpTo, Zenon
  <2> QED
    BY <1>1, <2>1 DEF S
<1> QED
  BY <1>2, <1>6

-----------------------------------------------------------------------------
(* Lengths and offsets of descriptors *)

(* Descriptors, and endpoint descriptors with a converted polling rate.    *)
Mixed == Items \cup {ConvertItem(it) : it \in Items}

(* A conversion leaves the length, and all but endpoints.                  *)
LEMMA ConvertFacts ==
    ASSUME NEW it \in Items
    PROVE  /\ it.len \in Length /\ ConvertItem(it).len = it.len
           /\ it.type # "endpoint" => ConvertItem(it) = it
<1>1. it.len \in Length
  BY DEF Items, InterfaceItems, EndpointItems, HidItems, OtherItems
<1>2. ConvertItem(it).len = it.len
  <2>1. CASE it.type = "endpoint"
    <3>1. it \in EndpointItems
      BY <2>1, ItemTypes
    <3>2. ConvertItem(it) = [it EXCEPT !.interval = Converted(it.interval)]
      BY <2>1 DEF ConvertItem
    <3> QED
      BY <3>1, <3>2 DEF EndpointItems
  <2>2. CASE it.type # "endpoint"
    BY <2>2 DEF ConvertItem
  <2> QED
    BY <2>1, <2>2
<1> QED
  BY <1>1, <1>2 DEF ConvertItem

(* So every length is positive.                                            *)
LEMMA MixedLengths ==
    ASSUME NEW it \in Mixed
    PROVE  it.len \in Nat /\ it.len > 0
<1>1. it.len \in Length
  BY ConvertFacts DEF Mixed
<1> QED
  BY <1>1 DEF Length

(* Where each descriptor of a list begins and the last one ends.           *)
IsOffsets(B, s) ==
    B \in [0 .. Len(s) -> Nat] /\ B[0] = 0 /\ \A i \in 1 .. Len(s) : B[i] = B[i - 1] + s[i].len

(* The fold that adds the lengths up goes through the offsets.             *)
LEMMA BytesRun ==
    ASSUME NEW s \in Seq(Mixed)
    PROVE  \E B : IsOffsets(B, s) /\ Bytes(s) = B[Len(s)]
<1> DEFINE n == Len(s)
           st == [i \in 1 .. n |-> [m \in Nat |-> m + s[i].len]]
           Solves(g) == g = [t \in SUBSET DOMAIN s |->
                               IF t = {} THEN 0 ELSE g[t \ {Max(t)}] + s[Max(t)].len]
           f == CHOOSE g : Solves(g)
<1>1. n \in Nat /\ DOMAIN s = 1 .. n /\ \A i \in 1 .. n : s[i] \in Mixed
  OBVIOUS
<1>2. \A i \in 1 .. n : s[i].len \in Nat
  BY <1>1, MixedLengths
<1>3. st \in Steps(Nat, n)
  BY <1>2 DEF Steps
<1>4. \A i \in 1 .. n : \A m \in Nat : st[i][m] = m + s[i].len
  OBVIOUS
<1>8. Bytes(s) = f[DOMAIN s]
  BY Zenon DEF Bytes, FoldLeft, MapThenFoldSet
<1> HIDE DEF st, n
<1>5. PICK g : IsFold(g, st, 0, Nat, n)
  <2>1. 0 \in Nat
    OBVIOUS
  <2> QED
    BY <1>1, <1>3, <2>1, FoldRecursion, Zenon
<1>6. Solves(g)
  <2>1. g \in [SUBSET (1 .. n) -> Nat]
        /\ \A t \in SUBSET (1 .. n) : g[t] = IF t = {} THEN 0 ELSE st[Max(t)][g[t \ {Max(t)}]]
    BY <1>5 DEF IsFold
  <2>2. ASSUME NEW t \in SUBSET (1 .. n), t # {}
        PROVE  st[Max(t)][g[t \ {Max(t)}]] = g[t \ {Max(t)}] + s[Max(t)].len
    <3>1. Max(t) \in 1 .. n
      BY <1>1, <2>2, LastPosition
    <3>2. g[t \ {Max(t)}] \in Nat
      BY <2>1
    <3> QED
      BY <1>4, <3>1, <3>2
  <2> QED
    BY <1>1, <2>1, <2>2
<1>7. Solves(f)
  BY <1>6, Zenon
<1> HIDE DEF f
<1>9. f[{}] = 0
  BY <1>7
<1>10. ASSUME NEW t \in SUBSET (1 .. n), t # {}, f[t \ {Max(t)}] \in Nat
       PROVE  f[t] = st[Max(t)][f[t \ {Max(t)}]]
  <2>1. f[t] = f[t \ {Max(t)}] + s[Max(t)].len
    BY <1>1, <1>7, <1>10
  <2>2. Max(t) \in 1 .. n
    BY <1>1, <1>10, LastPosition
  <2> QED
    BY <1>4, <1>10, <2>1, <2>2
<1> DEFINE B == [i \in 0 .. n |-> f[1 .. i]]
<1>11. IsRun(B, st, 0, Nat, n)
  BY <1>1, <1>3, <1>9, <1>10, FoldRun
<1>12. B[n] = f[DOMAIN s]
  BY <1>1
<1> HIDE DEF B
<1>13. IsOffsets(B, s)
  <2>1. B \in [0 .. n -> Nat] /\ B[0] = 0 /\ \A i \in 1 .. n : B[i] = st[i][B[i - 1]]
    BY <1>11 DEF IsRun
  <2>2. ASSUME NEW i \in 1 .. n PROVE B[i] = B[i - 1] + s[i].len
    <3>1. i - 1 \in 0 .. n
      BY <1>1
    <3>2. B[i - 1] \in Nat
      BY <2>1, <3>1
    <3> QED
      BY <1>4, <2>1, <3>2
  <2> QED
    BY <2>1, <2>2 DEF IsOffsets, n
<1> QED
  BY <1>8, <1>12, <1>13 DEF n

(* There is one way to count them.                                         *)
LEMMA BytesAreOffsets ==
    ASSUME NEW s \in Seq(Mixed), NEW B, IsOffsets(B, s)
    PROVE  Bytes(s) = B[Len(s)]
<1> DEFINE n == Len(s)
<1>1. PICK C : IsOffsets(C, s) /\ Bytes(s) = C[n]
  BY BytesRun
<1>2. n \in Nat
  OBVIOUS
<1> HIDE DEF n
<1> DEFINE S == {m \in 0 .. n : B[m] = C[m]}
<1>3. /\ B[0] = 0 /\ \A i \in 1 .. n : B[i] = B[i - 1] + s[i].len
      /\ C[0] = 0 /\ \A i \in 1 .. n : C[i] = C[i - 1] + s[i].len
  BY <1>1 DEF IsOffsets, n
<1>4. 0 \in S
  BY <1>2, <1>3
<1>5. ASSUME NEW m \in 0 .. n - 1, m \in S PROVE m + 1 \in S
  <2> DEFINE k == m + 1
  <2>1. k \in 1 .. n /\ k \in 0 .. n /\ k - 1 = m
    BY <1>2
  <2> HIDE DEF k
  <2>2. B[k] = C[k]
    BY <1>3, <1>5, <2>1
  <2> QED
    BY <2>1, <2>2 DEF k
<1> HIDE DEF S
<1>6. \A m \in 0 .. n : m \in S
  BY <1>2, <1>4, <1>5, UpTo, Zenon
<1> QED
  BY <1>1, <1>2, <1>6 DEF S, n

(* Offsets increase.                                                       *)
LEMMA OffsetsIncrease ==
    ASSUME NEW s \in Seq(Mixed), NEW B, IsOffsets(B, s)
    PROVE  \A j \in 0 .. Len(s) : \A i \in 0 .. j : B[i] <= B[j] /\ (i # j => B[i] < B[j])
<1> DEFINE n == Len(s)
           Up(j) == \A i \in 0 .. j : B[i] <= B[j] /\ (i # j => B[i] < B[j])
           S == {m \in 0 .. n : Up(m)}
<1>1. n \in Nat /\ \A i \in 1 .. n : s[i] \in Mixed
  OBVIOUS
<1>2. \A i \in 1 .. n : s[i].len \in Nat /\ s[i].len > 0
  BY <1>1, MixedLengths
<1>3. B \in [0 .. n -> Nat] /\ \A i \in 1 .. n : B[i] = B[i - 1] + s[i].len
  BY DEF IsOffsets
<1> HIDE DEF n
<1>4. 0 \in S
  BY <1>1, <1>3
<1>5. ASSUME NEW m \in 0 .. n - 1, m \in S PROVE m + 1 \in S
  <2> DEFINE k == m + 1
  <2>1. k \in 1 .. n /\ k \in 0 .. n /\ k - 1 = m /\ m \in 0 .. n
    BY <1>1
  <2>2. \A i \in 0 .. k : i = k \/ i \in 0 .. m
    BY <2>1
  <2> HIDE DEF k
  <2>3. B[k] \in Nat /\ B[m] \in Nat /\ B[m] < B[k]
    BY <1>2, <1>3, <2>1
  <2>4. ASSUME NEW i \in 0 .. m PROVE B[i] < B[k]
    <3>0. i \in 0 .. n
      BY <1>1
    <3>1. B[i] \in Nat /\ B[i] <= B[m]
      BY <1>3, <1>5, <3>0
    <3> QED
      BY <2>3, <3>1
  <2>5. Up(k)
    <3> SUFFICES ASSUME NEW i \in 0 .. k PROVE B[i] <= B[k] /\ (i # k => B[i] < B[k])
      OBVIOUS
    <3>1. CASE i = k
      BY <2>3, <3>1
    <3>2. CASE i \in 0 .. m
      <4>0. i \in 0 .. n
        BY <1>1, <3>2
      <4>1. B[i] < B[k] /\ B[i] \in Nat
        BY <1>3, <2>4, <3>2, <4>0
      <4> QED
        BY <2>3, <4>1
    <3> QED
      BY <2>2, <3>1, <3>2
  <2> HIDE DEF Up
  <2> QED
    BY <2>1, <2>5 DEF k
<1>6. \A m \in 0 .. n : m \in S
  <2> HIDE DEF S
  <2> QED
    BY <1>1, <1>4, <1>5, UpTo, Zenon
<1> QED
  BY <1>6 DEF n

(* A stretch of the list.                                                  *)
IsPart(s, b, t) ==
    /\ t \in Seq(Mixed) /\ b \in Nat /\ b + Len(t) <= Len(s)
    /\ \A p \in 1 .. Len(t) : s[b + p] = t[p]

(* Its bytes are what lies between its offsets.                            *)
LEMMA BytesBetween ==
    ASSUME NEW s \in Seq(Mixed), NEW B, IsOffsets(B, s), NEW b, NEW t, IsPart(s, b, t)
    PROVE  B[b + Len(t)] = B[b] + Bytes(t)
<1> DEFINE n == Len(s)
           m == Len(t)
           C == [j \in 0 .. m |-> B[b + j] - B[b]]
<1>1. t \in Seq(Mixed) /\ b \in Nat /\ n \in Nat /\ m \in Nat /\ b + m <= n
  BY DEF IsPart
<1>2. \A p \in 1 .. m : s[b + p] = t[p]
  BY DEF IsPart
<1>3. B \in [0 .. n -> Nat] /\ \A i \in 1 .. n : B[i] = B[i - 1] + s[i].len
  BY DEF IsOffsets
<1>4. \A j \in 0 .. n : \A i \in 0 .. j : B[i] <= B[j]
  BY OffsetsIncrease
<1>t. \A p \in 1 .. m : t[p].len \in Nat
  BY <1>1, MixedLengths
<1> HIDE DEF n, m
<1>5. ASSUME NEW j \in 0 .. m PROVE b + j \in 0 .. n /\ b \in 0 .. b + j
  BY <1>1
<1>6. b \in 0 .. n /\ B[b] \in Nat
  <2>1. b \in 0 .. n
    BY <1>1
  <2> QED
    BY <1>3, <2>1
<1>7. ASSUME NEW j \in 0 .. m PROVE C[j] \in Nat /\ C[j] = B[b + j] - B[b] /\ B[b + j] \in Nat
  <2>1. B[b + j] \in Nat /\ B[b] <= B[b + j]
    BY <1>3, <1>4, <1>5
  <2> QED
    BY <1>6, <2>1
<1>8. C \in [0 .. m -> Nat]
  BY <1>7
<1>9. C[0] = 0
  <2>1. 0 \in 0 .. m /\ b + 0 = b
    BY <1>1
  <2> QED
    BY <1>6, <1>7, <2>1
<1>10. ASSUME NEW p \in 1 .. m PROVE C[p] = C[p - 1] + t[p].len
  <2> DEFINE q == b + p
  <2>1. p \in 0 .. m /\ p - 1 \in 0 .. m /\ q \in 1 .. n /\ q - 1 = b + (p - 1)
    BY <1>1
  <2>2. s[q] = t[p]
    BY <1>2
  <2>3. C[p] = B[q] - B[b] /\ B[q] \in Nat
    BY <1>7, <2>1
  <2>4. C[p - 1] = B[q - 1] - B[b] /\ B[q - 1] \in Nat
    BY <1>7, <2>1
  <2> HIDE DEF q, C
  <2>5. B[q] = B[q - 1] + t[p].len /\ t[p].len \in Nat
    BY <1>3, <1>t, <2>1, <2>2
  <2> QED
    BY <1>6, <2>3, <2>4, <2>5
<1> HIDE DEF C
<1>11. IsOffsets(C, t)
  BY <1>8, <1>9, <1>10 DEF IsOffsets, m
<1>12. Bytes(t) = C[m]
  BY <1>1, <1>11, BytesAreOffsets DEF m
<1>13. m \in 0 .. m
  BY <1>1
<1> QED
  BY <1>6, <1>7, <1>12, <1>13 DEF m

(* The item at an offset.                                                  *)
LEMMA ItemAtOffset ==
    ASSUME NEW s \in Seq(Mixed), NEW B, IsOffsets(B, s), NEW i \in 1 .. Len(s)
    PROVE  ItemAt(s, B[i - 1]) = i
<1> DEFINE n == Len(s)
           at == {j \in DOMAIN s : Bytes(SubSeq(s, 1, j - 1)) = B[i - 1]}
<1>1. n \in Nat /\ DOMAIN s = 1 .. n
  OBVIOUS
<1>2. ASSUME NEW j \in 1 .. n PROVE Bytes(SubSeq(s, 1, j - 1)) = B[j - 1]
  <2> DEFINE t == SubSeq(s, 1, j - 1)
             k == j - 1
  <2>1. k \in 0 .. n /\ t \in Seq(Mixed) /\ Len(t) = k /\ \A p \in 1 .. k : t[p] = s[p]
    OBVIOUS
  <2> HIDE DEF t, k
  <2>2. IsPart(s, 0, t)
    BY <2>1 DEF IsPart, n
  <2>3. B[0 + Len(t)] = B[0] + Bytes(t)
    BY ONLY <2>2, s \in Seq(Mixed), IsOffsets(B, s), BytesBetween, SMT
  <2>4. B[0] = 0 /\ B[k] \in Nat
    BY <2>1 DEF IsOffsets, n
  <2>5. B[k] = 0 + Bytes(t)
    BY <2>1, <2>3, <2>4
  <2>6. PICK C : IsOffsets(C, t) /\ Bytes(t) = C[Len(t)]
    BY <2>1, BytesRun
  <2>7. Bytes(t) \in Nat
    BY <2>1, <2>6 DEF IsOffsets
  <2> QED
    BY <2>5, <2>7 DEF t, k
<1>3. ASSUME NEW j \in 1 .. n, B[j - 1] = B[i - 1] PROVE j = i
  <2>1. i - 1 \in 0 .. n /\ j - 1 \in 0 .. n /\ (i < j => i - 1 \in 0 .. j - 1 /\ i - 1 # j - 1)
        /\ (j < i => j - 1 \in 0 .. i - 1 /\ i - 1 # j - 1)
    OBVIOUS
  <2>2. B[i - 1] \in Nat
    BY <2>1 DEF IsOffsets
  <2>3. i < j => B[i - 1] < B[j - 1]
    BY <2>1, OffsetsIncrease
  <2>4. j < i => B[j - 1] < B[i - 1]
    BY <2>1, OffsetsIncrease
  <2> QED
    BY <1>3, <2>2, <2>3, <2>4
<1>4. at = {i}
  BY <1>1, <1>2, <1>3
<1> HIDE DEF at
<1> QED
  BY <1>4 DEF ItemAt, at

-----------------------------------------------------------------------------
(* The walk that converts polling rates *)

(* The first k descriptors done, and the pointer behind them.              *)
Half(full, k) == [q \in 1 .. Len(full) |-> IF q <= k THEN ConvertItem(full[q]) ELSE full[q]]
Reached(full, B, k) == [at |-> B[k], items |-> Half(full, k)]

(* Descriptors half converted have the offsets of the original ones.       *)
LEMMA HalfFacts ==
    ASSUME NEW full \in Seq(Items), NEW B, IsOffsets(B, full), NEW k
    PROVE  /\ Half(full, k) \in Seq(Mixed) /\ Len(Half(full, k)) = Len(full)
           /\ DOMAIN Half(full, k) = 1 .. Len(full)
           /\ IsOffsets(B, Half(full, k))
<1> DEFINE n == Len(full)
           t == Half(full, k)
<1>1. n \in Nat /\ \A q \in 1 .. n : full[q] \in Items
  OBVIOUS
<1>2. \A q \in 1 .. n : t[q] = IF q <= k THEN ConvertItem(full[q]) ELSE full[q]
  BY DEF Half
<1>3. t \in [1 .. n -> Mixed]
  <2>1. \A q \in 1 .. n : (IF q <= k THEN ConvertItem(full[q]) ELSE full[q]) \in Mixed
    BY <1>1 DEF Mixed
  <2> QED
    BY <2>1 DEF Half
<1>4. \A q \in 1 .. n : t[q].len = full[q].len
  <2> SUFFICES ASSUME NEW q \in 1 .. n PROVE t[q].len = full[q].len
    OBVIOUS
  <2>1. ConvertItem(full[q]).len = full[q].len
    BY <1>1, ConvertFacts
  <2> HIDE DEF t
  <2>2. CASE q <= k
    BY <1>2, <2>1, <2>2
  <2>3. CASE ~(q <= k)
    BY <1>2, <2>3
  <2> QED
    BY <2>2, <2>3
<1> HIDE DEF t
<1>5. t \in Seq(Mixed)
  BY <1>1, <1>3, FcnIsSeq
<1>6. DOMAIN t = 1 .. n
  BY <1>3
<1>7. Len(t) = n
  BY <1>1, <1>5, <1>6
<1>8. IsOffsets(B, t)
  BY <1>4, <1>7 DEF IsOffsets
<1> QED
  BY <1>5, <1>6, <1>7, <1>8 DEF t

(* One endpoint.                                                           *)
LEMMA EndpointWalk ==
    ASSUME NEW full \in Seq(Items), NEW B, IsOffsets(B, full),
           NEW k \in 1 .. Len(full), full[k].type = "endpoint"
    PROVE  AdjustOne(Reached(full, B, k - 1)) = Reached(full, B, k)
<1> DEFINE n == Len(full)
           t == Half(full, k - 1)
           u == Half(full, k)
           it == full[k]
           new == [it EXCEPT !.interval = Converted(it.interval)]
<1>1. n \in Nat /\ k \in 1 .. n /\ k # 0 /\ it \in Items
  OBVIOUS
<1>2. t \in Seq(Mixed) /\ Len(t) = n /\ DOMAIN t = 1 .. n /\ IsOffsets(B, t)
  BY HalfFacts
<1>3. ItemAt(t, B[k - 1]) = k
  <2> HIDE DEF t
  <2>1. k \in 1 .. Len(t)
    BY <1>2
  <2> QED
    BY <1>2, <2>1, ItemAtOffset
<1>4. t[k] = it
  BY DEF Half
<1>5. it.len \in Nat /\ B[k] = B[k - 1] + it.len
  <2>1. it.len \in Nat
    <3>1. it \in Mixed
      BY <1>1 DEF Mixed
    <3> HIDE DEF it
    <3> QED
      BY ONLY <3>1, MixedLengths, Zenon
  <2> QED
    BY <2>1 DEF IsOffsets
<1>6. new = ConvertItem(it)
  BY DEF ConvertItem
<1>7. [t EXCEPT ![k] = new] = u
  <2>1. t = [q \in 1 .. n |-> IF q <= k - 1 THEN ConvertItem(full[q]) ELSE full[q]]
        /\ u = [q \in 1 .. n |-> IF q <= k THEN ConvertItem(full[q]) ELSE full[q]]
    BY DEF Half
  <2>2. \A q \in 1 .. n : q # k => (q <= k - 1 <=> q <= k)
    BY <1>1
  <2> HIDE DEF t, u, it, new
  <2>3. [t EXCEPT ![k] = new] = [q \in 1 .. n |-> IF q = k THEN new ELSE t[q]]
    BY <1>2
  <2>4. ASSUME NEW q \in 1 .. n PROVE (IF q = k THEN new ELSE t[q]) = u[q]
    <3>1. CASE q = k
      BY <1>1, <1>6, <2>1, <3>1 DEF it
    <3>2. CASE q # k
      BY <2>1, <2>2, <3>2
    <3> QED
      BY <3>1, <3>2
  <2>5. u = [q \in 1 .. n |-> u[q]]
    BY <2>1
  <2> QED
    BY <2>3, <2>4, <2>5
<1> DEFINE w == [at |-> B[k - 1], items |-> t]
<1>8. AdjustOne(w) = [at |-> B[k - 1] + it.len, items |-> [t EXCEPT ![k] = new]]
  <2> HIDE DEF t, it
  <2>1. w.items = t /\ w.at = B[k - 1]
    OBVIOUS
  <2> HIDE DEF w
  <2>2. it.type = "endpoint"
    BY DEF it
  <2>3. ItemAt(w.items, w.at) = k
    BY <1>3, <2>1
  <2>4. AdjustOne(w) =
          [at |-> w.at + w.items[k].len,
           items |-> [w.items EXCEPT ![k] =
                        IF w.items[k].type = "endpoint"
                        THEN [w.items[k] EXCEPT !.interval = Converted(w.items[k].interval)]
                        ELSE [type |-> "damaged", len |-> w.items[k].len]]]
    BY ONLY <1>1, <2>3 DEF AdjustOne
  <2> QED
    BY <1>4, <2>1, <2>2, <2>4
<1> QED
  BY <1>5, <1>7, <1>8 DEF Reached

(* Descriptors that are stepped over are as if converted.                  *)
LEMMA SteppedOver ==
    ASSUME NEW full \in Seq(Items), NEW b \in Nat, NEW c \in Nat, b <= c,
           \A q \in 1 .. Len(full) : b < q /\ q <= c => full[q].type # "endpoint"
    PROVE  Half(full, b) = Half(full, c)
<1> DEFINE n == Len(full)
<1>1. ASSUME NEW q \in 1 .. n
      PROVE  (IF q <= b THEN ConvertItem(full[q]) ELSE full[q])
                = (IF q <= c THEN ConvertItem(full[q]) ELSE full[q])
  <2>1. full[q] \in Items
    OBVIOUS
  <2>2. b < q /\ q <= c => ConvertItem(full[q]) = full[q]
    BY <2>1, ConvertFacts
  <2>3. q \in Nat
    OBVIOUS
  <2> QED
    BY <2>2, <2>3
<1> QED
  BY <1>1 DEF Half

(* One interface with bNumEndpoints endpoints.                             *)
LEMMA InterfaceWalk ==
    ASSUME NEW full, NEW x, NEW b, NEW d, IsPlaced(full, x, b, d),
           NEW B, IsOffsets(B, full), x.desc.endpoints = Len(x.endpoints)
    PROVE  AdjustInterface(Reached(full, B, b), x) = Reached(full, B, b + Len(d))
<1> DEFINE h == Len(x.hid)
           g == Len(x.generics)
           e == Len(x.endpoints)
           n == Len(full)
           c == b + 1 + h + g
<1>1. /\ h \in 0 .. 1 /\ g \in Nat /\ e \in Nat /\ b \in Nat
      /\ b + Len(d) = b + 1 + h + g + e /\ b + 1 + h + g + e <= n
      /\ full[b + 1] = x.desc
      /\ \A p \in 1 .. h : full[b + 1 + p] = x.hid[p]
      /\ \A p \in 1 .. g : full[b + 1 + h + p] = x.generics[p]
      /\ \A p \in 1 .. e : full[b + 1 + h + g + p] = x.endpoints[p]
  <2>1. HasItems(full, x, b, d, h, g, e)
    BY PlacedItems, Zenon
  <2> HIDE DEF h, g, e
  <2> QED
    BY <2>1 DEF HasItems
<1>2. full \in Seq(Items) /\ x \in PlainIfcs
  BY DEF IsPlaced
<1>3. /\ x.desc \in InterfaceItems /\ x.hid \in Seq(HidItems)
      /\ x.generics \in Seq(OtherItems) /\ x.endpoints \in Seq(EndpointItems)
  BY <1>2 DEF PlainIfcs, Hids
<1>4. n \in Nat /\ full \in Seq(Mixed) /\ x.hid \in Seq(Mixed) /\ x.generics \in Seq(Mixed)
  <2>1. Items \subseteq Mixed /\ HidItems \subseteq Mixed /\ OtherItems \subseteq Mixed
    BY PlainTypes DEF Mixed
  <2>2. full \in Seq(Mixed) /\ n \in Nat
    BY <1>2, <2>1
  <2>3. x.hid \in Seq(Mixed)
    BY <1>3, <2>1
  <2>4. x.generics \in Seq(Mixed)
    BY <1>3, <2>1
  <2> QED
    BY <2>2, <2>3, <2>4
<1>a. B \in [0 .. n -> Nat] /\ \A i \in 1 .. n : B[i] = B[i - 1] + full[i].len
  BY DEF IsOffsets
<1> HIDE DEF h, g, e, n
<1>n. b \in Nat /\ h \in Nat /\ g \in Nat /\ e \in Nat /\ n \in Nat /\ b + 1 + h + g + e <= n
  BY <1>1, <1>4
<1>5. B[c] = B[b] + HeadLength(x)
  <2>1. B[b + 1] = B[b] + x.desc.len
    <3>1. b + 1 \in 1 .. n /\ b + 1 - 1 = b
      BY ONLY <1>n
    <3> QED
      BY <1>1, <1>a, <3>1
  <2>2. B[b + 1 + h] = B[b + 1] + Bytes(x.hid)
    <3>1. b + 1 \in Nat /\ b + 1 + h <= n
      BY ONLY <1>n
    <3>2. IsPart(full, b + 1, x.hid)
      BY <1>1, <1>4, <3>1 DEF IsPart, h, n
    <3> QED
      BY <1>4, <3>2, BytesBetween DEF h
  <2>3. B[b + 1 + h + g] = B[b + 1 + h] + Bytes(x.generics)
    <3>1. b + 1 + h \in Nat /\ b + 1 + h + g <= n
      BY ONLY <1>n
    <3>2. IsPart(full, b + 1 + h, x.generics)
      BY <1>1, <1>4, <3>1 DEF IsPart, g, n
    <3> QED
      BY <1>4, <3>2, BytesBetween DEF g
  <2>4. Bytes(x.hid) \in Nat /\ Bytes(x.generics) \in Nat
    <3>1. ASSUME NEW s \in Seq(Mixed) PROVE Bytes(s) \in Nat
      <4>1. PICK C : IsOffsets(C, s) /\ Bytes(s) = C[Len(s)]
        BY BytesRun
      <4>2. Len(s) \in 0 .. Len(s)
        OBVIOUS
      <4> QED
        BY <4>1, <4>2 DEF IsOffsets
    <3> QED
      BY <1>4, <3>1
  <2>5. x.desc.len \in Nat /\ B[b] \in Nat
    <3>1. x.desc.len \in Length
      BY <1>3 DEF InterfaceItems
    <3>2. b \in 0 .. n
      BY ONLY <1>n
    <3>3. x.desc.len \in Nat
      BY ONLY <3>1 DEF Length
    <3> QED
      BY <1>a, <3>2, <3>3
  <2>6. HeadLength(x) = x.desc.len + Bytes(x.hid) + Bytes(x.generics)
    BY DEF HeadLength
  <2> DEFINE y == x.desc.len
             z == Bytes(x.hid)
             v == Bytes(x.generics)
             b0 == B[b]
             b1 == B[b + 1]
             b2 == B[b + 1 + h]
             b3 == B[b + 1 + h + g]
  <2>7. b1 = b0 + y /\ b2 = b1 + z /\ b3 = b2 + v /\ y \in Nat /\ z \in Nat /\ v \in Nat /\ b0 \in Nat
    BY <2>1, <2>2, <2>3, <2>4, <2>5
  <2> HIDE DEF y, z, v, b0, b1, b2, b3
  <2>8. b3 = b0 + (y + z + v)
    BY ONLY <2>7
  <2> QED
    BY <2>6, <2>8 DEF y, z, v, b0, b3
<1>6. Half(full, b) = Half(full, c)
  <2>1. b \in Nat /\ c \in Nat /\ b <= c
    BY ONLY <1>n
  <2>2. ASSUME NEW q \in 1 .. n, b < q, q <= c PROVE full[q].type # "endpoint"
    <3>1. \/ q = b + 1
          \/ \E p \in 1 .. h : q = b + 1 + p
          \/ \E p \in 1 .. g : q = b + 1 + h + p
      <4>1. CASE q = b + 1
        BY <4>1
      <4>2. CASE b + 1 < q /\ q <= b + 1 + h
        <5>1. q - b - 1 \in 1 .. h /\ q = b + 1 + (q - b - 1)
          BY ONLY <1>n, <4>2, q \in 1 .. n
        <5> QED
          BY <5>1
      <4>3. CASE b + 1 + h < q
        <5>1. q - b - 1 - h \in 1 .. g /\ q = b + 1 + h + (q - b - 1 - h)
          BY ONLY <1>n, <2>2, <4>3, q \in 1 .. n
        <5> QED
          BY <5>1
      <4> QED
        BY ONLY <1>n, <2>2, <4>1, <4>2, <4>3, q \in 1 .. n
    <3>2. CASE q = b + 1
      BY <1>1, <1>3, <3>2 DEF InterfaceItems
    <3>3. ASSUME NEW p \in 1 .. h, q = b + 1 + p PROVE full[q].type # "endpoint"
      <4>1. full[q] = x.hid[p] /\ x.hid[p] \in HidItems
        BY <1>1, <1>3, <3>3 DEF h
      <4> QED
        BY <4>1 DEF HidItems
    <3>4. ASSUME NEW p \in 1 .. g, q = b + 1 + h + p PROVE full[q].type # "endpoint"
      <4>1. full[q] = x.generics[p] /\ x.generics[p] \in OtherItems
        BY <1>1, <1>3, <3>4 DEF g
      <4> QED
        BY <4>1 DEF OtherItems
    <3> QED
      BY <3>1, <3>2, <3>3, <3>4
  <2> HIDE DEF c
  <2> QED
    BY <1>2, <2>1, <2>2, SteppedOver DEF n
<1> DEFINE G == [k \in 0 .. e |-> Reached(full, B, c + k)]
           w == Reached(full, B, b)
           Solves(f) == f = [k \in 0 .. e |->
                               IF k = 0 THEN [w EXCEPT !.at = w.at + HeadLength(x)] ELSE AdjustOne(f[k - 1])]
           f == CHOOSE f : Solves(f)
<1>7. [w EXCEPT !.at = w.at + HeadLength(x)] = Reached(full, B, c)
  BY <1>5, <1>6 DEF Reached
<1>8. ASSUME NEW k \in 1 .. e PROVE AdjustOne(Reached(full, B, c + (k - 1))) = Reached(full, B, c + k)
  <2> DEFINE q == c + k
  <2>1. q \in 1 .. n /\ q - 1 = c + (k - 1)
    BY ONLY <1>n
  <2>2. full[q] = x.endpoints[k] /\ x.endpoints[k] \in EndpointItems
    BY <1>1, <1>3 DEF e
  <2>3. full[q].type = "endpoint"
    BY <2>2 DEF EndpointItems
  <2> HIDE DEF q
  <2>4. AdjustOne(Reached(full, B, q - 1)) = Reached(full, B, q)
    BY <1>2, <2>1, <2>3, EndpointWalk DEF n
  <2> QED
    BY <2>1, <2>4 DEF q
<1> HIDE DEF c
<1>9. Solves(G)
  <2>1. ASSUME NEW k \in 0 .. e
        PROVE  G[k] = IF k = 0 THEN [w EXCEPT !.at = w.at + HeadLength(x)] ELSE AdjustOne(G[k - 1])
    <3> HIDE DEF w
    <3>1. CASE k = 0
      <4>1. c + k = c
        BY ONLY <1>n, <3>1 DEF c
      <4> QED
        BY <1>7, <3>1, <4>1
    <3>2. CASE k # 0
      <4>1. k \in 1 .. e /\ k - 1 \in 0 .. e
        BY ONLY <1>n, <3>2, k \in 0 .. e
      <4>2. G[k - 1] = Reached(full, B, c + (k - 1)) /\ G[k] = Reached(full, B, c + k)
        BY <4>1
      <4> QED
        BY <1>8, <3>2, <4>1, <4>2
    <3> QED
      BY <3>1, <3>2
  <2> QED
    BY <2>1
<1>10. AdjustInterface(w, x) = f[e]
  BY Zenon DEF AdjustInterface, e
<1>11. Solves(f)
  <2> HIDE DEF G
  <2> QED
    BY <1>9, Zenon
<1> HIDE DEF f, w
<1>12. f[0] = Reached(full, B, c) /\ \A k \in 1 .. e : f[k] = AdjustOne(f[k - 1])
  <2>1. \A k \in 0 .. e : f[k] = IF k = 0 THEN [w EXCEPT !.at = w.at + HeadLength(x)] ELSE AdjustOne(f[k - 1])
    BY <1>11
  <2>2. 0 \in 0 .. e /\ \A k \in 1 .. e : k \in 0 .. e /\ k # 0
    BY ONLY <1>n
  <2> QED
    BY <1>7, <2>1, <2>2
<1> DEFINE S == {m \in 0 .. e : f[m] = Reached(full, B, c + m)}
<1>13. 0 \in S
  <2>1. c + 0 = c /\ 0 \in 0 .. e
    BY ONLY <1>n DEF c
  <2> QED
    BY <1>12, <2>1
<1>14. ASSUME NEW m \in 0 .. e - 1, m \in S PROVE m + 1 \in S
  <2> DEFINE k == m + 1
  <2>1. k \in 1 .. e /\ k \in 0 .. e /\ k - 1 = m
    BY ONLY <1>n, m \in 0 .. e - 1
  <2> HIDE DEF k
  <2>2. f[k] = AdjustOne(Reached(full, B, c + (k - 1)))
    BY <1>12, <1>14, <2>1
  <2>3. k \in S
    BY <1>8, <2>1, <2>2
  <2> QED
    BY <2>3 DEF k
<1> HIDE DEF S
<1>15. \A m \in 0 .. e : m \in S
  BY <1>n, <1>13, <1>14, UpTo, Zenon
<1>16. f[e] = Reached(full, B, c + e)
  BY <1>n, <1>15 DEF S
<1> QED
  BY <1>1, <1>10, <1>16 DEF w, c

(* The loop over all interfaces, as the recursive function it is.          *)
Walks(f, xs, full) ==
    f = [k \in 0 .. Len(xs) |->
           IF k = 0 THEN [at |-> 0, items |-> full] ELSE AdjustInterface(f[k - 1], xs[k])]

(* What it should leave.                                                   *)
AllConverted(full) == [p \in DOMAIN full |-> ConvertItem(full[p])]

(* Interfaces with bNumEndpoints endpoints and no descriptor out of place. *)
CountedIfcs == {x \in PlainIfcs : Len(x.endpoints) = x.desc.endpoints}

(* The whole walk: from the first descriptor of each interface to the      *)
(* first of the next, and to the end.                                      *)
LEMMA ListWalk ==
    ASSUME NEW xs \in Seq(CountedIfcs), NEW full, full = Written(xs)
    PROVE  /\ \E f : Walks(f, xs, full)
           /\ \A f : Walks(f, xs, full) => f[Len(xs)].items = AllConverted(full)
<1> DEFINE n == Len(xs)
<1>1. n \in Nat /\ \A i \in 1 .. n : xs[i] \in CountedIfcs
  OBVIOUS
<1>2. \A i \in 1 .. n : xs[i].desc.endpoints = Len(xs[i].endpoints)
  BY <1>1 DEF CountedIfcs
<1>3. xs \in Seq(PlainIfcs)
  <2>1. CountedIfcs \subseteq PlainIfcs
    BY DEF CountedIfcs
  <2> QED
    BY <2>1
<1>4. PICK E : IsLayout(E, xs, full)
  BY <1>3, ListPlaced
<1> HIDE DEF n
<1>5. full \in Seq(Items) /\ E \in [0 .. n -> Nat] /\ E[0] = 0 /\ E[n] = Len(full)
  BY <1>4 DEF IsLayout, n
<1>6. ASSUME NEW k \in 1 .. n
      PROVE  LET d == InterfaceDescriptor(xs[k])
             IN IsPlaced(full, xs[k], E[k - 1], d) /\ E[k] = E[k - 1] + Len(d)
  BY <1>4 DEF IsLayout, n
<1>7. full \in Seq(Mixed) /\ DOMAIN full = 1 .. Len(full) /\ Len(full) \in Nat
  <2>1. Items \subseteq Mixed
    BY DEF Mixed
  <2> QED
    BY ONLY <1>5, <2>1
<1>8. PICK B : IsOffsets(B, full)
  BY <1>7, BytesRun
<1> DEFINE W == [k \in 0 .. n |-> Reached(full, B, E[k])]
<1>10. [at |-> 0, items |-> full] = Reached(full, B, E[0]) /\ 0 \in 0 .. n
  <2>1. B[0] = 0 /\ 0 \in 0 .. n
    BY <1>1, <1>8 DEF IsOffsets
  <2>2. Half(full, 0) = full
    <3>1. \A q \in 1 .. Len(full) : ~(q <= 0)
      BY <1>7
    <3>2. full = [q \in 1 .. Len(full) |-> full[q]]
      BY <1>7
    <3> QED
      BY <3>1, <3>2 DEF Half
  <2> QED
    BY <1>5, <2>1, <2>2 DEF Reached
<1>11. ASSUME NEW k \in 1 .. n
       PROVE  AdjustInterface(Reached(full, B, E[k - 1]), xs[k]) = Reached(full, B, E[k])
  <2> DEFINE b == E[k - 1]
             x == xs[k]
             d == InterfaceDescriptor(x)
  <2>1. x.desc.endpoints = Len(x.endpoints) /\ IsPlaced(full, x, b, d) /\ E[k] = b + Len(d)
    BY <1>2, <1>6
  <2> HIDE DEF b, d, x
  <2>2. AdjustInterface(Reached(full, B, b), x) = Reached(full, B, b + Len(d))
    BY ONLY <1>8, <2>1, InterfaceWalk, SMT
  <2> QED
    BY <2>1, <2>2 DEF b, x
<1>12. ASSUME NEW k \in 0 .. n
       PROVE  W[k] = IF k = 0 THEN [at |-> 0, items |-> full] ELSE AdjustInterface(W[k - 1], xs[k])
  <2>1. CASE k = 0
    BY <1>10, <2>1
  <2>2. CASE k # 0
    <3>1. k \in 1 .. n /\ k - 1 \in 0 .. n
      BY <1>1, <2>2
    <3>2. W[k - 1] = Reached(full, B, E[k - 1]) /\ W[k] = Reached(full, B, E[k])
      BY <3>1
    <3> HIDE DEF W
    <3> QED
      BY <1>11, <2>2, <3>1, <3>2
  <2> QED
    BY <2>1, <2>2
<1>13. Walks(W, xs, full)
  <2>1. W = [k \in 0 .. n |-> W[k]]
    OBVIOUS
  <2> HIDE DEF W
  <2> QED
    BY <1>12, <2>1 DEF Walks, n
<1>14. ASSUME NEW f, Walks(f, xs, full) PROVE f[n] = W[n]
  <2>1. \A k \in 0 .. n : f[k] = IF k = 0 THEN [at |-> 0, items |-> full] ELSE AdjustInterface(f[k - 1], xs[k])
    BY <1>14 DEF Walks, n
  <2> HIDE DEF W
  <2> DEFINE S == {m \in 0 .. n : f[m] = W[m]}
  <2>2. 0 \in S
    BY <1>10, <1>12, <2>1
  <2>3. ASSUME NEW m \in 0 .. n - 1, m \in S PROVE m + 1 \in S
    <3> DEFINE k == m + 1
    <3>1. k \in 0 .. n /\ k # 0 /\ k - 1 = m
      BY <1>1
    <3> HIDE DEF k
    <3>2. f[k] = W[k]
      BY <1>12, <2>1, <2>3, <3>1
    <3> QED
      BY <3>1, <3>2 DEF k
  <2> HIDE DEF S
  <2>4. \A m \in 0 .. n : m \in S
    BY <1>1, <2>2, <2>3, UpTo, Zenon
  <2> QED
    BY <1>1, <2>4 DEF S
<1>15. W[n].items = AllConverted(full)
  <2>1. W[n].items = Half(full, Len(full))
    BY <1>1, <1>5 DEF Reached
  <2>2. \A q \in 1 .. Len(full) : q <= Len(full)
    BY <1>7
  <2> QED
    BY <1>7, <2>1, <2>2 DEF Half, AllConverted
<1> HIDE DEF W
<1> QED
  BY <1>13, <1>14, <1>15 DEF n

(* FlattenSeq of one sequence is that sequence.                            *)
LEMMA FlattenOne ==
    ASSUME NEW X, NEW s \in Seq(Seq(X)), Len(s) = 1
    PROVE  FlattenSeq(s) = s[1]
<1> DEFINE n == Len(s)
           Q == Seq(X)
<1> HIDE DEF n
<1>1. PICK F \in [0 .. n -> Q] :
        F[0] = <<>> /\ (\A i \in 1 .. n : F[i] = F[i - 1] \o s[i]) /\ FlattenSeq(s) = F[n]
  BY FlattenSteps DEF n
<1>2. n = 1 /\ 1 \in 1 .. n /\ s[1] \in Q
  <2>1. n = 1 /\ 1 \in 1 .. n
    BY DEF n
  <2>2. s \in Seq(Q)
    OBVIOUS
  <2>3. s[1] \in Q
    <3> HIDE DEF Q
    <3> QED
      BY <2>1, <2>2 DEF n
  <2> QED
    BY <2>1, <2>3
<1>3. F[1] = F[1 - 1] \o s[1] /\ 1 - 1 = 0
  BY <1>1, <1>2
<1>4. F[1] = <<>> \o s[1]
  BY <1>1, <1>3
<1>5. <<>> \o s[1] = s[1]
  BY <1>2
<1> QED
  BY <1>1, <1>2, <1>4, <1>5

(* Where each interface has one alternate, the active ones are all.        *)
LEMMA OneAlternate ==
    ASSUME NEW X, NEW c, NEW N \in Nat, c.bNumInterfaces = N, ParseGroups(c) \in Groups(X, N),
           \A n \in 0 .. N - 1 : Len(ParseGroups(c)[n]) = 1
    PROVE  LET cfg == ParseConfiguration(c)
           IN FlattenSeq([n \in 1 .. cfg.bNumInterfaces |-> GetInterface(cfg, n - 1)]) = AllAlternates(cfg)
<1> DEFINE cfg == ParseConfiguration(c)
           g == ParseGroups(c)
<1>1. cfg.groups = g /\ cfg.bNumInterfaces = N
  BY DEF ParseConfiguration
<1>2. \A n \in 0 .. N - 1 : g[n] \in Seq(Seq(X)) /\ Len(g[n]) = 1
  BY DEF Groups
<1>3. \A n \in 0 .. N - 1 : cfg.active[n] = 0
  BY <1>2 DEF ParseConfiguration
<1> HIDE DEF cfg, g
<1>4. ASSUME NEW n \in 1 .. N PROVE GetInterface(cfg, n - 1) = Alternates(cfg, n - 1)
  <2> DEFINE k == n - 1
             s == g[k]
  <2>1. k \in 0 .. N - 1
    OBVIOUS
  <2> HIDE DEF k
  <2>2. s \in Seq(Seq(X)) /\ Len(s) = 1 /\ cfg.active[k] = 0 /\ cfg.groups[k] = s /\ k \in Numbers(cfg)
    BY <1>1, <1>2, <1>3, <2>1 DEF Numbers
  <2> HIDE DEF s
  <2>3. 0 + 1 \in DOMAIN s /\ s[0 + 1] = s[1]
    BY <2>2
  <2>4. GetInterface(cfg, k) = s[1]
    BY <2>2, <2>3 DEF GetInterface, GetInterfaceAlternate
  <2>5. Alternates(cfg, k) = s[1]
    BY <2>2, FlattenOne DEF Alternates
  <2> QED
    BY <2>4, <2>5 DEF k
<1>5. [n \in 1 .. N |-> GetInterface(cfg, n - 1)] = [n \in 1 .. N |-> Alternates(cfg, n - 1)]
  BY <1>4
<1> QED
  BY <1>1, <1>5 DEF AllAlternates, cfg

-----------------------------------------------------------------------------
(* The devices and their models *)

(* What the devices are.                                                   *)
LEMMA DeviceFacts ==
    ASSUME NEW d \in Devices
    PROVE  /\ Len(d.configurations) \in Nat
           /\ DOMAIN d.configurations = 1 .. Len(d.configurations)
           /\ \A k \in DOMAIN d.configurations : d.configurations[k].bNumInterfaces \in 0 .. 255
<1> DEFINE cs == d.configurations
           R == Range(cs)
<1>1. cs \in Seq(R) /\ \A k \in DOMAIN cs : cs[k].bNumInterfaces \in 0 .. 255
  BY DevicesAssumption, Zenon DEF Byte
<1> HIDE DEF cs, R
<1>2. Len(cs) \in Nat /\ DOMAIN cs = 1 .. Len(cs)
  BY ONLY <1>1
<1> QED
  BY <1>1, <1>2, Zenon DEF cs

(* What is relayed of a configuration is a finite list.                    *)
LEMMA RelayedFacts ==
    ASSUME NEW d \in Devices, NEW k \in DOMAIN d.configurations,
           NEW eps, eps = Relayed(ParseConfiguration(d.configurations[k]))
    PROVE  /\ Len(eps) \in Nat /\ DOMAIN eps = 1 .. Len(eps)
           /\ \A i \in DOMAIN eps : eps[i].ifc.desc.number \in 0 .. 255
<1> DEFINE c == d.configurations[k]
           R == [e : EndpointItems, ifc : Ifcs]
<1>1. c.bNumInterfaces \in Nat /\ c.items \in Seq(Items)
  <2>1. c.bNumInterfaces \in 0 .. 255 /\ c.items \in Seq(Items)
    BY DevicesAssumption, Zenon DEF Byte
  <2>2. \A x \in 0 .. 255 : x \in Nat
    OBVIOUS
  <2> QED
    BY <2>1, <2>2, Zenon
<1> HIDE DEF c
<1>2. ParseInterfaces(c.items) \in Seq(Ifcs)
  BY <1>1, InterfacesType
<1>3. AllAlternates(ParseConfiguration(c)) \in Seq(Ifcs)
  BY <1>1, <1>2, AlternatesType
<1>4. eps \in Seq(R)
  BY <1>3, RelayedType DEF c
<1>5. ASSUME NEW r \in R PROVE r.ifc.desc.number \in 0 .. 255
  <2>1. r.ifc \in Ifcs
    OBVIOUS
  <2>2. r.ifc.desc \in InterfaceItems
    BY <2>1 DEF Ifcs
  <2> QED
    BY ONLY <2>2 DEF InterfaceItems, Byte
<1> HIDE DEF R
<1>6. Len(eps) \in Nat /\ DOMAIN eps = 1 .. Len(eps) /\ \A i \in DOMAIN eps : eps[i] \in R
  BY ONLY <1>4
<1> QED
  BY <1>5, <1>6, Zenon

(* BuildDevice() keeps the configurations it reads, and selecting one      *)
(* changes nothing else.                                                   *)
LEMMA ModelFacts ==
    ASSUME NEW d, NEW k
    PROVE  /\ Model(d, k).active = k
           /\ Model(d, k).configurations =
                 [i \in DOMAIN d.configurations |-> ParseConfiguration(d.configurations[i])]
           /\ BuildDevice(d) = Model(d, BuildDevice(d).active)
<1>1. PICK a, b, c, e, f, g, h :
        BuildDevice(d) =
          [product |-> a, configurations |-> [i \in DOMAIN d.configurations |-> ParseConfiguration(d.configurations[i])],
           qualifier |-> b, highspeed |-> c, named |-> e, languages |-> f, strings |-> g, active |-> h]
  BY DEF BuildDevice
<1> DEFINE cfgs == [i \in DOMAIN d.configurations |-> ParseConfiguration(d.configurations[i])]
           M(x) == [product |-> a, configurations |-> cfgs, qualifier |-> b, highspeed |-> c,
                    named |-> e, languages |-> f, strings |-> g, active |-> x]
<1> HIDE DEF cfgs
<1>3. BuildDevice(d) = M(h)
  BY <1>1 DEF cfgs
<1>4. \A x : Model(d, x) = M(x)
  BY <1>3 DEF Model
<1> QED
  BY <1>3, <1>4 DEF cfgs

(* Selecting a configuration.                                              *)
LEMMA SelectFacts ==
    ASSUME NEW d, NEW k, NEW i
    PROVE  /\ i \in DOMAIN d.configurations => SetActiveConfiguration(Model(d, k), i) = Model(d, i)
           /\ i \notin DOMAIN d.configurations => SetActiveConfiguration(Model(d, k), i) = Model(d, -1)
<1>1. DOMAIN Model(d, k).configurations = DOMAIN d.configurations
  BY ModelFacts
<1>2. \A x : [Model(d, k) EXCEPT !.active = x] = Model(d, x)
  BY DEF Model
<1> QED
  BY <1>1, <1>2 DEF SetActiveConfiguration

(* The active configuration, and how many interfaces are claimed.          *)
LEMMA ActiveFacts ==
    ASSUME NEW d, NEW k
    PROVE  /\ GetActiveConfiguration(Model(d, k)) =
                 IF k \in DOMAIN d.configurations THEN <<ParseConfiguration(d.configurations[k])>> ELSE Null
           /\ k \in DOMAIN d.configurations =>
                 /\ GetActiveConfiguration(Model(d, k)) # Null
                 /\ GetActiveConfiguration(Model(d, k))[1].bNumInterfaces = d.configurations[k].bNumInterfaces
<1>1. \A c : ParseConfiguration(c).bNumInterfaces = c.bNumInterfaces
  BY DEF ParseConfiguration
<1>2. \A x : <<x>> # Null /\ <<x>>[1] = x
  BY DEF Null
<1>3. GetActiveConfiguration(Model(d, k)) =
         IF k \in DOMAIN d.configurations THEN <<ParseConfiguration(d.configurations[k])>> ELSE Null
  <2> DEFINE cfgs == [i \in DOMAIN d.configurations |-> ParseConfiguration(d.configurations[i])]
             M == Model(d, k)
  <2>1. M.active = k /\ M.configurations = cfgs
    BY ModelFacts
  <2>2. DOMAIN cfgs = DOMAIN d.configurations
        /\ \A i \in DOMAIN d.configurations : cfgs[i] = ParseConfiguration(d.configurations[i])
    OBVIOUS
  <2> HIDE DEF cfgs, M
  <2>3. GetActiveConfiguration(M) = IF k \in DOMAIN cfgs THEN <<cfgs[k]>> ELSE Null
    BY <2>1 DEF GetActiveConfiguration, GetConfiguration
  <2> QED
    BY <2>2, <2>3 DEF M
<1> QED
  BY <1>1, <1>2, <1>3

(* in_endpoints and out_endpoints have each endpoint under its address.    *)
LEMMA EndpointsFacts ==
    ASSUME NEW eps, Len(eps) \in Nat, DOMAIN eps = 1 .. Len(eps)
    PROVE  \A a \in DOMAIN Endpoints(eps) :
             a.number \in 1 .. 15 /\ Endpoints(eps)[a].e.address = a
<1> DEFINE As == {eps[k].e.address : k \in {j \in DOMAIN eps : eps[j].e.address.number \in 1 .. 15}}
<1>1. DOMAIN Endpoints(eps) = As /\ \A a \in As : Endpoints(eps)[a] = eps[Max(WithAddress(eps, a))]
  BY DEF Endpoints
<1>2. ASSUME NEW a \in As PROVE a.number \in 1 .. 15 /\ WithAddress(eps, a) # {}
  BY DEF WithAddress
<1>3. ASSUME NEW a \in As PROVE eps[Max(WithAddress(eps, a))].e.address = a
  <2>1. WithAddress(eps, a) \subseteq 1 .. Len(eps)
    BY DEF WithAddress
  <2>2. Max(WithAddress(eps, a)) \in WithAddress(eps, a)
    BY <2>1, <1>2, MaxOfPositions
  <2> QED
    BY <2>2 DEF WithAddress
<1> HIDE DEF As
<1> QED
  BY <1>1, <1>2, <1>3

(* The interface that epInterfaces names for a number is that of one of    *)
(* the endpoints that are relayed with the number.                         *)
LEMMA OwnerFact ==
    ASSUME NEW eps, Len(eps) \in Nat, DOMAIN eps = 1 .. Len(eps),
           NEW n \in 1 .. 15, WithNumber(eps, n) # {}
    PROVE  \E b \in DOMAIN Endpoints(eps) :
             b.number = n /\ Endpoints(eps)[b] = eps[Max(WithNumber(eps, n))]
<1> DEFINE k == Max(WithNumber(eps, n))
           b == eps[k].e.address
<1>1. k \in WithNumber(eps, n) /\ \A j \in WithNumber(eps, n) : j <= k
  <2>1. WithNumber(eps, n) \subseteq 1 .. Len(eps)
    BY DEF WithNumber
  <2> QED
    BY <2>1, MaxOfPositions
<1>2. k \in 1 .. Len(eps) /\ b.number = n
  BY <1>1 DEF WithNumber
<1>3. k \in WithAddress(eps, b) /\ WithAddress(eps, b) \subseteq WithNumber(eps, n)
  BY <1>2 DEF WithAddress, WithNumber
<1>4. WithAddress(eps, b) \subseteq 1 .. Len(eps)
  BY DEF WithAddress
<1>5. Max(WithAddress(eps, b)) \in WithAddress(eps, b) /\ k <= Max(WithAddress(eps, b))
  BY <1>3, <1>4, MaxOfPositions
<1>6. Max(WithAddress(eps, b)) = k
  <2> DEFINE m == Max(WithAddress(eps, b))
  <2>1. m \in 1 .. Len(eps) /\ m <= k /\ k <= m
    BY <1>1, <1>3, <1>4, <1>5
  <2> HIDE DEF m, k
  <2> QED
    BY <2>1, <1>2 DEF m
<1>7. b \in DOMAIN Endpoints(eps) /\ Endpoints(eps)[b] = eps[Max(WithAddress(eps, b))]
  <2> HIDE DEF k
  <2> QED
    BY <1>2 DEF Endpoints
<1> QED
  BY <1>2, <1>6, <1>7

(* The table epInterfaces.                                                 *)
Entries == [Slots -> [defined : BOOLEAN, interface : 0 .. 255, claimed : BOOLEAN]]

(* A defined entry, field by field.                                        *)
LEMMA EntryRecord ==
    ASSUME NEW i \in 0 .. 255, NEW c \in BOOLEAN, NEW r,
           r = [defined |-> TRUE, interface |-> i, claimed |-> c]
    PROVE  /\ r \in [defined : BOOLEAN, interface : 0 .. 255, claimed : BOOLEAN]
           /\ r.defined /\ r.interface = i /\ (r.claimed <=> c)
<1>1. r \in [defined : BOOLEAN, interface : 0 .. 255, claimed : BOOLEAN]
  OBVIOUS
<1>2. r.defined = TRUE
  OBVIOUS
<1>3. r.claimed = c
  OBVIOUS
<1>4. r.interface = i
  OBVIOUS
<1> QED
  BY <1>1, <1>2, <1>3, <1>4, Zenon

(* The interface of the last endpoint of a table with a number.            *)
LastInterface(eps, n) == eps[Max(WithNumber(eps, n))].ifc.desc.number

(* A table of endpoints that a configuration can have.                     *)
IsTable(eps) ==
    /\ Len(eps) \in Nat /\ DOMAIN eps = 1 .. Len(eps)
    /\ \A i \in DOMAIN eps : eps[i].ifc.desc.number \in 0 .. 255

(* What set_endpoint_interface() does to each entry.                       *)
LEMMA EntryFacts ==
    ASSUME NEW eps, IsTable(eps), ep \in Entries
    PROVE  /\ SetEndpointInterfaces(eps) \in Entries
           /\ \A n \in Slots : SetEndpointInterfaces(eps)[n].claimed <=> ep[n].claimed
           /\ \A n \in Slots : WithNumber(eps, n) = {} => SetEndpointInterfaces(eps)[n] = ep[n]
           /\ \A n \in Slots : WithNumber(eps, n) # {} => SetEndpointInterfaces(eps)[n].defined
           /\ \A n \in Slots : WithNumber(eps, n) # {} =>
                  SetEndpointInterfaces(eps)[n].interface = LastInterface(eps, n)
<1> DEFINE new == SetEndpointInterfaces(eps)
<1>t. /\ Len(eps) \in Nat /\ DOMAIN eps = 1 .. Len(eps)
      /\ \A i \in DOMAIN eps : eps[i].ifc.desc.number \in 0 .. 255
  BY DEF IsTable
<1> DEFINE E == [defined : BOOLEAN, interface : 0 .. 255, claimed : BOOLEAN]
           I(n) == eps[Max(WithNumber(eps, n))].ifc.desc.number
<1>1. ASSUME NEW n, WithNumber(eps, n) # {} PROVE I(n) \in 0 .. 255
  <2>1. WithNumber(eps, n) \subseteq 1 .. Len(eps)
    BY <1>t DEF WithNumber
  <2>2. Max(WithNumber(eps, n)) \in DOMAIN eps
    BY <2>1, <1>1, <1>t, MaxOfPositions
  <2> QED
    BY <2>2, <1>t
<1>2. new = [n \in Slots |-> IF WithNumber(eps, n) = {} THEN ep[n]
                            ELSE [ep[n] EXCEPT !.defined = TRUE, !.interface = I(n)]]
  BY DEF SetEndpointInterfaces
<1> HIDE DEF I, new
<1>3. \A n \in Slots : new[n] = IF WithNumber(eps, n) = {} THEN ep[n]
                                ELSE [ep[n] EXCEPT !.defined = TRUE, !.interface = I(n)]
  BY <1>2
<1>4. ASSUME NEW n \in Slots
      PROVE  /\ new[n] \in E /\ (new[n].claimed <=> ep[n].claimed)
             /\ WithNumber(eps, n) # {} => new[n].defined /\ new[n].interface = I(n)
  <2>1. ep[n] \in E
    BY DEF Entries
  <2>2. CASE WithNumber(eps, n) = {}
    BY <2>1, <2>2, <1>3
  <2>3. CASE WithNumber(eps, n) # {}
    <3>1. new[n] = [defined |-> TRUE, interface |-> I(n), claimed |-> ep[n].claimed]
      BY <2>1, <2>3, <1>3
    <3>2. I(n) \in 0 .. 255
      BY <2>3, <1>1
    <3>3. ep[n].claimed \in BOOLEAN
      BY <2>1
    <3> DEFINE r == new[n]
               v == I(n)
               c == ep[n].claimed
    <3>4. v \in 0 .. 255 /\ c \in BOOLEAN /\ r = [defined |-> TRUE, interface |-> v, claimed |-> c]
      BY <3>1, <3>2, <3>3
    <3> HIDE DEF r, v, c
    <3>5. r \in E /\ r.defined /\ r.interface = v /\ (r.claimed <=> c)
      BY ONLY <3>4, EntryRecord, Zenon
    <3> QED
      BY <3>5, Zenon DEF r, v, c
  <2> QED
    BY <2>2, <2>3
<1>5. new \in Entries
  BY <1>2, <1>3, <1>4 DEF Entries
<1>6. \A n : I(n) = LastInterface(eps, n)
  BY DEF I, LastInterface
<1>7. /\ \A n \in Slots : new[n].claimed <=> ep[n].claimed
      /\ \A n \in Slots : WithNumber(eps, n) # {} => new[n].defined
  BY <1>4, Zenon
<1>8. \A n \in Slots : WithNumber(eps, n) = {} => new[n] = ep[n]
  BY <1>3
<1>9. \A n \in Slots : WithNumber(eps, n) # {} => new[n].interface = LastInterface(eps, n)
  BY <1>4, <1>6, Zenon
<1> QED
  BY <1>5, <1>7, <1>8, <1>9, Zenon DEF new

(* What claim_interface() and release_interface() do to each entry.        *)
LEMMA MarkFacts ==
    ASSUME NEW i, NEW b \in BOOLEAN,
           ep \in Entries,
           NEW new, new = Mark(i, b)
    PROVE  /\ new \in Entries
           /\ \A n \in Slots : new[n].defined <=> ep[n].defined
           /\ \A n \in Slots :
                new[n].claimed => IF ep[n].defined /\ ep[n].interface = i THEN b ELSE ep[n].claimed
<1> DEFINE E == [defined : BOOLEAN, interface : 0 .. 255, claimed : BOOLEAN]
<1>1. new = [n \in Slots |-> IF ep[n].defined /\ ep[n].interface = i
                            THEN [ep[n] EXCEPT !.claimed = b] ELSE ep[n]]
  BY DEF Mark
<1>2. ASSUME NEW n \in Slots
      PROVE  /\ new[n] \in E
             /\ new[n].defined = ep[n].defined /\ new[n].interface = ep[n].interface
             /\ new[n].claimed => IF ep[n].defined /\ ep[n].interface = i THEN b ELSE ep[n].claimed
  <2>1. ep[n] \in E
    BY DEF Entries
  <2>2. CASE ep[n].defined /\ ep[n].interface = i
    <3>1. new[n] = [ep[n] EXCEPT !.claimed = b]
      BY <1>1, <2>2
    <3>2. new[n] \in E /\ new[n].claimed = b /\ new[n].defined = ep[n].defined
          /\ new[n].interface = ep[n].interface
      BY <3>1, <2>1
    <3> QED
      BY <3>2, <2>2
  <2>3. CASE ~(ep[n].defined /\ ep[n].interface = i)
    BY <1>1, <2>1, <2>3
  <2> QED
    BY <2>2, <2>3
<1> QED
  BY <1>1, <1>2 DEF Entries

-----------------------------------------------------------------------------
(* Types *)

(* How many interfaces a session claims and releases.                      *)
LEMMA ActiveCount ==
    ASSUME TypeOK, ModelOK, phase \in Running
    PROVE  \E k \in DOMAIN device.configurations :
             /\ model = <<Model(device, k)>>
             /\ ActiveInterfaces = device.configurations[k].bNumInterfaces
             /\ ActiveInterfaces \in 0 .. 255
<1>1. PICK k \in DOMAIN device.configurations : model = <<Model(device, k)>>
  BY DEF ModelOK
<1>2. model[1] = Model(device, k)
  BY <1>1
<1>3. ActiveInterfaces = device.configurations[k].bNumInterfaces
  BY <1>2, ActiveFacts DEF ActiveInterfaces
<1>4. ActiveInterfaces \in 0 .. 255
  BY <1>3, DeviceFacts DEF TypeOK
<1> QED
  BY <1>1, <1>3, <1>4

(* The first state.                                                        *)
LEMMA InitTypes == Init => TypeOK /\ ModelOK
<1> SUFFICES ASSUME Init PROVE TypeOK /\ ModelOK
  OBVIOUS
<1> USE DEF Init
<1>1. ep \in Entries
  BY DEF Entries
<1>2. plugged \in BOOLEAN /\ released \in BOOLEAN /\ callback \in BOOLEAN
  BY Zenon
<1>3. held = {} /\ attached = {} /\ next \in 0 .. 255 /\ sessions \in 0 .. MaxSessions
  BY LibUSBAssumption
<1>4. TypeOK
  BY <1>1, <1>2, <1>3 DEF TypeOK, Entries
<1> QED
  BY <1>4 DEF ModelOK, Running

(* connect() and the coming and going of the device.                       *)
LEMMA ConnectTypes ==
    ASSUME TypeOK, ModelOK, Unplug \/ Plug \/ Connect \/ Stop \/ Disconnect
           \/ (\E a \in DOMAIN endpoints : Transfer(a)) \/ UNCHANGED vars
    PROVE  TypeOK' /\ ModelOK'
<1>0. ASSUME UNCHANGED <<device, phase, model>> PROVE ModelOK'
  BY <1>0 DEF ModelOK
<1>1. CASE Unplug
  <2>1. UNCHANGED <<device, context, callback, ep, held, phase, model, endpoints, attached, next, sessions,
                    released>>
    BY <1>1 DEF Unplug, modelVars
  <2>2. handle' \in {"none", "live", "dead"} /\ (held # {} => handle' # "none")
    BY <1>1 DEF Unplug, TypeOK
  <2>3. plugged' \in BOOLEAN
    BY <1>1 DEF Unplug
  <2>4. TypeOK'
    BY <2>1, <2>2, <2>3 DEF TypeOK
  <2> QED
    BY <1>0, <2>1, <2>4
<1> USE DEF TypeOK, ModelOK, Running
<1>2. CASE Plug
  BY <1>2 DEF Plug, modelVars, proxyVars
<1>3. CASE Connect
  <2>0. callback' \in BOOLEAN
    BY <1>3, Zenon DEF Connect, ConnectResult
  <2>1. phase' \in {"idle", "model"} /\ context' \in {"none", "live", "exited"}
        /\ handle' \in {"none", "live", "dead"} /\ (held # {} => handle' # "none")
    BY <1>3 DEF Connect, ConnectResult
  <2>2. sessions' \in 0 .. MaxSessions
    BY <1>3, LibUSBAssumption DEF Connect
  <2> QED
    BY <1>3, <2>0, <2>1, <2>2 DEF Connect, modelVars
<1>4. CASE Stop
  BY <1>4 DEF Stop, modelVars, proxyVars
<1>5. CASE Disconnect
  BY <1>5 DEF Disconnect
<1>6. CASE \E a \in DOMAIN endpoints : Transfer(a)
  BY <1>6 DEF Transfer, modelVars, proxyVars
<1>7. CASE UNCHANGED vars
  BY <1>7 DEF vars, modelVars, proxyVars
<1> QED
  BY <1>1, <1>2, <1>3, <1>4, <1>5, <1>6, <1>7

(* Reading the device.                                                     *)
LEMMA PopulateTypes ==
    ASSUME TypeOK, ModelOK, PopulateModel
    PROVE  TypeOK' /\ ModelOK'
<1> DEFINE B == BuildDevice(device)
<1>1. B = Model(device, B.active)
  BY ModelFacts
<1>2. CASE phase' \in {"exited", "crashed"} /\ UNCHANGED model
  BY <1>2 DEF TypeOK, ModelOK, Running, PopulateModel, proxyVars
<1>3. CASE ~(phase' \in {"exited", "crashed"} /\ UNCHANGED model)
  <2>1. model' = <<B>> /\ phase' = IF GetActiveConfiguration(model'[1]) = Null THEN "crashed" ELSE "claim"
    BY <1>3 DEF PopulateModel
  <2> HIDE DEF B
  <2>2. model'[1] = B /\ model' # Null
    BY <2>1 DEF Null
  <2>3. phase' \in Running => /\ GetActiveConfiguration(model'[1]) # Null
                              /\ B.active \in DOMAIN device.configurations
    BY <2>1, <2>2, <1>1, ActiveFacts DEF Running
  <2>4. ModelOK'
    BY <2>1, <2>3, <1>1 DEF ModelOK, PopulateModel
  <2>5. phase' \in {"crashed", "claim"}
    BY <2>1
  <2> QED
    BY <2>2, <2>3, <2>4, <2>5 DEF TypeOK, PopulateModel, proxyVars, Running
<1> QED
  BY <1>2, <1>3

(* The loops over the interfaces.                                          *)
LEMMA InterfaceTypes ==
    ASSUME TypeOK, ModelOK, Claim \/ Release
    PROVE  TypeOK' /\ ModelOK'
<1>1. phase \in Running /\ phase' \in {"claim", "control", "claimData", "data", "release", "disconnect"}
      /\ UNCHANGED <<device, plugged, context, handle, callback, model, endpoints, attached, sessions>>
  BY DEF Claim, Release, Running, modelVars
<1>2. ActiveInterfaces \in 0 .. 255
  BY <1>1, ActiveCount
<1>3. next' \in 0 .. 255
  BY <1>2 DEF Claim, Release, TypeOK
<1>r. released' \in BOOLEAN
  BY Zenon DEF Claim, Release, ReleaseInterface, TypeOK
<1>4. ep' = ep \/ \E b \in BOOLEAN : ep' = Mark(next, b)
  BY DEF Claim, Release, ClaimInterface, ReleaseInterface
<1>5. ep' \in Entries
  <2>1. ep \in Entries
    BY DEF TypeOK, Entries
  <2> QED
    BY <1>4, <2>1, MarkFacts
<1>6. held' \subseteq 0 .. 255 /\ (held' # {} => handle # "none")
  <2>1. \/ held' = held
        \/ held' = held \ {next}
        \/ held' = held \cup {next} /\ handle = "live"
    BY DEF Claim, Release, ClaimInterface, ReleaseInterface
  <2>2. held \subseteq 0 .. 255 /\ (held # {} => handle # "none") /\ next \in 0 .. 255
    BY DEF TypeOK
  <2>3. held' \subseteq 0 .. 255
    BY <2>1, <2>2
  <2> QED
    BY <2>1, <2>2, <2>3
<1>7. ModelOK'
  BY <1>1 DEF ModelOK
<1> QED
  BY <1>1, <1>3, <1>r, <1>5, <1>6, <1>7 DEF TypeOK, Running, Entries

(* SET_CONFIGURATION.                                                      *)
LEMMA SetConfigTypes ==
    ASSUME TypeOK, ModelOK, SetConfig
    PROVE  TypeOK' /\ ModelOK'
<1>1. PICK k \in DOMAIN device.configurations : model = <<Model(device, k)>>
  BY DEF SetConfig, ModelOK, Running
<1>2. model[1] = Model(device, k)
  BY <1>1
<1> DEFINE Dev(i) == SetActiveConfiguration(model[1], i)
           Cfg(i) == GetActiveConfiguration(Dev(i))
           Eps(i) == Relayed(Cfg(i)[1])
<1>3. PICK index \in 0 .. Len(device.configurations) :
        /\ model' = <<Dev(index)>>
        /\ IF Cfg(index) = Null \/ AlternateMissing(Cfg(index)[1])
           THEN phase' = "crashed" /\ UNCHANGED <<ep, endpoints, attached>>
           ELSE /\ phase' = "claimData"
                /\ ep' = SetEndpointInterfaces(Eps(index))
                /\ endpoints' = Endpoints(Eps(index))
                /\ attached' = Filtered(Cfg(index)[1], endpoints')
  BY DEF SetConfig
<1> DEFINE act == IF index \in DOMAIN device.configurations THEN index ELSE -1
<1>4. Dev(index) = Model(device, act)
  <2>1. SetActiveConfiguration(Model(device, k), index) = Model(device, act)
    <3>1. CASE index \in DOMAIN device.configurations
      <4>1. SetActiveConfiguration(Model(device, k), index) = Model(device, index)
        BY <3>1, SelectFacts
      <4> QED
        BY <3>1, <4>1
    <3>2. CASE index \notin DOMAIN device.configurations
      <4>1. SetActiveConfiguration(Model(device, k), index) = Model(device, -1)
        BY <3>2, SelectFacts
      <4> QED
        BY <3>2, <4>1
    <3> QED
      BY <3>1, <3>2
  <2> QED
    BY <1>2, <2>1
<1>5. next' = 0 /\ UNCHANGED <<device, plugged, context, handle, callback, held, transfer, sessions, released>>
  BY DEF SetConfig
<1>6. CASE Cfg(index) = Null \/ AlternateMissing(Cfg(index)[1])
  <2>1. phase' = "crashed" /\ UNCHANGED <<ep, endpoints, attached>>
    BY <1>3, <1>6
  <2> HIDE DEF Dev, Cfg, Eps
  <2> QED
    BY <1>5, <2>1 DEF TypeOK, ModelOK, Running
<1>7. CASE ~(Cfg(index) = Null \/ AlternateMissing(Cfg(index)[1]))
  <2>1. act \in DOMAIN device.configurations /\ Cfg(index) = <<ParseConfiguration(device.configurations[act])>>
    BY <1>4, <1>7, ActiveFacts
  <2> DEFINE eps == Relayed(ParseConfiguration(device.configurations[act]))
  <2>2. Eps(index) = eps
    BY <2>1
  <2> HIDE DEF Dev, Cfg, Eps, act
  <2>3. /\ Len(eps) \in Nat /\ DOMAIN eps = 1 .. Len(eps)
        /\ \A i \in DOMAIN eps : eps[i].ifc.desc.number \in 0 .. 255
    BY <2>1, RelayedFacts DEF TypeOK
  <2> HIDE DEF eps
  <2>4. ep' \in Entries
    <3>1. ep \in Entries /\ ep' = SetEndpointInterfaces(eps)
      BY <2>2, <1>3, <1>7 DEF TypeOK, Entries
    <3> QED
      BY <3>1, <2>3, EntryFacts DEF IsTable
  <2>5. \A a \in DOMAIN endpoints' : endpoints'[a].e.address = a
    BY <2>2, <2>3, <1>3, <1>7, EndpointsFacts
  <2>6. attached' \subseteq DOMAIN endpoints'
    <3>1. attached' \subseteq {r.e.address : r \in Range(endpoints')}
      BY <1>3, <1>7 DEF Filtered
    <3> QED
      BY <3>1, <2>5 DEF Range
  <2>7. model' = <<Model(device, act)>> /\ model'[1] = Model(device, act) /\ model' # Null
    BY <1>3, <1>4 DEF Null
  <2>8. GetActiveConfiguration(model'[1]) # Null
    BY <2>1, <2>7, ActiveFacts
  <2>9. ModelOK'
    BY <2>1, <2>7, <1>5 DEF ModelOK
  <2>10. phase' = "claimData"
    BY <1>3, <1>7
  <2> QED
    BY <1>5, <2>4, <2>6, <2>7, <2>8, <2>9, <2>10 DEF TypeOK, Entries
<1> QED
  BY <1>6, <1>7

(* Every step keeps the types.                                             *)
LEMMA NextTypes == TypeOK /\ ModelOK /\ [Next]_vars => TypeOK' /\ ModelOK'
  BY ConnectTypes, PopulateTypes, InterfaceTypes, SetConfigTypes DEF Next

(* The types of the proxy and the Manager's view of the device: next and   *)
(* held never leave the range of a byte, an interface is held only through *)
(* a handle, the active configuration that claim and release loops count   *)
(* by is there while they run, and filters are attached to endpoints that  *)
(* exist.                                                                  *)
THEOREM TypeCorrect == Spec => []TypeOK
<1>1. Spec => [](TypeOK /\ ModelOK)
  BY InitTypes, NextTypes, PTL DEF Spec
<1> QED
  BY <1>1, PTL

-----------------------------------------------------------------------------
(* The flags of epInterfaces *)

(* The one configuration and what is relayed of it.                        *)
LEMMA TableFacts ==
    ASSUME TypeOK, Single
    PROVE  /\ DOMAIN device.configurations = {1}
           /\ Len(Table) \in Nat /\ DOMAIN Table = 1 .. Len(Table)
           /\ \A i \in DOMAIN Table : Table[i].ifc.desc.number \in 0 .. 255
<1>1. device \in Devices
  BY DEF TypeOK
<1>2. DOMAIN device.configurations = {1}
  <2>1. DOMAIN device.configurations = 1 .. Len(device.configurations)
    BY <1>1, DeviceFacts, Zenon
  <2>2. 1 .. 1 = {1}
    OBVIOUS
  <2> QED
    BY <2>1, <2>2, Zenon DEF Single
<1>3. 1 \in DOMAIN device.configurations
  BY <1>2
<1> QED
  BY <1>1, <1>2, <1>3, RelayedFacts, Zenon DEF Table

(* No step changes the device, and no step undoes a failed release.        *)
LEMMA Fixed == [Next]_vars => device' = device /\ (released' => released)
<1>1. ASSUME Unplug \/ Plug \/ Connect \/ PopulateModel \/ Stop \/ Disconnect
      PROVE  UNCHANGED <<device, released>>
  BY <1>1 DEF Unplug, Plug, Connect, PopulateModel, Stop, Disconnect
<1>2. ASSUME SetConfig PROVE UNCHANGED <<device, released>>
  BY <1>2 DEF SetConfig
<1>3. ASSUME NEW a, Transfer(a) PROVE UNCHANGED <<device, released>>
  BY <1>3 DEF Transfer
<1>4. ASSUME Claim PROVE UNCHANGED <<device, released>>
  BY <1>4 DEF Claim
<1>5. ASSUME Release PROVE device' = device /\ (released' = released \/ released' = FALSE)
  BY <1>5, Zenon DEF Release, ReleaseInterface
<1>6. CASE Next
  BY <1>1, <1>2, <1>3, <1>4, <1>5, <1>6, Zenon DEF Next
<1>7. CASE UNCHANGED vars
  BY <1>7 DEF vars
<1> QED
  BY <1>6, <1>7

(* The first state: nothing is defined.                                    *)
LEMMA InitFlags == Init => FlagsOK
<1> SUFFICES ASSUME Init PROVE FlagsOK
  OBVIOUS
<1>1. \A n \in Slots : ep[n].defined = FALSE /\ ep[n].claimed = FALSE
  BY DEF Init
<1>2. phase = "idle" /\ transfer = NoTransfer /\ NoTransfer.held = TRUE
  BY DEF Init, NoTransfer
<1> QED
  BY <1>1, <1>2 DEF FlagsOK, EntriesOK, ClaimsOK, RelayedOK, TransferOK

(* The steps that neither claim nor release.                               *)
LEMMA QuietFlags ==
    ASSUME TypeOK, FlagsOK, device' = device,
           Unplug \/ Plug \/ Connect \/ PopulateModel \/ Stop \/ UNCHANGED vars
    PROVE  FlagsOK'
<1>1. UNCHANGED <<ep, held, endpoints, transfer>>
  BY DEF Unplug, Plug, Connect, PopulateModel, Stop, vars, proxyVars, modelVars
<1>2. Table' = Table /\ SharedSlot' = SharedSlot /\ \A n : Interface(n)' = Interface(n)
  BY <1>1 DEF Table, SharedSlot, Interface, Owner
<1>3. /\ NoTransfer.held = TRUE
      /\ \/ phase' = phase /\ next' = next
         \/ phase = "idle" /\ phase' \in {"idle", "model"}
         \/ phase = "model" /\ phase' \in {"claim", "crashed", "exited"}
         \/ phase \in {"control", "data"} /\ phase' = "release" /\ next' = 0
  BY DEF NoTransfer, Unplug, Plug, Connect, ConnectResult, PopulateModel, Stop, vars, proxyVars, modelVars
<1>4. EntriesOK'
  BY <1>1, <1>2 DEF FlagsOK, EntriesOK
<1>5. ClaimsOK'
  <2> SUFFICES ASSUME NEW n \in Slots, ep[n].claimed
               PROVE  /\ ep[n].defined /\ ep[n].interface \in held
                      /\ ep[n].interface < device.configurations[1].bNumInterfaces
                      /\ phase' \in Running \cup {"crashed"}
                      /\ phase' = "release" => next' <= ep[n].interface
    BY <1>1 DEF ClaimsOK
  <2>1. /\ ep[n].defined /\ ep[n].interface \in held
        /\ ep[n].interface < device.configurations[1].bNumInterfaces
        /\ phase \in Running \cup {"crashed"}
        /\ phase = "release" => next <= ep[n].interface
    BY DEF FlagsOK, ClaimsOK
  <2>2. ep[n].interface \in 0 .. 255
    BY DEF TypeOK
  <2> QED
    BY <2>1, <2>2, <1>3 DEF Running
<1>6. RelayedOK'
  BY <1>1, <1>2, <1>3 DEF FlagsOK, RelayedOK
<1>7. TransferOK'
  BY <1>1, <1>2, <1>3 DEF FlagsOK, TransferOK
<1> QED
  BY <1>4, <1>5, <1>6, <1>7 DEF FlagsOK

(* disconnect(): all entries have been cleared.                            *)
LEMMA DisconnectFlags ==
    ASSUME TypeOK, FlagsOK, device' = device, Disconnect
    PROVE  FlagsOK'
<1>1. phase = "disconnect" /\ phase' = "idle" /\ ep' = ep /\ transfer' = NoTransfer
  BY DEF Disconnect
<1>2. \A n \in Slots : ~ep[n].claimed
  BY <1>1 DEF FlagsOK, ClaimsOK, Running
<1>3. Table' = Table /\ \A n : Interface(n)' = Interface(n)
  BY DEF Table, Interface
<1>4. EntriesOK' /\ ClaimsOK' /\ RelayedOK'
  BY <1>1, <1>2, <1>3 DEF FlagsOK, EntriesOK, ClaimsOK, RelayedOK
<1>5. TransferOK'
  BY <1>1 DEF TransferOK, NoTransfer
<1> QED
  BY <1>4, <1>5 DEF FlagsOK

(* Claiming.                                                               *)
LEMMA ClaimFlags ==
    ASSUME TypeOK, ModelOK, Single, FlagsOK, device' = device, Claim
    PROVE  FlagsOK'
<1>1. /\ phase \in {"claim", "claimData"} /\ phase' \in {"claim", "control", "claimData", "data"}
      /\ phase' \in {"claimData", "data"} => phase = "claimData"
      /\ UNCHANGED <<endpoints, transfer>>
  BY DEF Claim, modelVars
<1>2. Table' = Table /\ SharedSlot' = SharedSlot /\ \A n : Interface(n)' = Interface(n)
  BY <1>1 DEF Table, SharedSlot, Interface, Owner
<1>3. ActiveInterfaces = device.configurations[1].bNumInterfaces /\ ActiveInterfaces \in 0 .. 255
  BY <1>1, ActiveCount, TableFacts DEF Running
<1>4. \/ ep' = ep /\ held' = held
      \/ next < ActiveInterfaces /\ ep' = Mark(next, TRUE) /\ held' = held \cup {next}
  BY DEF Claim, ClaimInterface
<1>5. ASSUME NEW n \in Slots
      PROVE  /\ (ep'[n].defined <=> ep[n].defined) /\ ep'[n].interface = ep[n].interface
             /\ ep'[n].claimed => ep[n].claimed \/ (/\ ep[n].defined /\ ep[n].interface \in held'
                                                    /\ ep[n].interface < ActiveInterfaces)
  <2>1. CASE ep' = ep
    BY <2>1
  <2>2. CASE next < ActiveInterfaces /\ ep' = Mark(next, TRUE) /\ held' = held \cup {next}
    <3>1. ep \in Entries
      BY DEF TypeOK, Entries
    <3>2. ep'[n].defined <=> ep[n].defined
      BY <2>2, <3>1, MarkFacts
    <3>3. ep'[n].interface = ep[n].interface
      BY <2>2, <3>1 DEF Mark, Entries
    <3>4. ep'[n].claimed => IF ep[n].defined /\ ep[n].interface = next THEN TRUE ELSE ep[n].claimed
      BY <2>2, <3>1, MarkFacts
    <3> QED
      BY <2>2, <3>2, <3>3, <3>4
  <2> QED
    BY <1>4, <2>1, <2>2
<1>6. held \subseteq held'
  BY <1>4
<1>7. EntriesOK'
  BY <1>2, <1>5 DEF FlagsOK, EntriesOK
<1>8. ClaimsOK'
  BY <1>1, <1>3, <1>5, <1>6 DEF FlagsOK, ClaimsOK, Running
<1>9. RelayedOK'
  BY <1>1, <1>2, <1>5 DEF FlagsOK, RelayedOK
<1>10. TransferOK'
  BY <1>1, <1>2 DEF FlagsOK, TransferOK, NoTransfer
<1> QED
  BY <1>7, <1>8, <1>9, <1>10 DEF FlagsOK

(* Releasing, when no release fails.                                       *)
LEMMA ReleaseFlags ==
    ASSUME TypeOK, ModelOK, Single, released', FlagsOK, device' = device, Release
    PROVE  FlagsOK'
<1>1. phase = "release" /\ phase' \in {"release", "disconnect"} /\ UNCHANGED <<endpoints, transfer>>
  BY DEF Release, modelVars
<1>2. Table' = Table /\ SharedSlot' = SharedSlot /\ \A n : Interface(n)' = Interface(n)
  BY <1>1 DEF Table, SharedSlot, Interface, Owner
<1>3. ActiveInterfaces = device.configurations[1].bNumInterfaces /\ ActiveInterfaces \in 0 .. 255
  BY <1>1, ActiveCount, TableFacts DEF Running
<1>4. ASSUME NEW n \in Slots, ep[n].claimed
      PROVE  /\ ep[n].defined /\ ep[n].interface \in held /\ ep[n].interface < ActiveInterfaces
             /\ next <= ep[n].interface /\ next \in 0 .. 255 /\ ep[n].interface \in 0 .. 255
  BY <1>1, <1>3, <1>4 DEF FlagsOK, ClaimsOK, TypeOK
<1>5. CASE next < ActiveInterfaces
  <2>1. /\ held' = held \ {next} /\ ep' = Mark(next, FALSE)
        /\ next' = next + 1 /\ phase' = "release"
    BY <1>1, <1>5 DEF Release, ReleaseInterface
  <2>2. ASSUME NEW n \in Slots
        PROVE  /\ (ep'[n].defined <=> ep[n].defined) /\ ep'[n].interface = ep[n].interface
               /\ ep'[n].claimed => ep[n].claimed /\ ep[n].interface # next
    <3>1. ep \in Entries
      BY DEF TypeOK, Entries
    <3>2. ep'[n].defined <=> ep[n].defined
      BY <2>1, <3>1, MarkFacts
    <3>3. ep'[n].interface = ep[n].interface
      BY <2>1, <3>1 DEF Mark, Entries
    <3>4. ep'[n].claimed => IF ep[n].defined /\ ep[n].interface = next THEN FALSE ELSE ep[n].claimed
      BY <2>1, <3>1, MarkFacts
    <3> QED
      BY <1>4, <3>2, <3>3, <3>4
  <2>3. EntriesOK'
    BY <1>2, <2>2 DEF FlagsOK, EntriesOK
  <2>4. ASSUME NEW n \in Slots, ep'[n].claimed
        PROVE  /\ ep'[n].defined /\ ep'[n].interface \in held'
               /\ ep'[n].interface < ActiveInterfaces /\ next' <= ep'[n].interface
    <3>1. ep[n].claimed /\ ep[n].interface # next /\ (ep'[n].defined <=> ep[n].defined)
          /\ ep'[n].interface = ep[n].interface
      BY <2>2, <2>4
    <3> QED
      <4>1. /\ ep[n].defined /\ ep[n].interface \in held /\ ep[n].interface < ActiveInterfaces
            /\ next <= ep[n].interface /\ next \in 0 .. 255 /\ ep[n].interface \in 0 .. 255
        BY <1>4, <3>1
      <4>2. ep[n].interface \in held'
        BY <2>1, <3>1, <4>1, Zenon
      <4>3. \A x, y \in 0 .. 255 : x <= y /\ y # x => x + 1 <= y
        OBVIOUS
      <4>4. next + 1 <= ep[n].interface
        BY <3>1, <4>1, <4>3, Zenon
      <4>5. next' <= ep[n].interface
        BY <2>1, <4>4, Zenon
      <4> QED
        BY <3>1, <4>1, <4>2, <4>5, Zenon
  <2>5. ClaimsOK'
    BY <1>3, <2>1, <2>4 DEF ClaimsOK, Running
  <2> QED
    BY <1>1, <1>2, <2>1, <2>3, <2>5 DEF FlagsOK, RelayedOK, TransferOK
<1>6. CASE ~(next < ActiveInterfaces)
  <2>1. ep' = ep /\ phase' = "disconnect"
    BY <1>6 DEF Release
  <2>2. ASSUME NEW n \in Slots, ep[n].claimed PROVE FALSE
    <3>1. ep[n].interface < ActiveInterfaces /\ next <= ep[n].interface /\ next \in 0 .. 255
          /\ ep[n].interface \in 0 .. 255
      BY <1>4, <2>2
    <3>2. \A x, y, z \in 0 .. 255 : x < z /\ y <= x => y < z
      OBVIOUS
    <3> QED
      BY <1>3, <1>6, <3>1, <3>2, Zenon
  <2> QED
    BY <1>1, <1>2, <2>1, <2>2 DEF FlagsOK, EntriesOK, ClaimsOK, RelayedOK, TransferOK
<1> QED
  BY <1>5, <1>6

(* SET_CONFIGURATION writes what is in epInterfaces already, or defines    *)
(* entries that are not claimed.                                           *)
LEMMA SetConfigFlags ==
    ASSUME TypeOK, ModelOK, Single, FlagsOK, device' = device, SetConfig
    PROVE  FlagsOK'
<1>1. phase = "control" /\ model = <<Model(device, 1)>> /\ DOMAIN device.configurations = {1}
  BY TableFacts DEF SetConfig, ModelOK, Running
<1>2. transfer' = NoTransfer /\ NoTransfer.held = TRUE /\ held' = held
  BY <1>1 DEF FlagsOK, TransferOK, SetConfig, NoTransfer
<1>3. \/ phase' = "crashed" /\ ep' = ep
      \/ phase' = "claimData" /\ ep' = SetEndpointInterfaces(Table) /\ endpoints' = Endpoints(Table)
  <2> DEFINE Dev(i) == SetActiveConfiguration(model[1], i)
             Cfg(i) == GetActiveConfiguration(Dev(i))
             Eps(i) == Relayed(Cfg(i)[1])
  <2>1. PICK index \in 0 .. Len(device.configurations) :
          IF Cfg(index) = Null \/ AlternateMissing(Cfg(index)[1])
          THEN phase' = "crashed" /\ UNCHANGED <<ep, endpoints, attached>>
          ELSE /\ phase' = "claimData"
               /\ ep' = SetEndpointInterfaces(Eps(index))
               /\ endpoints' = Endpoints(Eps(index))
    BY DEF SetConfig
  <2>2. CASE index = 1
    <3>1. Dev(index) = Model(device, 1)
      BY <1>1, <2>2, SelectFacts
    <3>2. Cfg(index) = <<ParseConfiguration(device.configurations[1])>>
      BY <1>1, <3>1, ActiveFacts
    <3>3. Cfg(index) # Null /\ Eps(index) = Table
      BY <3>2 DEF Null, Table
    <3> QED
      BY <2>1, <3>3
  <2>3. CASE index # 1
    <3>1. Dev(index) = Model(device, -1)
      BY <1>1, <2>3, SelectFacts
    <3>2. Cfg(index) = Null
      BY <1>1, <3>1, ActiveFacts
    <3> QED
      BY <2>1, <3>2
  <2> QED
    BY <2>2, <2>3
<1>4. Table' = Table /\ \A n : Interface(n)' = Interface(n)
  BY DEF Table, Interface
<1>5. TransferOK'
  BY <1>2 DEF TransferOK
<1>6. CASE phase' = "crashed" /\ ep' = ep
  <2>1. EntriesOK' /\ RelayedOK'
    BY <1>4, <1>6 DEF FlagsOK, EntriesOK, RelayedOK
  <2>2. ClaimsOK'
    BY <1>2, <1>6 DEF FlagsOK, ClaimsOK
  <2> QED
    BY <1>5, <2>1, <2>2 DEF FlagsOK
<1>7. CASE phase' = "claimData" /\ ep' = SetEndpointInterfaces(Table) /\ endpoints' = Endpoints(Table)
  <2>1. ASSUME NEW n \in Slots
        PROVE  /\ (ep'[n].claimed <=> ep[n].claimed)
               /\ WithNumber(Table, n) = {} => ep'[n] = ep[n]
               /\ WithNumber(Table, n) # {} => ep'[n].defined /\ ep'[n].interface = Interface(n)
    <3>1. ep \in Entries /\ ep' = SetEndpointInterfaces(Table)
      BY <1>7 DEF TypeOK, Entries
    <3>2. IsTable(Table)
      BY TableFacts DEF IsTable
    <3> DEFINE new == SetEndpointInterfaces(Table)
    <3>3. /\ new[n].claimed <=> ep[n].claimed
          /\ WithNumber(Table, n) = {} => new[n] = ep[n]
          /\ WithNumber(Table, n) # {} => new[n].defined
          /\ WithNumber(Table, n) # {} => new[n].interface = LastInterface(Table, n)
      BY <3>1, <3>2, EntryFacts, Zenon
    <3>4. Interface(n) = LastInterface(Table, n)
      BY DEF Interface, LastInterface
    <3> HIDE DEF new
    <3>5. ep' = new
      BY <3>1 DEF new
    <3> QED
      BY ONLY <3>3, <3>4, <3>5, Zenon
  <2>2. EntriesOK'
    BY <1>4, <2>1 DEF FlagsOK, EntriesOK
  <2>3. RelayedOK'
    BY <1>4, <1>7, <2>1 DEF RelayedOK
  <2>4. ASSUME NEW n \in Slots, ep'[n].claimed
        PROVE  ep'[n].defined /\ ep'[n].interface = ep[n].interface /\ ep[n].claimed
    BY <2>1, <2>4 DEF FlagsOK, ClaimsOK, EntriesOK
  <2>5. ClaimsOK'
    BY <1>2, <1>7, <2>4 DEF FlagsOK, ClaimsOK, Running
  <2> QED
    BY <1>5, <2>2, <2>3, <2>5 DEF FlagsOK
<1> QED
  BY <1>3, <1>6, <1>7

(* A transfer of a claimed entry's endpoint.                               *)
LEMMA TransferFlags ==
    ASSUME TypeOK, Single, FlagsOK, device' = device, NEW a \in DOMAIN endpoints, Transfer(a)
    PROVE  FlagsOK'
<1>1. phase = "data" /\ UNCHANGED <<ep, held, phase, endpoints, next>>
  BY DEF Transfer, proxyVars, modelVars
<1>2. endpoints = Endpoints(Table)
  BY <1>1 DEF FlagsOK, RelayedOK
<1>3. a.number \in 1 .. 15 /\ a.number \in Slots
  <2>1. Len(Table) \in Nat /\ DOMAIN Table = 1 .. Len(Table)
    BY TableFacts
  <2>2. a.number \in 1 .. 15
    BY ONLY <1>2, <2>1, a \in DOMAIN endpoints, EndpointsFacts, Zenon
  <2> QED
    BY <2>2 DEF Slots
<1>4. /\ ep[a.number].defined /\ WithNumber(Table, a.number) # {}
      /\ ep[a.number].interface = Interface(a.number) /\ Interface(a.number) \in held
  <2>1. ep[a.number].defined /\ ep[a.number].claimed
    BY DEF Transfer, EndpointInterfaceClaimed
  <2>2. WithNumber(Table, a.number) # {} /\ ep[a.number].interface = Interface(a.number)
    BY <1>3, <2>1, Zenon DEF FlagsOK, EntriesOK
  <2>3. ep[a.number].interface \in held
    BY <1>3, <2>1, Zenon DEF FlagsOK, ClaimsOK
  <2> QED
    BY <2>1, <2>2, <2>3, Zenon
<1>5. PICK b \in DOMAIN endpoints : b.number = a.number /\ Owner(b) = Interface(a.number)
  <2>1. Len(Table) \in Nat /\ DOMAIN Table = 1 .. Len(Table)
    BY TableFacts
  <2>2. PICK b \in DOMAIN Endpoints(Table) :
          b.number = a.number /\ Endpoints(Table)[b] = Table[Max(WithNumber(Table, a.number))]
    BY ONLY <1>3, <1>4, <2>1, OwnerFact, Zenon
  <2>3. Owner(b) = Interface(a.number)
    BY <1>2, <2>2, Zenon DEF Owner, Interface
  <2> QED
    BY <1>2, <2>2, <2>3, Zenon
<1>6. ~SharedSlot => transfer'.held
  <2>1. PICK n : transfer' = [address |-> a, attempts |-> n, held |-> Owner(a) \in held]
    BY DEF Transfer
  <2>2. transfer'.held = (Owner(a) \in held)
    BY <2>1
  <2>3. ~SharedSlot => Owner(a) = Owner(b)
    BY <1>5 DEF SharedSlot
  <2> QED
    BY <1>4, <1>5, <2>2, <2>3
<1>7. Table' = Table /\ SharedSlot' = SharedSlot /\ \A n : Interface(n)' = Interface(n)
  BY <1>1 DEF Table, SharedSlot, Interface, Owner
<1>8. TransferOK'
  BY <1>1, <1>6, <1>7 DEF TransferOK
<1> QED
  BY <1>1, <1>7, <1>8 DEF FlagsOK, EntriesOK, ClaimsOK, RelayedOK

(* Every step keeps the flags right.                                       *)
LEMMA NextFlags == Inv /\ [Next]_vars => Inv'
<1> SUFFICES ASSUME Inv, [Next]_vars PROVE Inv'
  OBVIOUS
<1>1. TypeOK' /\ ModelOK'
  BY NextTypes DEF Inv
<1>2. ASSUME released', Single' PROVE FlagsOK'
  <2>1. device' = device /\ released
    BY <1>2, Fixed
  <2>2. TypeOK /\ ModelOK /\ Single /\ FlagsOK
    BY <1>2, <2>1 DEF Inv, Single
  <2>3. CASE Unplug \/ Plug \/ Connect \/ PopulateModel \/ Stop \/ UNCHANGED vars
    BY <2>1, <2>2, <2>3, QuietFlags
  <2>4. CASE Disconnect
    BY <2>1, <2>2, <2>4, DisconnectFlags
  <2>5. CASE Claim
    BY <2>1, <2>2, <2>5, ClaimFlags
  <2>6. CASE Release
    BY <1>2, <2>1, <2>2, <2>6, ReleaseFlags
  <2>7. CASE SetConfig
    BY <2>1, <2>2, <2>7, SetConfigFlags
  <2>8. CASE \E a \in DOMAIN endpoints : Transfer(a)
    BY <2>1, <2>2, <2>8, TransferFlags
  <2> QED
    BY <2>3, <2>4, <2>5, <2>6, <2>7, <2>8 DEF Next
<1> QED
  BY <1>1, <1>2 DEF Inv

(* send_data() and receive_data() look at the flags of epInterfaces only;  *)
(* over any number of sessions, unplugged devices and connections that     *)
(* failed half way, a flag that is set means that libusb holds the         *)
(* endpoint's interface, under the conditions HeldWhenUsed names.          *)
THEOREM FlagsReliable == Spec => []HeldWhenUsed
<1>1. Init => Inv
  BY InitTypes, InitFlags DEF Inv
<1>2. Inv => HeldWhenUsed
  BY DEF Inv, HeldWhenUsed, Single, FlagsOK, TransferOK
<1> QED
  BY <1>1, <1>2, NextFlags, PTL DEF Spec

-----------------------------------------------------------------------------
(* The descriptors read back *)

(* A configuration with an interface in front of its endpoints and HID     *)
(* descriptors reads back.                                                 *)
LEMMA ConfigurationReadsBack ==
    ASSUME NEW c, c.bNumInterfaces \in Nat, c.items \in Seq(Items), LedByInterface(c.items)
    PROVE  ParseInterfaces(FullDescriptor(ParseConfiguration(c))) = AllAlternates(ParseConfiguration(c))
<1> DEFINE cfg == ParseConfiguration(c)
           ifcs == AllAlternates(cfg)
<1>1. ParseInterfaces(c.items) \in Seq(PlainIfcs)
  BY ParsePlain
<1>2. PlainIfcs \in SUBSET Ifcs
  BY PlainTypes
<1>3. ifcs \in Seq(PlainIfcs)
  BY <1>1, <1>2, AlternatesType
<1>4. FullDescriptor(cfg) = Written(ifcs)
  BY DEF FullDescriptor, Written
<1> HIDE DEF cfg, ifcs
<1>5. ParseInterfaces(FullDescriptor(cfg)) = ifcs
  BY <1>3, <1>4, ListReadsBack
<1> QED
  BY <1>5 DEF cfg, ifcs

(* The model is that of the device, in every state.                        *)
LEMMA NextKept == ModelOK /\ ModelKept /\ [Next]_vars => ModelKept'
<1> SUFFICES ASSUME ModelOK, ModelKept, [Next]_vars PROVE ModelKept'
  OBVIOUS
<1>1. device' = device
  BY Fixed
<1>2. CASE model' = model
  BY <1>1, <1>2 DEF ModelKept
<1>3. CASE model' = Null
  BY <1>3 DEF ModelKept
<1>4. CASE model' = <<BuildDevice(device)>>
  <2>1. model' = <<Model(device, BuildDevice(device).active)>>
    BY <1>4, ModelFacts
  <2> QED
    BY <1>1, <2>1 DEF ModelKept
<1>5. CASE SetConfig
  <2>1. PICK k : model = <<Model(device, k)>>
    BY <1>5 DEF SetConfig, ModelOK, Running
  <2>2. PICK i : model' = <<SetActiveConfiguration(model[1], i)>>
    BY <1>5 DEF SetConfig
  <2>3. model[1] = Model(device, k)
    BY <2>1
  <2>4. \E j : SetActiveConfiguration(Model(device, k), i) = Model(device, j)
    BY SelectFacts
  <2> QED
    BY <1>1, <2>2, <2>3, <2>4 DEF ModelKept
<1>6. Unplug \/ Plug \/ Connect \/ Claim \/ Stop \/ Release \/ UNCHANGED vars => model' = model
  BY DEF Unplug, Plug, Connect, Claim, Stop, Release, modelVars, vars
<1>7. \A a : Transfer(a) => model' = model
  BY DEF Transfer, modelVars
<1>8. PopulateModel => model' = model \/ model' = <<BuildDevice(device)>>
  BY DEF PopulateModel
<1>9. Disconnect => model' = Null
  BY DEF Disconnect
<1> QED
  BY <1>2, <1>3, <1>4, <1>5, <1>6, <1>7, <1>8, <1>9 DEF Next

(* The descriptors that get_full_descriptor() gives the host read back as  *)
(* the device model the proxy works with, for every device whose           *)
(* descriptors fit the code's arrays and have an interface in front of the *)
(* endpoints and HID descriptors, in every state of every session.         *)
THEOREM DescriptorsReadBack == Spec => []ReadsBack
<1>1. Init => TypeOK /\ ModelOK /\ ModelKept
  BY InitTypes DEF Init, ModelKept
<1>2. TypeOK /\ ModelOK /\ ModelKept /\ [Next]_vars => (TypeOK /\ ModelOK /\ ModelKept)'
  BY NextTypes, NextKept
<1>3. TypeOK /\ ModelKept => ReadsBack
  <2> SUFFICES ASSUME TypeOK, ModelKept, model # Null, NEW i \in DOMAIN device.configurations,
                      LedByInterface(device.configurations[i].items)
               PROVE  LET cfg == model[1].configurations[i]
                      IN ParseInterfaces(FullDescriptor(cfg)) = AllAlternates(cfg)
    BY DEF ReadsBack
  <2> DEFINE c == device.configurations[i]
  <2>1. PICK k : model = <<Model(device, k)>>
    BY DEF ModelKept
  <2>2. model[1] = Model(device, k)
    BY <2>1
  <2>3. model[1].configurations[i] = ParseConfiguration(c)
    <3>1. Model(device, k).configurations
            = [j \in DOMAIN device.configurations |-> ParseConfiguration(device.configurations[j])]
      BY ModelFacts
    <3> QED
      BY ONLY <2>2, <3>1, i \in DOMAIN device.configurations
  <2>4. c.bNumInterfaces \in Nat /\ c.items \in Seq(Items)
    <3>1. device \in Devices
      BY DEF TypeOK
    <3>2. c.bNumInterfaces \in 0 .. 255 /\ c.items \in Seq(Items)
      BY <3>1, DevicesAssumption, Zenon DEF Byte
    <3>3. \A x \in 0 .. 255 : x \in Nat
      OBVIOUS
    <3> QED
      BY <3>2, <3>3, Zenon
  <2> HIDE DEF c
  <2>5. ParseInterfaces(FullDescriptor(ParseConfiguration(c))) = AllAlternates(ParseConfiguration(c))
    BY <2>4, ConfigurationReadsBack DEF c
  <2> QED
    BY <2>3, <2>5
<1> QED
  BY <1>1, <1>2, <1>3, PTL DEF Spec

-----------------------------------------------------------------------------
(* The polling rates converted *)

(* One configuration: the walk is that of all its interfaces.              *)
LEMMA ConfigurationConverted ==
    ASSUME NEW c, c.bNumInterfaces \in Nat, c.items \in Seq(Items), Fits(c), LedByInterface(c.items),
           \A n \in Numbers(ParseConfiguration(c)) : Len(ParseConfiguration(c).groups[n]) = 1
    PROVE  LET full == FullDescriptor(ParseConfiguration(c))
           IN AdjustIntervals(ParseConfiguration(c)) = [p \in DOMAIN full |-> ConvertItem(full[p])]
<1> DEFINE cfg == ParseConfiguration(c)
           N == c.bNumInterfaces
           ifcs == ParseInterfaces(c.items)
           all == AllAlternates(cfg)
           active == FlattenSeq([n \in 1 .. cfg.bNumInterfaces |-> GetInterface(cfg, n - 1)])
           full == FullDescriptor(cfg)
           X == CountedIfcs
<1>1. ifcs \in Seq(X)
  <2>1. ifcs \in Seq(PlainIfcs)
    BY ParsePlain
  <2>2. \A k \in DOMAIN ifcs : Len(ifcs[k].endpoints) = ifcs[k].desc.endpoints
    BY DEF Fits
  <2> HIDE DEF ifcs
  <2>3. Len(ifcs) \in Nat /\ DOMAIN ifcs = 1 .. Len(ifcs) /\ \A k \in DOMAIN ifcs : ifcs[k] \in PlainIfcs
    BY <2>1
  <2>4. \A k \in DOMAIN ifcs : ifcs[k] \in X
    BY <2>2, <2>3 DEF CountedIfcs
  <2> HIDE DEF X
  <2> QED
    BY <2>1, <2>3, <2>4
<1>2. X \in SUBSET Ifcs
  BY PlainTypes DEF CountedIfcs
<1>3. all \in Seq(X)
  BY <1>1, <1>2, AlternatesType
<1>4. active = all
  <2>1. ParseGroups(c) \in Groups(X, N)
    BY <1>1, <1>2, GroupsType
  <2>2. cfg.groups = ParseGroups(c) /\ cfg.bNumInterfaces = N
    BY DEF ParseConfiguration
  <2> HIDE DEF cfg
  <2>3. \A n \in 0 .. N - 1 : Len(ParseGroups(c)[n]) = 1
    BY <2>2 DEF Numbers, cfg
  <2> HIDE DEF N, X
  <2>4. N \in Nat
    BY DEF N
  <2> QED
    BY <2>1, <2>3, <2>4, OneAlternate DEF N, cfg
<1>5. full = Written(all)
  BY DEF FullDescriptor, Written
<1> DEFINE f == CHOOSE g : g = [k \in 0 .. Len(active) |->
                                  IF k = 0 THEN [at |-> 0, items |-> full]
                                  ELSE AdjustInterface(g[k - 1], active[k])]
<1>6. AdjustIntervals(cfg) = f[Len(active)].items
  BY Zenon DEF AdjustIntervals
<1> HIDE DEF cfg, all, active, full, X
<1>7. f = CHOOSE g : Walks(g, all, full)
  BY <1>4, Zenon DEF Walks
<1> HIDE DEF f
<1>8. /\ \E g : Walks(g, all, full)
      /\ \A g : Walks(g, all, full) => g[Len(all)].items = AllConverted(full)
  BY <1>3, <1>5, ListWalk, Zenon DEF X
<1>9. Walks(f, all, full)
  BY <1>7, <1>8, Zenon
<1>10. f[Len(all)].items = AllConverted(full)
  BY <1>8, <1>9, Zenon
<1> QED
  BY <1>4, <1>6, <1>10 DEF cfg, full, AllConverted

(* generate_descriptor() of a device at full speed without a qualifier     *)
(* gives its configurations, and gives them again converted.               *)
LEMMA Generated ==
    ASSUME NEW dev, ~dev.highspeed, dev.qualifier = <<>>,
           \A i \in DOMAIN dev.configurations :
             LET full == FullDescriptor(dev.configurations[i])
             IN AdjustIntervals(dev.configurations[i]) = [p \in DOMAIN full |-> ConvertItem(full[p])]
    PROVE  LET gadget == GenerateDescriptor(dev)
           IN gadget.high = [i \in DOMAIN gadget.full |->
                               [k \in DOMAIN gadget.full[i] |-> ConvertItem(gadget.full[i][k])]]
<1> DEFINE cs == dev.configurations
           gadget == GenerateDescriptor(dev)
           D == DOMAIN cs
<1>1. gadget = [full |-> [i \in D \cap D |-> FullDescriptor(cs[i])],
                high |-> [i \in D \cap D |-> AdjustIntervals(cs[i])]]
  BY DEF GenerateDescriptor
<1>2. D \cap D = D
  OBVIOUS
<1>3. \A i \in D : AdjustIntervals(cs[i])
                     = [p \in DOMAIN FullDescriptor(cs[i]) |-> ConvertItem(FullDescriptor(cs[i])[p])]
  OBVIOUS
<1> HIDE DEF cs, gadget, D
<1>4. gadget.full = [i \in D |-> FullDescriptor(cs[i])] /\ gadget.high = [i \in D |-> AdjustIntervals(cs[i])]
  BY <1>1, <1>2
<1>5. gadget.high = [i \in D |-> [p \in DOMAIN FullDescriptor(cs[i]) |-> ConvertItem(FullDescriptor(cs[i])[p])]]
  BY <1>3, <1>4
<1>6. DOMAIN gadget.full = D /\ \A i \in D : gadget.full[i] = FullDescriptor(cs[i])
  BY <1>4
<1> QED
  BY <1>5, <1>6 DEF gadget

(* In every session with every device at full speed that has no qualifier, *)
(* one alternate per interface, and descriptors that fit the code's arrays *)
(* with an interface in front, the walk of generate_descriptor() over      *)
(* lengths and counts converts each endpoint's polling rate once and       *)
(* damages nothing.                                                        *)
THEOREM RatesConverted == Spec => []IntervalsConverted
<1>1. Init => TypeOK /\ ModelOK /\ ModelKept
  BY InitTypes DEF Init, ModelKept
<1>2. TypeOK /\ ModelOK /\ ModelKept /\ [Next]_vars => (TypeOK /\ ModelOK /\ ModelKept)'
  BY NextTypes, NextKept
<1>3. TypeOK /\ ModelKept => IntervalsConverted
  <2> SUFFICES ASSUME TypeOK, ModelKept, NEW dev \in Range(model), ~dev.highspeed, dev.qualifier = <<>>,
                      \A cfg \in Range(dev.configurations) : \A n \in Numbers(cfg) : Len(cfg.groups[n]) = 1,
                      \A c \in Range(device.configurations) : Fits(c) /\ LedByInterface(c.items)
               PROVE  LET gadget == GenerateDescriptor(dev)
                      IN gadget.high = [i \in DOMAIN gadget.full |->
                                          [k \in DOMAIN gadget.full[i] |-> ConvertItem(gadget.full[i][k])]]
    BY Zenon DEF IntervalsConverted
  <2>1. PICK k : dev = Model(device, k)
    <3>1. model # Null
      BY DEF Null, Range
    <3>2. PICK k : model = <<Model(device, k)>>
      BY <3>1 DEF ModelKept
    <3> QED
      BY <3>2 DEF Range
  <2>2. dev.configurations = [j \in DOMAIN device.configurations |-> ParseConfiguration(device.configurations[j])]
    BY <2>1, ModelFacts
  <2>3. ASSUME NEW i \in DOMAIN dev.configurations
        PROVE  LET full == FullDescriptor(dev.configurations[i])
               IN AdjustIntervals(dev.configurations[i]) = [p \in DOMAIN full |-> ConvertItem(full[p])]
    <3> DEFINE c == device.configurations[i]
    <3>1. i \in DOMAIN device.configurations /\ dev.configurations[i] = ParseConfiguration(c)
      BY <2>2
    <3>2. \A n \in Numbers(ParseConfiguration(c)) : Len(ParseConfiguration(c).groups[n]) = 1
      <4>1. ParseConfiguration(c) \in Range(dev.configurations)
        BY <3>1 DEF Range
      <4> QED
        BY <4>1, Zenon
    <3>3. Fits(c) /\ LedByInterface(c.items)
      <4>1. c \in Range(device.configurations)
        BY <3>1 DEF Range
      <4> QED
        BY <4>1, Zenon
    <3>4. c.bNumInterfaces \in Nat /\ c.items \in Seq(Items)
      <4>1. device \in Devices
        BY DEF TypeOK
      <4>2. c.bNumInterfaces \in 0 .. 255 /\ c.items \in Seq(Items)
        BY <3>1, <4>1, DevicesAssumption, Zenon DEF Byte
      <4>3. \A x \in 0 .. 255 : x \in Nat
        OBVIOUS
      <4> QED
        BY <4>2, <4>3, Zenon
    <3> HIDE DEF c
    <3> QED
      BY <3>1, <3>2, <3>3, <3>4, ConfigurationConverted, Zenon
  <2> QED
    BY <2>3, Generated, Zenon
<1> QED
  BY <1>1, <1>2, <1>3, PTL DEF Spec
================================================================================
