--------------------------- MODULE MassStorageProofs ---------------------------
(***************************************************************************)
(* Proofs about PacketFilter_MassStorage and the thread of its injector,   *)
(* for any number of blocks and sessions and any settings.                 *)
(***************************************************************************)
EXTENDS MassStorage, TLAPS

-----------------------------------------------------------------------------
(* The injector's thread *)

(* The flag is set from stop_relaying() to the end of the thread it stops, *)
(* unless a session was stopped before it had a thread.                    *)
FlagFollowsThread ==
    ~early =>
        /\ manager = "stopped" => thread = "off" /\ ~pleaseStop
        /\ manager = "relaying" => thread \in {"start", "run"} /\ ~pleaseStop
        /\ manager = "joining" => (thread = "off" <=> ~pleaseStop)

Threads ==
    /\ manager \in {"stopped", "relaying", "joining"}
    /\ thread \in {"off", "start", "run"}

-----------------------------------------------------------------------------
(* The filter *)

Commands == [op : {"READ", "WRITE"}, base : Blocks, count : 1 .. NumBlocks, done : 0 .. NumBlocks]

Types ==
    /\ host \in Commands \cup {None}
    /\ disk \in [Blocks -> Written \cup {"old"}] /\ expected \in [Blocks -> Written \cup {"old"}]

(* The filter's view of the command that is under way is the host's: base  *)
(* and offset give the block that comes next, except in a WRITE that is    *)
(* passed on, where the offset stays 0.                                    *)
InStep ==
    /\ host = None => device = None
    /\ host # None => /\ host.base = base
                      /\ host.base + host.count <= NumBlocks /\ host.done <= host.count
    /\ host.op = "READ" => device = host /\ offset = host.done
    /\ host.op = "WRITE" /\ blockWrites => device = None /\ offset = host.done
    /\ host.op = "WRITE" /\ ~blockWrites => device = host /\ offset = 0

(* What a read of a block gives, from the cache if it is there.            *)
Content(b) == IF b \in DOMAIN cache THEN cache[b] ELSE disk[b]

(* What a read gives is what the host may expect.                          *)
Coherent ==
    ~skewed /\ ~polluted =>
        /\ \A b \in Blocks : Content(b) = expected[b]
        /\ ~mode.cache => DOMAIN cache = {}

StorageInv == Types /\ InStep /\ Coherent /\ CacheCoherent

-----------------------------------------------------------------------------
(* The injector's thread: proof *)

(* Every step of the composition keeps the flag and the thread in step; of *)
(* the filter's steps only QueuePacket touches the injector, and only its  *)
(* pipe.                                                                   *)
LEMMA NextFlag == FlagFollowsThread /\ Threads /\ [Next]_vars => FlagFollowsThread' /\ Threads'
<1> SUFFICES ASSUME FlagFollowsThread, Threads, [Next]_vars
             PROVE  FlagFollowsThread' /\ Threads'
  OBVIOUS
<1>u. ASSUME UNCHANGED <<manager, thread, pleaseStop, early>>
      PROVE  FlagFollowsThread' /\ Threads'
  BY <1>u DEF FlagFollowsThread, Threads
<1>1. CASE InjectorStep
  <2>1. CASE StartThread
    BY <2>1 DEF StartThread, FlagFollowsThread, Threads
  <2>2. CASE AbortStart
    BY <2>2 DEF AbortStart, FlagFollowsThread, Threads
  <2>3. CASE Datagram \/ Listen
    BY <2>3, <1>u DEF Datagram, Listen
  <2>4. CASE StartInjector
    BY <2>4 DEF StartInjector, FlagFollowsThread, Threads
  <2>5. CASE Finish
    BY <2>5 DEF Finish, FlagFollowsThread, Threads
  <2>6. CASE JoinInjector
    BY <2>6 DEF JoinInjector, FlagFollowsThread, Threads
  <2> QED
    BY <1>1, <2>1, <2>2, <2>3, <2>4, <2>5, <2>6 DEF InjectorStep, InjectorThread
<1>2. CASE Stop
  BY <1>2 DEF Stop, StopInjector, FlagFollowsThread, Threads
<1>3. CASE \E op \in {"READ", "WRITE"}, a \in Blocks, n \in 1 .. NumBlocks :
             a + n <= NumBlocks /\ Command(op, a, n)
  BY <1>3, <1>u DEF Command, injectorVars
<1>4. CASE \E block \in Written : WriteBlock(block)
  BY <1>4, <1>u DEF WriteBlock, QueuePacket, injectorVars
<1>5. CASE OtherCommand
  BY <1>5, <1>u DEF OtherCommand, QueuePacket, injectorVars
<1>6. CASE ReadBlock \/ Status \/ HostGivesUp
  BY <1>6, <1>u DEF ReadBlock, Status, HostGivesUp, injectorVars
<1>7. CASE UNCHANGED vars
  BY <1>7, <1>u DEF vars, injectorVars
<1> QED
  BY <1>1, <1>2, <1>3, <1>4, <1>5, <1>6, <1>7 DEF Next

(* While relaying the injector has a thread, whatever the sessions before, *)
(* provided each of them had one before it was stopped.                    *)
THEOREM InjectorAlive == Spec => []InjectorServes
<1>1. Init => FlagFollowsThread /\ Threads
  BY DEF Init, InjectorInit, FlagFollowsThread, Threads
<1>2. FlagFollowsThread /\ Threads => InjectorServes
  BY DEF FlagFollowsThread, InjectorServes
<1> QED
  BY <1>1, <1>2, NextFlag, PTL DEF Spec

-----------------------------------------------------------------------------
(* The filter: proof *)

(* Nothing is cached at first, and no command is under way.                *)
LEMMA InitStorage == Init => StorageInv
<1> SUFFICES ASSUME Init PROVE StorageInv
  OBVIOUS
<1>1. Types
  BY DEF Init, Types
<1>2. InStep
  BY DEF Init, InStep, None
<1>3. Coherent
  BY DEF Init, Coherent, Content
<1>4. CacheCoherent
  BY DEF Init, CacheCoherent
<1> QED
  BY <1>1, <1>2, <1>3, <1>4 DEF StorageInv

(* Every step of host, disk, filter and injector keeps the cache coherent. *)
LEMMA NextStorage == StorageInv /\ [Next]_vars => StorageInv'
<1> SUFFICES ASSUME StorageInv, [Next]_vars PROVE StorageInv'
  OBVIOUS
<1>i. Types /\ InStep /\ Coherent /\ CacheCoherent
  BY DEF StorageInv
<1> USE DEF filterVars, storageVars
<1>u. ASSUME UNCHANGED <<mode, cache, disk, expected, readOk, skewed, polluted>>
      PROVE  Coherent' /\ CacheCoherent'
  BY <1>u, <1>i DEF Coherent, CacheCoherent, Content
<1>1. CASE InjectorStep \/ UNCHANGED vars
  <2>1. UNCHANGED storageVars
    BY <1>1 DEF InjectorStep, vars
  <2>2. Types' /\ InStep'
    BY <2>1, <1>i DEF Types, InStep
  <2> QED
    BY <2>1, <2>2, <1>u DEF StorageInv
<1>2. CASE Stop \/ Status \/ HostGivesUp
  <2>1. /\ host' = None /\ device' = None
        /\ UNCHANGED <<mode, cache, disk, expected, readOk, skewed, polluted>>
    BY <1>2, <1>i DEF Stop, Status, HostGivesUp
  <2>2. Types' /\ InStep'
    BY <2>1, <1>i DEF Types, InStep, None
  <2> QED
    BY <2>1, <2>2, <1>u DEF StorageInv
<1>3. CASE \E op \in {"READ", "WRITE"}, a \in Blocks, n \in 1 .. NumBlocks :
             a + n <= NumBlocks /\ Command(op, a, n)
  <2>1. PICK op \in {"READ", "WRITE"}, a \in Blocks, n \in 1 .. NumBlocks :
          a + n <= NumBlocks /\ Command(op, a, n)
    BY <1>3
  <2>2. /\ base' = a /\ offset' = 0 /\ host' = [op |-> op, base |-> a, count |-> n, done |-> 0]
        /\ device' = IF op = "WRITE" /\ blockWrites' THEN None ELSE host'
        /\ UNCHANGED <<mode, cache, disk, expected, readOk, skewed, polluted>>
    BY <2>1 DEF Command
  <2>3. host' \in Commands /\ host' # None
    BY <2>2, MassStorageAssumption DEF Commands, None
  <2>4. Types'
    BY <2>2, <2>3, <1>i DEF Types
  <2>5. InStep'
    BY <2>1, <2>2, <2>3, MassStorageAssumption DEF InStep, Blocks, None
  <2> QED
    BY <2>2, <2>4, <2>5, <1>u DEF StorageInv
\* The command under way and the block that is next.
<1>b. ASSUME host # None, host.done < host.count
      PROVE  /\ host \in Commands /\ host.base \in Nat /\ host.done \in Nat /\ host.count \in Nat
             /\ host.base + host.done \in Blocks /\ host.base = base
  <2>1. host \in Commands
    BY <1>b, <1>i DEF Types
  <2>2. /\ host.base \in Nat /\ host.done \in Nat /\ host.count \in Nat
        /\ host.base = base /\ host.base + host.count <= NumBlocks
    BY <1>b, <2>1, <1>i, MassStorageAssumption DEF Commands, Blocks, InStep
  <2> QED
    BY <1>b, <2>1, <2>2, MassStorageAssumption DEF Blocks
<1>4. CASE \E block \in Written : WriteBlock(block)
  <2>1. PICK block \in Written : WriteBlock(block)
    BY <1>4
  <2>2. host.op = "WRITE" /\ host # None /\ host.done < host.count
    BY <2>1 DEF WriteBlock, None
  <2> DEFINE h == host.base + host.done
  <2>3. /\ host \in Commands /\ host.base \in Nat /\ host.done \in Nat /\ host.count \in Nat
        /\ h \in Blocks /\ host.base = base
    BY <2>2, <1>b
  <2>4. /\ host' = [host EXCEPT !.done = @ + 1] /\ cache' = CacheWrite(base + offset, block)
        /\ skewed' = (skewed \/ (~blockWrites /\ mode.cache /\ host.done > 0))
        /\ UNCHANGED <<mode, blockWrites, base, readOk, polluted>>
        /\ expected' = IF blockWrites /\ ~mode.cache THEN expected ELSE [expected EXCEPT ![h] = block]
    BY <2>1 DEF WriteBlock, WriteAddress
  <2>5. /\ host' \in Commands /\ host'.op = "WRITE" /\ host'.base = host.base
        /\ host'.count = host.count /\ host'.done = host.done + 1
    BY <2>2, <2>3, <2>4, <1>i, MassStorageAssumption DEF Commands
  <2>6. host' # None /\ host'.base + host'.count <= NumBlocks /\ host'.done <= host'.count
    BY <2>2, <2>3, <2>5, <1>i DEF InStep, None
  <2>7. CacheCoherent'
    BY <2>4, <1>i DEF CacheCoherent
  <2>8. CASE blockWrites
    <3>1. offset' = offset + 1 /\ UNCHANGED <<disk, device>> /\ device = None /\ offset = host.done
      BY <2>1, <2>2, <2>8, <1>i DEF WriteBlock, InStep
    <3>2. InStep'
      BY <2>3, <2>4, <2>5, <2>6, <2>8, <3>1 DEF InStep
    <3>3. Types'
      BY <2>3, <2>4, <2>5, <3>1, <1>i DEF Types
    <3>4. ASSUME ~skewed', ~polluted', mode.cache
          PROVE  \A b \in Blocks : Content(b)' = expected'[b]
      <4>1. base + offset = h
        BY <2>3, <3>1
      <4>2. cache' = Put(h, block) /\ expected' = [expected EXCEPT ![h] = block]
        BY <2>4, <3>4, <4>1 DEF CacheWrite
      <4>3. \A b \in Blocks : Content(b) = expected[b]
        BY <2>4, <3>4, <1>i DEF Coherent
      <4> HIDE DEF h
      <4>4. DOMAIN cache' = DOMAIN cache \cup {h}
            /\ \A b \in DOMAIN cache' : cache'[b] = IF b = h THEN block ELSE cache[b]
        BY <4>2 DEF Put
      <4>5. \A b \in Blocks : expected'[b] = IF b = h THEN block ELSE expected[b]
        BY <4>2, <1>i DEF Types
      <4>6. \A b \in Blocks : b # h => disk'[b] = disk[b]
        BY <3>1, <1>i DEF Types
      <4> QED
        BY <4>3, <4>4, <4>5, <4>6 DEF Content
    <3>5. ASSUME ~skewed', ~polluted', ~mode.cache
          PROVE  (\A b \in Blocks : Content(b)' = expected'[b]) /\ DOMAIN cache' = {}
      BY <2>4, <2>8, <3>1, <3>5, <1>i DEF CacheWrite, Coherent, Content
    <3>6. Coherent'
      BY <2>4, <3>4, <3>5 DEF Coherent
    <3> QED
      BY <2>7, <3>2, <3>3, <3>6 DEF StorageInv
  <2>9. CASE ~blockWrites
    <3>1. /\ offset' = offset /\ offset = 0 /\ device = host
          /\ disk' = [disk EXCEPT ![h] = block] /\ device' = [device EXCEPT !.done = @ + 1]
          /\ expected' = [expected EXCEPT ![h] = block]
      BY <2>1, <2>2, <2>4, <2>9, <1>i DEF WriteBlock, InStep, injectorVars
    <3>2. InStep'
      BY <2>3, <2>4, <2>5, <2>6, <2>9, <3>1 DEF InStep
    <3>3. Types'
      BY <2>3, <2>5, <3>1, <1>i DEF Types
    <3>4. ASSUME ~skewed', ~polluted', mode.cache
          PROVE  \A b \in Blocks : Content(b)' = expected'[b]
      <4>1. base + offset = h
        <5>1. ~(host.done > 0)
          BY <2>4, <2>9, <3>4
        <5> QED
          BY <5>1, <2>3, <3>1
      <4>2. cache' = Put(h, block)
        BY <2>4, <3>4, <4>1 DEF CacheWrite
      <4>3. \A b \in Blocks : Content(b) = expected[b]
        BY <2>4, <3>4, <1>i DEF Coherent
      <4> HIDE DEF h
      <4>4. DOMAIN cache' = DOMAIN cache \cup {h}
            /\ \A b \in DOMAIN cache' : cache'[b] = IF b = h THEN block ELSE cache[b]
        BY <4>2 DEF Put
      <4>5. \A b \in Blocks : expected'[b] = IF b = h THEN block ELSE expected[b]
        BY <3>1, <1>i DEF Types
      <4>6. \A b \in Blocks : b # h => disk'[b] = disk[b]
        BY <3>1, <1>i DEF Types
      <4> QED
        BY <4>3, <4>4, <4>5, <4>6 DEF Content
    <3>5. ASSUME ~skewed', ~polluted', ~mode.cache
          PROVE  (\A b \in Blocks : Content(b)' = expected'[b]) /\ DOMAIN cache' = {}
      <4>1. cache' = cache /\ DOMAIN cache = {} /\ \A b \in Blocks : disk[b] = expected[b]
        BY <2>4, <3>5, <1>i DEF CacheWrite, Coherent, Content
      <4> HIDE DEF h
      <4> QED
        BY <2>3, <3>1, <4>1, <1>i DEF Content, Types
    <3>6. Coherent'
      BY <2>4, <3>4, <3>5 DEF Coherent
    <3> QED
      BY <2>7, <3>2, <3>3, <3>6 DEF StorageInv
  <2> QED
    BY <2>8, <2>9
<1>5. CASE ReadBlock
  <2>1. host.op = "READ" /\ host # None /\ host.done < host.count
    BY <1>5 DEF ReadBlock, None
  <2> DEFINE h == host.base + host.done
  <2>2. /\ host \in Commands /\ host.base \in Nat /\ host.done \in Nat /\ host.count \in Nat
        /\ h \in Blocks /\ host.base = base
    BY <2>1, <1>b
  <2>3. device = host /\ offset = host.done /\ base + offset = h /\ device.base + device.done = h
    BY <2>1, <2>2, <1>i DEF InStep
  <2>4. /\ cache' = CacheRead(h, disk[h]) /\ readOk' = (CacheReadGives(h, disk[h]) = expected[h])
        /\ offset' = offset + 1
        /\ host' = [host EXCEPT !.done = @ + 1] /\ device' = [device EXCEPT !.done = @ + 1]
        /\ UNCHANGED <<mode, blockWrites, base, disk, expected, skewed, polluted>>
    BY <1>5, <2>3 DEF ReadBlock
  <2>5. /\ host' \in Commands /\ host'.op = "READ" /\ host'.base = host.base
        /\ host'.count = host.count /\ host'.done = host.done + 1
    BY <2>1, <2>2, <2>4, <1>i, MassStorageAssumption DEF Commands
  <2>6. host' # None /\ host'.base + host'.count <= NumBlocks /\ host'.done <= host'.count
    BY <2>1, <2>2, <2>5, <1>i DEF InStep, None
  <2>7. InStep' /\ Types'
    BY <2>3, <2>4, <2>5, <2>6, <2>2, <1>i DEF InStep, Types
  <2> HIDE DEF h
  <2>8. ASSUME ~skewed, ~polluted
        PROVE  CacheReadGives(h, disk[h]) = expected[h]
    BY <2>2, <2>8, <1>i DEF CacheReadGives, Coherent, Content
  <2>9. CacheCoherent'
    BY <2>4, <2>8 DEF CacheCoherent
  <2>10. Coherent'
    <3>1. SUFFICES ASSUME ~skewed, ~polluted PROVE Coherent'
      BY <2>4 DEF Coherent
    <3>2. CASE cache' = cache
      BY <2>4, <3>1, <3>2, <1>i DEF Coherent, Content
    <3>3. CASE cache' # cache
      <4>1. mode.cache /\ h \notin DOMAIN cache /\ cache' = Put(h, disk[h])
        BY <2>4, <3>3 DEF CacheRead
      <4>2. DOMAIN cache' = DOMAIN cache \cup {h}
            /\ \A b \in DOMAIN cache' : cache'[b] = IF b = h THEN disk[h] ELSE cache[b]
        BY <4>1 DEF Put
      <4>3. \A b \in Blocks : Content(b)' = Content(b)
        BY <2>2, <2>4, <4>1, <4>2 DEF Content
      <4> QED
        BY <2>4, <4>1, <4>3, <3>1, <1>i DEF Coherent
    <3> QED
      BY <3>2, <3>3
  <2> QED
    BY <2>7, <2>9, <2>10 DEF StorageInv
<1>6. CASE OtherCommand
  <2>1. /\ host = None /\ polluted' = (polluted \/ cache' # cache)
        /\ UNCHANGED <<mode, blockWrites, base, disk, host, device, expected, readOk, skewed>>
    BY <1>6 DEF OtherCommand
  <2>2. Types' /\ InStep'
    BY <2>1, <1>i DEF Types, InStep, None
  <2>3. Coherent' /\ CacheCoherent'
    BY <2>1, <1>i DEF Coherent, CacheCoherent, Content
  <2> QED
    BY <2>2, <2>3 DEF StorageInv
<1> QED
  BY <1>1, <1>2, <1>3, <1>4, <1>5, <1>6 DEF Next

(* A read gives what was last written, from the cache or from the disk,    *)
(* for every setting of the filter and every number of blocks.             *)
THEOREM ReadsCoherent == Spec => []CacheCoherent
<1>1. StorageInv => CacheCoherent
  BY DEF StorageInv
<1> QED
  BY <1>1, InitStorage, NextStorage, PTL DEF Spec
================================================================================
