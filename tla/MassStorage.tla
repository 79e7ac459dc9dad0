------------------------------- MODULE MassStorage -------------------------------
(***************************************************************************)
(* PacketFilter_MassStorage between a host and a USB disk at high speed,   *)
(* where a packet of data is a block: the command it follows, its block    *)
(* cache, the blocking of writes, switched on and off by passwords in the  *)
(* data, and the tag it passes to its injector for a false status.  Host   *)
(* and disk are external: they run the bulk-only protocol, one command at  *)
(* a time.                                                                 *)
(***************************************************************************)
EXTENDS Injector

CONSTANTS Modes,   \* the settings [block, cache, inband] to look at
          NumBlocks

ASSUME MassStorageAssumption ==
    NumBlocks \in Nat /\ Modes \subseteq [block : BOOLEAN, cache : BOOLEAN, inband : BOOLEAN]

Blocks == 0 .. NumBlocks - 1
Written == {"lock", "unlock"}    \* data with block_password, with unblock_password
Junk == "junk"                   \* more than 64 bytes that are not a block

VARIABLES
    mode,
    \* The filter: state, block_writes, inband_block_writes, base_address,
    \* block_count, block_offset, block_cache.
    state, blockWrites, inbandBlockWrites, base, count, offset, cache,
    disk,
    host, device,   \* the command each is at, with how many blocks are done
    \* History: what the host may expect in each block; the last read gave it;
    \* several blocks have been written past the cache; data of another
    \* command has been taken for blocks.
    expected, readOk, skewed, polluted

filterVars == <<state, blockWrites, inbandBlockWrites, base, count, offset, cache>>
storageVars == <<mode, filterVars, disk, host, device, expected, readOk, skewed, polluted>>
vars == <<injectorVars, storageVars>>

None == [op |-> "none", base |-> 0, count |-> 0, done |-> 0]

Init ==
    /\ InjectorInit
    /\ mode \in Modes
    /\ state = "IDLE" /\ blockWrites = mode.block /\ inbandBlockWrites = mode.block
    /\ base = 0 /\ count = 0 /\ offset = 0 /\ cache = <<>>
    /\ disk = [b \in Blocks |-> "old"]
    /\ host = None /\ device = None
    /\ expected = disk /\ readOk = TRUE /\ skewed = FALSE /\ polluted = FALSE

(* The relayers run, and so the filter sees every packet: it sets no header *)
(* mask for test_packet().                                                 *)
Filtering == manager = "relaying" /\ plugin = "MassStorage"

Put(address, block) == [a \in DOMAIN cache \cup {address} |-> IF a = address THEN block ELSE cache[a]]

(* cache_read(): the block is added, or the one in the cache is used.      *)
CacheRead(address, block) ==
    IF ~mode.cache \/ address \in DOMAIN cache THEN cache ELSE Put(address, block)
CacheReadGives(address, block) ==
    IF mode.cache /\ address \in DOMAIN cache THEN cache[address] ELSE block

(* cache_write().                                                          *)
CacheWrite(address, block) == IF mode.cache THEN Put(address, block) ELSE cache

(* check_for_password().                                                   *)
CheckForPassword(block) ==
    IF ~mode.inband THEN inbandBlockWrites
    ELSE IF inbandBlockWrites THEN block # "unlock" ELSE block = "lock"

-----------------------------------------------------------------------------
(* filter_packet() *)

(* A READ or WRITE command; one whose writes are blocked is not sent on.   *)
Command(op, a, n) ==
    /\ Filtering /\ host = None
    /\ state' = op /\ base' = a /\ count' = n /\ offset' = 0
    /\ blockWrites' = IF op = "WRITE" /\ mode.inband THEN inbandBlockWrites ELSE blockWrites
    /\ host' = [op |-> op, base |-> a, count |-> n, done |-> 0]
    /\ device' = IF op = "WRITE" /\ blockWrites' THEN None ELSE host'
    /\ UNCHANGED <<injectorVars, mode, inbandBlockWrites, cache, disk, expected, readOk, skewed, polluted>>

(* What get_packets() makes of a tag in the pipe: a packet for endpoint 82 *)
(* that says the command has succeeded.                                    *)
FalseStatus == "packet"

(* queue_packet(): the tag goes to the pipe, or, once the injector has     *)
(* been stopped, to whatever has its descriptor now.                       *)
QueuePacket ==
    /\ source' = IF open /\ offset' = count /\ Len(source) < MaxSource THEN Append(source, FalseStatus) ELSE source
    /\ UNCHANGED <<plugin, manager, thread, pleaseStop, setupWait, open, sessions, early>>

(* Mutant: blocks are cached under the command's own address.              *)
WriteAddressBase == base

WriteAddress == base + offset

(* A block of a WRITE.  The offset is counted for blocked writes only.     *)
WriteBlock(block) ==
    /\ Filtering /\ host.op = "WRITE" /\ host.done < host.count
    /\ cache' = CacheWrite(WriteAddress, block)
    /\ inbandBlockWrites' = CheckForPassword(block)
    /\ host' = [host EXCEPT !.done = @ + 1]
    /\ IF blockWrites
       THEN /\ offset' = offset + 1 /\ QueuePacket
            /\ UNCHANGED <<disk, device>>
       ELSE /\ disk' = [disk EXCEPT ![device.base + device.done] = block]
            /\ device' = [device EXCEPT !.done = @ + 1]
            /\ UNCHANGED <<injectorVars, offset>>
    /\ expected' = IF blockWrites /\ ~mode.cache THEN expected
                   ELSE [expected EXCEPT ![host.base + host.done] = block]
    /\ skewed' = (skewed \/ (~blockWrites /\ mode.cache /\ host.done > 0))
    /\ UNCHANGED <<mode, state, blockWrites, base, count, readOk, polluted>>

(* A block of a READ.                                                      *)
ReadBlock ==
    /\ Filtering /\ host.op = "READ" /\ host.done < host.count
    /\ LET address == base + offset
           block == disk[device.base + device.done]
       IN /\ cache' = CacheRead(address, block)
          /\ readOk' = (CacheReadGives(address, block) = expected[host.base + host.done])
    /\ offset' = offset + 1
    /\ host' = [host EXCEPT !.done = @ + 1] /\ device' = [device EXCEPT !.done = @ + 1]
    /\ UNCHANGED <<injectorVars, mode, state, blockWrites, inbandBlockWrites, base, count, disk, expected,
                   skewed, polluted>>

(* The disk's status, at the end of a command it was given.                *)
Status ==
    /\ Filtering /\ device # None /\ device.done = device.count
    /\ state' = "IDLE" /\ host' = None /\ device' = None
    /\ UNCHANGED <<injectorVars, mode, blockWrites, inbandBlockWrites, base, count, offset, cache, disk,
                   expected, readOk, skewed, polluted>>

(* Another command with a longer answer, and its status.  The answer is    *)
(* taken for blocks if the filter still is in a READ or a WRITE whose      *)
(* status it has not seen.                                                 *)
OtherCommand ==
    /\ Filtering /\ host = None
    /\ cache' = CASE state = "WRITE" -> CacheWrite(WriteAddress, Junk)
                  [] state = "READ" -> CacheRead(base + offset, Junk)
                  [] OTHER -> cache
    /\ offset' = IF state = "READ" \/ (state = "WRITE" /\ blockWrites) THEN offset + 1 ELSE offset
    /\ polluted' = (polluted \/ cache' # cache)
    /\ state' = "IDLE"
    /\ IF state = "WRITE" /\ blockWrites THEN QueuePacket ELSE UNCHANGED injectorVars
    /\ UNCHANGED <<mode, blockWrites, inbandBlockWrites, base, count, disk, host, device, expected, readOk,
                   skewed>>

-----------------------------------------------------------------------------

(* A blocked WRITE gets no status, the false one being dropped: the host   *)
(* gives it up.                                                            *)
HostGivesUp ==
    /\ host.op = "WRITE" /\ host.done = host.count /\ device = None
    /\ host' = None
    /\ UNCHANGED <<injectorVars, mode, filterVars, disk, device, expected, readOk, skewed, polluted>>

(* Stopping ends the host's command; the filter stays as it is.            *)
Stop ==
    /\ StopInjector
    /\ host' = None /\ device' = None
    /\ UNCHANGED <<mode, filterVars, disk, expected, readOk, skewed, polluted>>

InjectorStep ==
    /\ StartThread \/ AbortStart \/ Datagram \/ InjectorThread \/ JoinInjector
    /\ UNCHANGED storageVars

Next == InjectorStep \/ Stop
        \/ (\E op \in {"READ", "WRITE"}, a \in Blocks, n \in 1 .. NumBlocks : a + n <= NumBlocks /\ Command(op, a, n))
        \/ (\E block \in Written : WriteBlock(block)) \/ ReadBlock \/ Status \/ OtherCommand \/ HostGivesUp

Spec == Init /\ [][Next]_vars

(* A block read is what was last written there, whether it comes from the  *)
(* disk or from the cache and whether the write was passed on or blocked   *)
(* (or what was there, if writes are blocked and not cached).  What this   *)
(* takes: no WRITE of several blocks passed on while caching, and no data  *)
(* of other commands taken for blocks.                                     *)
CacheCoherent == ~skewed /\ ~polluted => readOk

(* The same without the exceptions: "A block in our cache, may have been   *)
(* written, use cached version".                                           *)
ReadsSeeWrites == readOk
================================================================================
