# USBProxy: a TLA+ model of the proxy

USBProxy sits between a USB host and a USB device and relays every transfer.
This directory models the queues, the relayer threads and the `Manager` that
starts, reconfigures and stops them while signals interrupt it; the proxies at
both ends (GadgetFS, LibUSB, TCP); the model of the device that they share; and
the injectors and the mass storage filter. Paths below are relative to the
repository; `PROJECT.json` maps every definition to the lines it stands for.

## 1. The system

| Component | State | Operations | Talks to |
|---|---|---|---|
| `SafeQueue` (`src/lib/SafeQueue.hpp`) | `std::queue`, mutex, condition variable | `enqueue` (drops when full), `dequeue` (blocks) | every relayer, `please_stop()` |
| EP0 relayers (`RelayReader::relay_read_setup`, `RelayWriter::relay_write_setup`) | direction flag, packet in hand, `_please_stop`, two queues | take a control request from the host, filter it, ask the device, filter the answer, answer the host | host proxy, device proxy, filters, `Manager::setConfig` |
| Data relayers (`relay_read`, `relay_write`) | packet in hand, `writing`, one queue | receive, enqueue; dequeue, filter, send, wait | one proxy on either side |
| `Manager` (`src/lib/Manager.cpp`) | status, arrays of relayers, threads and endpoints, device model, EP0 queues | `start_control_relaying`, `start_data_relaying`, `setConfig`, `stop_relaying`, `cleanup` | everything |
| `usb-mitm` (`src/tools/usb-mitm.cpp`) | `manager`, signal dispositions | `main`, `handle_signal` | `Manager` |
| `HostProxy_GadgetFS` and its helpers | mount, device file, `lastControl`, one `aiocb` and one file per endpoint, `p_epin_active` | connect, reset, disconnect, control request, ack, stall, send, wait, receive, `setConfig` | kernel, EP0 reader, data relayers, `Manager` |
| `DeviceProxy_LibUSB` | context, handle, hotplug callback, a table of endpoints with their interfaces and claims | connect, control request, claim, release, send, receive, disconnect | device, relayers, `Manager`, the program's own SIGHUP |
| TCP link (`TCP_Helper`, `DeviceProxy_TCP`, `HostProxy_TCP`) | a listener and a socket per endpoint, on each of two programs | listen, accept, connect, request, answer, `setConfig` | the other program |
| Device model (`Device` ... `Endpoint`) | descriptor tree, strings, active configuration and alternates | parse, serialise, select, `is_defined` | `Manager`, LibUSB, GadgetFS |
| Criteria | what a filter applies to | `test` | `start_data_relaying` |
| Injectors | socket or pipe, `_please_stop`, `setup_wait` | start, `listen`, stop | `Manager` |
| Mass storage filter | the command it follows, block cache, blocking, passwords | `filter_packet`, a false status through its own injector | writers |
| Other filters, other device proxies (Loopback, Callback, dot11), PluginManager, ConfigParser, tools | logs, settings | | `Manager` |

What is hard here:

* Concurrency. Each endpoint has two threads joined by a queue; a third thread
  stops them with a flag and a null packet; the EP0 writer itself starts the
  data threads, in `setConfig()`, while another thread may be stopping all of
  them.
* Interruption. `handle_signal()` runs `stop_relaying()` and
  `start_control_relaying()`, with their joins, inside the signal handler, on
  top of whatever `main()` was doing, another signal's handler included.
  LibUSB's hotplug callback sends such a signal by itself.
* Left-overs. The EP0 queues are members of `Manager` and outlive the relayers
  that use them; a stop can leave a request, an answer or a null packet behind.
* Bounds and timeouts. A full queue drops silently; proxy calls time out and
  are asked again, except LibUSB's data transfers, which wait for the device
  for ever. GadgetFS takes a timeout for the end of a write whose buffer the
  kernel is still using.
* Promises. GadgetFS tells the host that its SET_CONFIGURATION or OUT data has
  been accepted before the device has seen it.
* Sessions. Proxies, injectors and filters live as long as the program; what a
  session leaves in them (flags, sockets, files, a half followed command) is
  there in the next.
* Waiting on each other. Over TCP the client connects its endpoints before it
  answers SET_CONFIGURATION, and the server listens when it has the answer.

`PROJECT.json` lists these as hazards, at the line where each bites.

## 2. The modules

| Module | Models | Kind |
|---|---|---|
| `PacketFifo` | what `SafeQueue` promises: an atomic, bounded FIFO that drops when full | abstract specification |
| `SafeQueue` | `enqueue` and `dequeue` statement by statement: mutex, wait, notify, spurious wakeups | component |
| `ControlRelay` | the EP0 reader and writer, `_readersend`, `_writersend`, filters, the host, the device, start and stop, several sessions | composition over `PacketFifo`'s operations |
| `PacketPipe` | what a data endpoint promises: order kept, nothing made up or delivered twice, losses allowed; the packets on their way are a set of numbers | abstract specification |
| `DataRelay` | the reader and writer of a data endpoint, their queue, the sink, stop | component |
| `Manager` | `main()`, `handle_signal()`, start, stop, `setConfig()`, the lists of plugins, the life of every thread | component |
| `GadgetFS` | `HostProxy_GadgetFS` with its callers, the kernel and the host | component with its environment |
| `DeviceModel` | parsing, serialising, strings, `is_defined()`, Criteria, the descriptors GadgetFS generates | operators |
| `LibUSB` | `DeviceProxy_LibUSB` and the device model under the Manager's sessions | composition over `DeviceModel` |
| `TcpLink` | the two programs of a TCP link | composition |
| `Injector` | `Injector::listen()` over the Manager's sessions | component |
| `MassStorage` | the mass storage filter between host and disk, with its injector | composition over `Injector` |
| `SafeQueueProofs`, `ControlRelayProofs`, `DataRelayProofs`, `ManagerProofs`, `GadgetFSProofs`, `LibUSBProofs`, `TcpLinkProofs`, `MassStorageProofs` (with `Injector`'s) | theorems about the module of that name | proofs |
| `MC*` | instances for TLC | |

### SafeQueue

A thread's position (`pc`) is the statement it is about to execute. `m` is the
mutex, `waiting` the set of consumers in `c.wait()`. `NotifyOne` wakes any one
waiter or nobody; `SpuriousWakeup` wakes one for no reason. Packets are members
of `Items`. `ImplementsFifo` maps the queue to `PacketFifo`: an enqueue takes
effect at `Push` (or at the size test, when it drops) and a dequeue at `Pop`.
The other modules use `PacketFifo`'s atomic operations on the strength of it.

### ControlRelay

The host issues one control transfer at a time (`transfer`), as the default
pipe does. `ReaderControlRequest` hands it to the reader, which puts a
`SetupPacket` into `_readersend`; the writer runs the filters, asks the device,
calls `setConfig()` for SET_CONFIGURATION whatever the device said, runs the
filters again and puts the packet into `_writersend`; the reader answers with
data, an ack or a stall. Under HostProxy_GadgetFS (`hostProxy`) a transfer may
be over before that: `control_request()` acknowledges SET_CONFIGURATION and
completes an OUT transfer by reading its data (`Early`), so the host may have
its next transfer outstanding while the relayers still work on the last one,
whose answer then reaches nobody. A packet carries the number of its transfer and, as
history, what the device said. `answer` is the last answer the host saw and the
transfer it was given for; `asked` is the transfer the relayers work on,
`promised` a SET_CONFIGURATION acknowledged early. A filter is a nondeterministic choice of
`filter_out`, `transmit_out`, `filter_in` and `transmit_in`.

`Start` ... `Disconnect` are the EP0 part of `start_control_relaying()` and
`stop_relaying()`. Each pass is a session; the relayers are new, the queues are
not. `clean` records that both queues were empty when the session started.

Abandoned transfers (the host gives up and sends another SETUP) are left out:
the kernel's gadget driver answers a late reply with an error.

### DataRelay

`rp`, the queue, `wp` and `inflight` are the places a packet can be; `done`,
`overflowed`, `filtered` and `failed` are history. The proxy the writer sends to
(`sink`) is synchronous (LibUSB, TCP: `send_data()` returns when the transfer is
over, however long that takes), asynchronous (GadgetFS) or closed (GadgetFS, an
endpoint it could not open). `SinkTake` and `SinkFail` end a transfer. What
`send_wait_complete()` says is the code's: never complete for a closed endpoint,
complete for every other one, also when `aio_suspend()` has timed out and the
transfer is under way. From then on (`mistaken`) two requests may share an
`aiocb` and nothing is promised about order and duplicates; `OneSendAtATime` and
the pipe end there (`PacketPipe` has `broken` for it), `NothingVanishes` does
not. The queue is created with the relayers, so a session starts empty and one
session is enough.

### Manager

The main thread is a stack of frames: a call pushes the callee, a signal pushes
the handler, the last frame runs. So a signal can interrupt start, stop or the
polling loop between any two steps, and the interrupted call goes on
afterwards with a status that has changed under it. Every check of `status` in
`start_control_relaying()` is a step; the last one (`StartCheck`) and the
assignment of `USBM_RELAYING` (`StartRelaying`) are two. `stop_relaying()` is
split at the test, the assignment of `USBM_STOPPING`, the signalling and the
joining of each relayer, the disconnects and the assignment of `USBM_IDLE`.

Relayers are numbered in the order in which `stop_relaying()` visits them. A
relayer has an object (`obj`), a `std::thread` (`thr`: none, running, exited and
not joined) and a flag. Assigning to a joinable `std::thread`, or calling a
deleted proxy, ends in `terminated`. The EP0 writer runs `setConfig()` in its
own thread (`WriterTake`, `WriterSetConfig`, `WriterStartThread`).

`TermAt` and `HupAt` say where signals may come. They are delivered to the main
thread. A signal is blocked while its own handler runs, and `sa_mask` is empty,
so SIGINT interrupts SIGTERM's handler and the other way round (`TermHandlers`:
at most two of their frames are on the stack). `nested` records that this has
happened, `raced` that a `setConfig()` overlapped a stop, `heard` that a signal
came while it could be seen. A handler that nests during setup finds
`USBM_SETUP_ABORT` and does the whole stop inside `start_control_relaying()`:
the setup then goes on, makes the device model and claims the interfaces, and
its own `stop_relaying()` returns at once because the status is USBM_IDLE. So
`NothingLeftWhenIdle` does not hold (TLC shows this when it takes the place of
`IdleMeansStopped` in `Manager.cfg`), and the properties are about executions up
to there. `Untimed` are the relayers
that call LibUSB's `send_data()` or `receive_data()`.
`USBM_RESET` is never assigned by any code, so `main()`'s outer loop runs once.
`filterCount` and `injectorCount` are the lengths of the lists that
`load_plugins()` fills and `cleanup()` empties, the injectors first.

### GadgetFS

The state is the proxy's (`path`, the device file, `lastControl`, and per
endpoint number whether there is an `aiocb`, its status, its buffer and
`p_epin_active`), the kernel's (events to be read, the transfer in SETUP state,
open files) and the host's (what it saw). Packets are numbered. `SendData` and
`SendWait` are a writer's calls, `AioStart` the aio library's thread, which
looks up the buffer in the `aiocb` when it starts and not when the request was
made: a buffer that was freed or replaced meanwhile is what goes out.
A write that fails just behind a timed out wait makes `send_wait_complete()`
return false once (`SendWait`). `FileOf` is the name of an endpoint's file,
which above number 12 does not depend on the direction; the names of `sw_usb_udc`
differ in form only and are left out. `SetConfig` opens a prefix of the configuration's
endpoints, the longest that can be, or a shorter one if an `open()` fails.

Three exceptions are part of the properties, each a state the code reaches.
`unsure`: an `aio_suspend()` that times out is taken for a completed write
(`HostProxy_GadgetFS.cpp:385`), and a reset closes the endpoints under the
writers. `leaked`: an `aio_read()` that cannot be submitted leaves its file
open (`:539`). SET_CONFIGURATION and OUT data are acknowledged before the
device has seen them (`:277`), so their refusal never reaches the host.

### DeviceModel and LibUSB

A configuration descriptor is a sequence of items with their lengths; bytes
that nothing looks at are left out. `BuildDevice` reads a device into the tree
of configurations, interface groups, alternates and endpoints, as the
constructors do; `FullDescriptor` writes it out; `AdjustIntervals` is the walk
over the written bytes with which `generate_descriptor()` converts polling
rates, by offsets, so that a wrong length damages another descriptor. `Items`
are the descriptors a device may have, each field as wide as in its bytes.

Three properties are about it. `ModelComplete`: the model of a well formed
device has all of the device's descriptors, at both speeds, and `is_defined()`
says so, unless there is a qualifier, on which it dereferences NULL (`IsDefined`
is then "fault"; nothing in the proxy calls it). `ReadsBack`: what
`FullDescriptor` writes is parsed as the same interfaces, well formed or not,
although they are written in another order than they came in. It takes
interfaces that fit the arrays the code makes for them (`Fits`; others overrun
them) and an interface in front of the endpoints and HID descriptors
(`LedByInterface`; others are kept as generic descriptors and come back as
endpoints). `IntervalsConverted`: under the same conditions, with one alternate
per interface, the walk converts each polling rate and touches nothing else.

`LibUSB` runs the sessions of the Manager with it: connect (which may fail
half way and leave a handle), read the model, claim, SET_CONFIGURATION, find
the endpoints to relay and the filter's ones, claim again, transfers, stop,
release, disconnect, while the device is unplugged and plugged in. `ep` is
`epInterfaces`, indexed by endpoint number without direction; of several
endpoints with one number the last one that `start_data_relaying()` visits
stays in it (`SetEndpointInterfaces`), as in `in_endpoints` and `out_endpoints`
(`Endpoints`), of which the numbers 1 to 15 are relayed. It is never
reset; `HeldWhenUsed` is about what it says of interfaces in later sessions,
and names what it takes: one configuration, no number used by two interfaces,
and releases that work.

A device in no configuration, SET_CONFIGURATION 0, an interface that is
announced and not described (`GroupMissing`) and an alternate's number that is
skipped (`AlternateMissing`) lead to a NULL dereference (state `crashed`).

### TcpLink

Both programs, with a listener, a backlog and a socket per endpoint and endpoint
0's two streams. TCP keeps the order; a read may return several messages, of
which the code uses the first (`ReadReply`, `ReadRequest`). Requests and
answers carry a number as history only. Retries are what the code's are: the
server accepts what is there in a round, the client polls or connects each
endpoint in a round, both until all are up.

Because each side waits for the other, the first SET_CONFIGURATION over the
link always times out on the server, and its answer, when it comes, is taken
for the answer to the next request: `RepliesMatch` ends at the first timeout
(`late`), and `EndpointsOpen` says that the endpoints open all the same.

### Injector and MassStorage

`Injector` has the thread, the one flag that stops it, `setup_wait` and what
can be read. No code calls `set_queue()`, so every packet ends in
`full_pipe()`; for the mass storage filter this means that the status it makes
up for a blocked write never arrives. `InjectorServes` excepts sessions that
were stopped before the threads were made, which leave the flag set. Once the
mass storage filter's pipe is closed its descriptor numbers stay in use; what
other files may have them by then is outside the module.

`MassStorage` follows the filter from command to status. A packet of data is a
block, as it is at high speed; data is known by the password it contains.
`expected` is what a reader may expect of each block. `CacheCoherent` excepts
`skewed` (a write of several blocks passed on while caching: the finding of
`mass_storage_reads`) and `polluted` (another command's data taken for blocks
because the filter saw no status).

## 3. The runs

| Run | Bounds | Shows |
|---|---|---|
| `safe_queue` | 2 producers, 2 consumers, 2 kinds of packet, `QUEUE_MAX` 2 | bound, no lost wakeup, atomic FIFO, a waiting `dequeue()` returns |
| `control_relay` | 2 transfers, 2 sessions, 1 filter, `QUEUE_MAX` 1, both host proxies | one packet in flight, answers paired and faithful, configuration in time, execution in order and once, stop ends, transfers are answered or dropped by a filter |
| `control_relay_restart` | 2 transfers, 2 sessions, `QUEUE_MAX` 3 | *violated*: answers of the previous session |
| `data_relay` | 4 packets, 1 filter, `QUEUE_MAX` 2, three kinds of sink | refinement of `PacketPipe` and one send at a time until a wait is cut short, nothing vanishes, stop ends if the proxies' calls return, the queue drains |
| `manager` | 2 data relayers, 1 injector, 1 filter, 1 SET_CONFIGURATION per session, 2 SIGTERM or SIGINT anywhere, 2 SIGHUP while polling, 1 relayer without a timeout | until handlers nest: what IDLE and RELAYING mean, thread lifetimes, stop ends, SIGTERM ends the program |
| `manager_hup_setup` | 1 SIGHUP during setup | *violated*: `std::terminate()` |
| `manager_stop_race` | 1 SIGTERM, 1 SET_CONFIGURATION | *violated*: a relayer joined without being told |
| `gadgetfs` | 2 transfers, 2 packets per endpoint, 2 sessions, 2 faults, 3 layouts | packets reach the host once and in order, the host sees the answers meant for it, no endpoint file is left |
| `libusb` | 9 devices, 3 sessions, `MAX_ATTEMPTS` 5 as in the code | an interface in use is claimed, the model loses no descriptor and reads back, polling rates are converted |
| `tcp_link` | 2 endpoints, 5 requests, 1 restart | answers match until one is late, SET_CONFIGURATION opens the endpoints on both sides |
| `mass_storage` | 2 blocks, 3 sessions, all settings, both kinds of injector | reads give what was written, an injector's thread runs while relaying |
| `mass_storage_reads` | caching, writes not blocked | *violated*: a read gives another block's data |

Why these bounds are enough. Two sessions are what it takes for one session's
left-overs to meet the next, a third for what a failed or aborted one leaves
behind it; two transfers, for one answer to be taken for another, and for the host to go
on behind an early acknowledgement. `QUEUE_MAX`
is 10000 in the code; 1 and 2 make the queue full, which is the only thing the
code's behaviour depends on (and the safety of the EP0 relayers is proved for
every `QUEUE_MAX`). Two consumers are more than any queue has. Two data relayers
let `setConfig()` be half done while the loop of `stop_relaying()` passes. Two
faults let a timeout and a failed request meet on one endpoint. The layouts have
an endpoint named by two alternates and two endpoints with one file; the devices
have alternates, in order and not, a HID descriptor, descriptors in front of the first interface,
two configurations, a qualifier, an endpoint number used by two interfaces, an
interface announced and not described, an alternate skipped, and no
configuration at all. Five requests are the two of the device model,
SET_CONFIGURATION and two more; two blocks are the shortest transfer whose
offset counts.

Runs that check deadlock have an explicit final stuttering step (`Finished`),
or an environment that can always move (`libusb`). The Manager runs do not
check it, because the program ends, and because the known race of `setConfig()`
with `stop_relaying()` stops it for good (which `manager_stop_race` shows and
`StopCompletes` excepts by name). Nor do `gadgetfs`, `tcp_link` and
`mass_storage`, where the environment's bounds run out.

The violations are findings: `PROJECT.json` quotes the comment each one
contradicts. More limits were met on the way, are excepted in the properties by
name or by a constant, and are listed as hazards:

* LibUSB's `receive_data()` and `send_data()` wait without a timeout: stop, and
  with it a SIGTERM, waits for a silent device. That they return is a premise
  of `StopCompletes` and `TermEnds` (`ReceiveReturns`, `SendReturns` in
  `DataRelay`, `UntimedReturn` in `Manager`).
* `DeviceProxy_TCP::setConfig()` loops for ever at a second SET_CONFIGURATION.
  In `ControlRelay` it need not return: while it is under way `StopCompletes`
  and `AnsweredOrDropped` say nothing, and when it returns they do again. In
  `Manager` a stop that overlaps it is `raced`.
* The host never hears of the refusal of what GadgetFS acknowledged early;
  `AnswerFaithful` is about the other answers.
* While SIGTERM's handler runs a second SIGTERM may be given to another thread,
  which then runs a handler of its own beside the main thread. Not modelled.
  A check of `status` and the step it guards are one step of the model, except
  the last: a signal in between only sets USBM_SETUP_ABORT, as it would behind
  both (a nested one would not; the properties end there).
* A SIGTERM between `Manager.cpp:340` and `:341` is overwritten by
  `USBM_RELAYING`; `TermEnds` is about the ones `start_control_relaying()`
  can still see.
* A second SET_CONFIGURATION in a session assigns to running threads
  (`MaxSetConfig` 2 violates `NeverTerminated`).

### Fairness

Threads that can run do run (weak fairness per thread). A thread that finds the
mutex free again and again gets it (strong fairness of the lock steps), as
pthread mutexes give in practice. `send_wait_complete(0)` is synchronous in
every host proxy, hence strong fairness of `ReaderComplete`. Control requests
have a timeout in every proxy, hence that of the EP0 relayers' own steps; calls
that have none (`setConfig()`, a synchronous `send_data()`, LibUSB's
`receive_data()`, the exit of a relayer in `Untimed`) are not fair, and a
property that needs them to return says so. No fairness is
assumed of the host, the device, the source, the sink, signals or
SET_CONFIGURATION; `QueueDrains` has the end of the transfers as a premise.
`connect()` may time out again and again (`Retrying`), so nothing is promised
about a setup that waits for its peer. In `TcpLink`, every call that waits has a
timeout and a loop or a relayer that repeats it, and each endpoint is tried in
each round: hence weak fairness of both programs and of each endpoint's
connection. Nothing is assumed of the host's requests or of restarts.
`GadgetFS`, `LibUSB` and `MassStorage` state safety only.

## 4. What is proved

The theorems hold for every value of the constants that the ASSUMEs of the
modules admit. These say that counts and bounds are natural numbers and queues
have a place, that sets of threads or packets do not overlap, and, of devices
and layouts, that fields have the width the descriptors give them. The theorems
on `Manager` have hypotheses of their own, below. Every safety invariant and
action property that a run checks is proved, but for `ModelComplete`.

| Module | Theorem | Property |
|---|---|---|
| `SafeQueueProofs` | `TypeCorrect`, `WakeupsAreNotLost`, `RefinesFifo` | `TypeOK` with the bound, `NoLostWakeup`, `ImplementsFifo` |
| `ControlRelayProofs` | `TypeCorrect`, `OneInFlight`, `CleanSessionsPair`, `InOrder`, `AnswersAreFaithful`, `ConfiguredFirst` | `TypeOK`, `SingleInFlight`, `PairedInCleanSession`, `ExecutedInOrder`, `AnswerFaithful`, `ConfiguredInTime` |
| `DataRelayProofs` | `TypeCorrect`, `NothingLost`, `SendsOneByOne`, `RefinesPipe` | `TypeOK`, `NothingVanishes`, `OneSendAtATime`, `ImplementsPipe` |
| `ManagerProofs` | `TypeCorrect`, `NothingLeft`, `ReallyRelaying`, `ThreadsSupported`, `ToldFirst`, `NotTerminated` | `TypeOK`, `IdleMeansStopped`, `RelayingMeansRelaying`, `ThreadsOutlivedByProxies`, `ToldBeforeJoin`, `NeverTerminated` |
| `GadgetFSProofs` | `TypeCorrect`, `PacketsSentOnce`, `AnswersAreFaithful`, `NoFileLeft` | `TypeOK`, `SentOnce`, `AnswersFaithful`, `FilesAccountedFor` |
| `LibUSBProofs` | `TypeCorrect`, `FlagsReliable`, `DescriptorsReadBack`, `RatesConverted` | `TypeOK`, `HeldWhenUsed`, `ReadsBack`, `IntervalsConverted` |
| `TcpLinkProofs` | `TypeCorrect`, `AnswersPaired` | `TypeOK`, `RepliesMatch` |
| `MassStorageProofs` | `InjectorAlive`, `ReadsCoherent` | `InjectorServes`, `CacheCoherent` |

Each proof finds an inductive invariant, which TLC checked on the run's instance
before it was proved.

`SafeQueueProofs`. The invariant says that at most one thread is inside the
critical section and holds the mutex, that a producer about to push has seen
room and a consumer about to pop has seen a packet, and that the waiters are
the consumers at `wait`. Lost wakeups need counting: the number of packets is
at most the number of awake consumers plus one for a pending notify.

`ControlRelayProofs`. `OneInFlight` rests on a token argument (`OneToken`): the
request, wherever it is (reader, `_readersend`, writer, `_writersend`), is the
only one, and the one handed out last; the host waits for it or had its answer
early (`Owned`). `CleanSessionsPair` follows from it. `InOrder`
holds in every session, clean or not: its invariant says that what still waits
to be executed was issued after what has been executed. So do
`AnswersAreFaithful` and `ConfiguredFirst`, whose invariant (`Faithful`)
follows every packet in a hand or a queue, left-overs of earlier sessions
included: what it says of the device is what the device said, and a
SET_CONFIGURATION behind the writer has been through `setConfig()`.

`DataRelayProofs`. The packets in `inflight`, `wp`, the queue and `rp` are
numbered upwards in that order (`Ordered`), and a relayer holds one only
between taking it and passing it on (`Hands`). Until a wait is cut short there
is at most one transfer under way, which makes every step of the relayers a
step of `PacketPipe` or a stutter: the packet the sink completes is the oldest
in transit. Cutting it short is the pipe's step `Break`.

`ManagerProofs`. `TypeCorrect` has no hypothesis: signals come anywhere and
handlers nest. The others have `HupWhilePolling`: SIGHUP comes while `main()`
polls or is about to leave its loop. During setup it ends in `std::terminate()`
(`manager_hup_setup`). What they prove inductive is `nested \/ Inv`: the invariant
holds until SIGINT comes inside SIGTERM's handler or SIGTERM inside SIGINT's,
from where on they do not hold (section 2).
Otherwise SIGTERM and SIGINT come anywhere, any number of times, and there may
be any number of relayers, filters, injectors and SET_CONFIGURATIONs;
`NotTerminated` takes at most one of the last per session, because the second assigns to running threads. The invariant describes
the call stack: a base (`main()`, or `main()` under a SIGHUP's handler) that
determines what may be on it, and on top of that, at most, the frames of one
SIGTERM handler, entered at some point, testing the status, inside its
`stop_relaying()`, or leaving. `Holds(p, n)` says what the session looks like
at each point `p` of start and stop, which the interrupted frame still relies
on when it goes on. Two facts make that work: a handler that stops during setup
only sets `USBM_SETUP_ABORT`, and one that really stops has interrupted
`main()` at rest or a `stop_relaying()` that had not begun (`Under`).

`GadgetFSProofs`. Three invariants, one per part of the proxy. The files' one is
inductive with its types (`Files`). Control (`Control`): at most one event waits
for a transfer nobody has answered, and the transfer in SETUP state is the one
the relayers work on, unless it was accepted early. Packets (`AllInOrder`): each
IN endpoint not in `unsure` is either at rest, with everything sent seen by the
host or lost with a refused request, or has one packet on its way, in its
buffer or on the wire.

`LibUSBProofs`. An entry of `epInterfaces` never changes its interface once it
is defined, since every session of a device with one configuration visits the
same endpoints (`EntriesOK`); it is marked claimed only while that interface is
held, and the loop of `stop_relaying()` has cleared all of them when it ends
(`ClaimsOK`). `DevicesAssumption` is about bytes only: a device has lists of
descriptors, of any length and in any order.

What the folds and the walks of `DeviceModel` make of such lists is proved by
induction over them. The library's induction rules, which take an operator,
cannot be used; `UpTo` gets along with a set: a set of numbers that has 0 and,
with each number, the next has them all, by the least element of what it lacks
(`WFMin`). From it come the existence of recursive functions (`Recursion`),
that the folds of the community modules compute what a loop does
(`FoldRecursion`, `FoldRun`, `FlattenSteps`), the types of what is parsed
(`InterfacesType`, `GroupsType`, `AlternatesType`, `RelayedType`), and then:

* `DescriptorsReadBack`: the parser, having read what precedes an interface,
  reads its descriptors and has added just that interface (`OneInterface`, from
  `Stretch`, an induction within the interface); so it reads the whole list
  (`ListReadsBack`). All interfaces are plain, with no interface, endpoint or
  HID descriptor among the generic ones, because an interface came first
  (`ParsePlain`).
* `RatesConverted`: the descriptors written have offsets that increase
  (`OffsetsIncrease`) and stay as they are when a rate is converted
  (`HalfFacts`), so an offset names one descriptor (`ItemAtOffset`). The walk
  goes from the end of one interface to the end of the next with everything
  behind it converted and nothing ahead (`InterfaceWalk`, `ListWalk`).

Both rest on `ModelKept`: in every state the model is that of the device, up to
the configuration that is active.

`TcpLinkProofs`. No message is there twice (`Counted`); until the first timeout
there is none on its way but the request the server waits for, or its answer,
in the client's hand or in a socket (`Matched`).

`MassStorageProofs`. The injector's flag is set from `stop_relaying()` to the end
of the thread it stops, unless a session was stopped before it had a thread
(`FlagFollowsThread`). For the cache: base and offset of the filter give the
block that the host's command comes to next, except in a write that is passed
on, where the offset stays 0 (`InStep`), and what a read of each block would
give, from the cache or the disk, is what is expected of it (`Coherent`), as
long as neither exception has happened.

Only model-checked:

* liveness (`DequeueReturns`, `StopCompletes`, `AnsweredOrDropped`, `QueueDrains`,
  `TermEnds`, `EndpointsOpen`): fairness is out of the prover's reach;
* `ModelComplete` of `LibUSB`: it counts descriptors and adds up bytes, before
  and after they are sorted into groups, for devices TLC can enumerate.

## 5. What is not modelled, and the plan

* `DeviceProxy_Loopback`, `DeviceProxy_Callback` and the Python bindings, and
  `DeviceProxy_dot11`: no concurrency or protocol of their own, or frame I/O.
* The logging and rewriting filters. That a filter may change or drop a packet
  is a choice in `ControlRelay` and `DataRelay`.
* Plugin loading, the configuration file, option parsing, the stand-alone tools.
* TCP data packets: the stream keeps no packet boundaries and the code does not
  restore them, so there is nothing it promises. Answers longer than one read.
* The constructors that build a device model field by field, `print()`, and
  memory (what is freed twice or too early is listed as a hazard).
* What `setConfig()` of GadgetFS writes to an endpoint's file.

Left of the plan: `ModelComplete` as a theorem, which needs sums and counts that
do not depend on the order. An extension worth a model is the data packets of a TCP link, if the code ever
frames them.
