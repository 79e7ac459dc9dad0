-------------------------------- MODULE Manager --------------------------------
(***************************************************************************)
(* The life of the relaying engine: Manager::start_control_relaying,       *)
(* start_data_relaying, setConfig and stop_relaying, called by main() and  *)
(* by the signal handler of usb-mitm.cpp, which interrupts main() wherever *)
(* it is.  The EP0 writer thread runs setConfig() at the same time.        *)
(*                                                                         *)
(* The main thread is a stack of frames: a signal pushes the handler's     *)
(* frame, a call pushes the callee's.  Relayers are numbered in the order  *)
(* in which stop_relaying() signals and joins them: 1 is the EP0 reader,   *)
(* 2 the EP0 writer, 3 .. NumRelayers are the relayers of data endpoints.  *)
(***************************************************************************)
EXTENDS Naturals, Sequences

CONSTANTS NumData,       \* data relayers of the device's configuration
          NumInjectors,  \* injectors that are loaded
          NumFilters,    \* filters that are loaded
          MaxSetConfig,  \* bound: SET_CONFIGURATION requests in a session
          MaxTerm,       \* bound: SIGTERM and SIGINT sent
          MaxHup,        \* bound: SIGHUP sent
          TermAt,        \* where SIGTERM or SIGINT may interrupt main()
          HupAt,         \* where SIGHUP may
          Untimed        \* relayers whose proxy calls wait without a timeout

ASSUME ManagerAssumption ==
    /\ NumData \in Nat /\ NumInjectors \in Nat /\ NumFilters \in Nat
    /\ MaxSetConfig \in Nat /\ MaxTerm \in Nat /\ MaxHup \in Nat
    /\ Untimed \subseteq 1 .. 2 + NumData

EP0Reader == 1
EP0Writer == 2
NumRelayers == 2 + NumData
Relayers == 1 .. NumRelayers
Injectors == 1 .. NumInjectors

(* No code assigns USBM_RESET, so main()'s outer loop runs once.           *)
Statuses == {"IDLE", "SETUP", "RELAYING", "STOPPING", "SETUP_ABORT"}

MainPoints == {"new", "start", "poll", "stop", "cleanup", "delete", "deleteJoin", "end"}
HandlerPoints == {"termStop", "termDefault", "hupStop", "hupStart", "hupReturn"}
StartPoints == {"setup", "connectDevice", "model", "endpoint", "relayers", "apply",
                "injectors", "connectHost", "readerThread", "writerThread", "check",
                "relaying"}
StopPoints == {"test", "stopping", "signalInjectors", "signal", "joinInjectors", "join",
               "disconnect", "idle"}
Points == MainPoints \cup HandlerPoints \cup StartPoints \cup StopPoints
          \cup {"terminated", "killed"}
Over == {"end", "terminated", "killed"}

VARIABLES
    stack,       \* the main thread: a sequence of frames, the last one runs
    status,
    \* The relayers: pointer not NULL, std::thread handle, _please_stop.
    obj, thr, flag,
    \* The injectors: std::thread handle, _please_stop.
    injThr, injFlag,
    device,      \* the device model exists
    devConnected, hostConnected, claimed,
    proxies,     \* deviceProxy and hostProxy: "none", "live" or "deleted"
    filterCount, injectorCount,
    wcfg,        \* EP0 writer: 0 relaying, 1 in setConfig(), r about to start thread r
    ncfg,        \* SET_CONFIGURATION requests taken in this session
    terms, hups, \* signals sent
    dflt,        \* SIGTERM and SIGINT are back to SIG_DFL
    \* History.
    heard,       \* a SIGTERM came while relaying or setting up, no SIGHUP since
    nested,      \* SIGINT came inside the handler of SIGTERM, or SIGTERM in SIGINT's
    raced        \* setConfig() ran while relaying was being stopped

relayerVars == <<obj, thr, flag, wcfg, ncfg>>
injectorVars == <<injThr, injFlag>>
pluginVars == <<proxies, filterCount, injectorCount>>
linkVars == <<device, devConnected, hostConnected, claimed, pluginVars>>
signalVars == <<terms, hups, dflt, heard, nested>>
vars == <<stack, status, relayerVars, injectorVars, linkVars, signalVars, raced>>

Frame(point, n) == [at |-> point, r |-> n]
Top == stack[Len(stack)]
At(point) == Top.at = point
Goto(point, n) == [stack EXCEPT ![Len(stack)] = Frame(point, n)]
Call(back, callee) == Append(Goto(back, 0), Frame(callee, 0))
Return == SubSeq(stack, 1, Len(stack) - 1)
Terminate == Append(stack, Frame("terminated", 0))

Alive == Top.at \notin Over
OnStack(points) == \E i \in DOMAIN stack : stack[i].at \in points
Quiet == ~OnStack(StartPoints \cup StopPoints \cup {"terminated", "killed"})
Running(r) == thr[r] = "running"

Init ==
    /\ stack = <<Frame("new", 0)>>
    /\ status = "IDLE"
    /\ obj = [r \in Relayers |-> FALSE]
    /\ thr = [r \in Relayers |-> "none"]
    /\ flag = [r \in Relayers |-> FALSE]
    /\ injThr = [i \in Injectors |-> "none"]
    /\ injFlag = [i \in Injectors |-> FALSE]
    /\ device = FALSE /\ devConnected = FALSE /\ hostConnected = FALSE /\ claimed = FALSE
    /\ proxies = "none" /\ filterCount = 0 /\ injectorCount = 0
    /\ wcfg = 0 /\ ncfg = 0
    /\ terms = 0 /\ hups = 0 /\ dflt = FALSE
    /\ heard = FALSE /\ nested = FALSE /\ raced = FALSE

-----------------------------------------------------------------------------
(* main() *)

(* load_plugins() makes the two proxies and fills the lists of filters and *)
(* injectors, one add_filter() or add_injector() after the other.          *)
LoadPlugins == proxies' = "live"
AddFilters == filterCount' = NumFilters
AddInjectors == injectorCount' = NumInjectors

(* remove_filter() and remove_injector(), until none is left.  Each one is *)
(* deleted, and the list closed up.                                        *)
RemoveFilters == filterCount' = 0
RemoveInjectors == injectorCount' = 0

(* manager=new Manager, manager->load_plugins().                           *)
MainNew ==
    /\ At("new")
    /\ LoadPlugins /\ AddFilters /\ AddInjectors
    /\ stack' = Goto("start", 0)
    /\ UNCHANGED <<status, relayerVars, injectorVars, device, devConnected, hostConnected,
                   claimed, signalVars, raced>>

MainStart ==
    /\ At("start")
    /\ stack' = Call("poll", "setup")
    /\ UNCHANGED <<status, relayerVars, injectorVars, linkVars, signalVars, raced>>

(* The loop sleeps and looks again while the status is USBM_RELAYING.      *)
MainPoll ==
    /\ At("poll")
    /\ status # "RELAYING"
    /\ stack' = Goto("stop", 0)
    /\ UNCHANGED <<status, relayerVars, injectorVars, linkVars, signalVars, raced>>

MainStop ==
    /\ At("stop")
    /\ stack' = Call("cleanup", "test")
    /\ UNCHANGED <<status, relayerVars, injectorVars, linkVars, signalVars, raced>>

(* Manager::cleanup deletes the plugins, whoever is still using them.      *)
MainCleanup ==
    /\ At("cleanup")
    /\ proxies' = "deleted" /\ RemoveFilters /\ RemoveInjectors
    /\ stack' = Goto("delete", 0)
    /\ UNCHANGED <<status, relayerVars, injectorVars, device, devConnected, hostConnected,
                   claimed, signalVars, raced>>

(* Manager::~Manager signals what is left of the relayers, and of the list *)
(* of injectors, which cleanup() has emptied ...                           *)
MainDelete ==
    /\ At("delete")
    /\ flag' = [r \in Relayers |-> flag[r] \/ (obj[r] /\ thr[r] # "none")]
    /\ injFlag' = [i \in Injectors |-> injFlag[i] \/ i <= injectorCount]
    /\ device' = FALSE
    /\ stack' = Goto("deleteJoin", 0)
    /\ UNCHANGED <<status, obj, thr, wcfg, ncfg, injThr, devConnected, hostConnected,
                   claimed, pluginVars, signalVars, raced>>

(* ... and joins them.                                                     *)
MainDeleteJoin ==
    /\ At("deleteJoin")
    /\ \A r \in Relayers : ~Running(r)
    /\ \A i \in Injectors : injThr[i] # "running"
    /\ obj' = [r \in Relayers |-> FALSE]
    /\ thr' = [r \in Relayers |-> "none"]
    /\ injThr' = [i \in Injectors |-> "none"]
    /\ stack' = Goto("end", 0)
    /\ UNCHANGED <<status, flag, wcfg, ncfg, injFlag, linkVars, signalVars, raced>>

Main == MainNew \/ MainStart \/ MainPoll \/ MainStop \/ MainCleanup \/ MainDelete
        \/ MainDeleteJoin

-----------------------------------------------------------------------------
(* handle_signal(): sa_mask is empty, so a signal is blocked while its     *)
(* own handler runs, and no other is.                                      *)

TermHandlers == {i \in DOMAIN stack : stack[i].at \in {"termStop", "termDefault"}}

(* SIGTERM or SIGINT; one of them interrupts the other's handler too.      *)
DeliverTerm ==
    /\ Alive /\ ~dflt /\ terms < MaxTerm
    /\ Top.at \in TermAt
    /\ \A i, j \in TermHandlers : i = j
    /\ stack' = Append(stack, Frame("termStop", 0))
    /\ terms' = terms + 1
    /\ heard' = (heard \/ (/\ status \in {"SETUP", "RELAYING"}
                           /\ ~At("relaying")
                           /\ ~OnStack({"hupStop", "hupStart"})))
    /\ nested' = (nested \/ TermHandlers # {})
    /\ UNCHANGED <<status, relayerVars, injectorVars, linkVars, hups, dflt, raced>>

(* After a handler's end SIGTERM and SIGINT meet SIG_DFL.                  *)
KilledByTerm ==
    /\ Alive /\ dflt /\ terms < MaxTerm
    /\ Top.at \in TermAt
    /\ stack' = Append(stack, Frame("killed", 0))
    /\ terms' = terms + 1
    /\ UNCHANGED <<status, relayerVars, injectorVars, linkVars, hups, dflt, heard, nested, raced>>

DeliverHup ==
    /\ Alive /\ hups < MaxHup
    /\ Top.at \in HupAt
    /\ ~OnStack({"hupStop", "hupStart", "hupReturn"})
    /\ stack' = Append(stack, Frame("hupStop", 0))
    /\ hups' = hups + 1
    /\ heard' = FALSE
    /\ UNCHANGED <<status, relayerVars, injectorVars, linkVars, terms, dflt, nested, raced>>

(* if (manager) manager->stop_relaying(), and the same for SIGHUP's start. *)
HandlerTermStop ==
    /\ At("termStop")
    /\ stack' = IF proxies = "none" THEN Goto("termDefault", 0) ELSE Call("termDefault", "test")
    /\ UNCHANGED <<status, relayerVars, injectorVars, linkVars, signalVars, raced>>

HandlerTermDefault ==
    /\ At("termDefault")
    /\ dflt' = TRUE
    /\ stack' = Return
    /\ UNCHANGED <<status, relayerVars, injectorVars, linkVars, terms, hups, heard, nested, raced>>

HandlerHupStop ==
    /\ At("hupStop")
    /\ stack' = IF proxies = "none" THEN Return ELSE Call("hupStart", "test")
    /\ UNCHANGED <<status, relayerVars, injectorVars, linkVars, signalVars, raced>>

HandlerHupStart ==
    /\ At("hupStart")
    /\ stack' = Call("hupReturn", "setup")
    /\ UNCHANGED <<status, relayerVars, injectorVars, linkVars, signalVars, raced>>

HandlerHupReturn ==
    /\ At("hupReturn")
    /\ stack' = Return
    /\ UNCHANGED <<status, relayerVars, injectorVars, linkVars, signalVars, raced>>

Handler == HandlerTermStop \/ HandlerTermDefault \/ HandlerHupStop \/ HandlerHupStart
           \/ HandlerHupReturn

-----------------------------------------------------------------------------
(* Manager::start_control_relaying *)

StartSetup ==
    /\ At("setup")
    /\ status' = "SETUP"
    /\ raced' = FALSE
    /\ stack' = Goto("connectDevice", 0)
    /\ UNCHANGED <<relayerVars, injectorVars, linkVars, signalVars>>

(* deviceProxy->connect(): it succeeds, or fails, or times out when the    *)
(* status is no longer USBM_SETUP.  A timeout before that is tried again.  *)
StartConnectDevice ==
    /\ At("connectDevice")
    /\ IF proxies = "deleted"
       THEN stack' = Terminate /\ UNCHANGED <<status, devConnected>>
       ELSE \/ /\ devConnected' = TRUE
               /\ stack' = Goto("model", 0)
               /\ UNCHANGED status
            \/ /\ status' = "IDLE"
               /\ stack' = Return
               /\ UNCHANGED devConnected
    /\ UNCHANGED <<relayerVars, injectorVars, device, hostConnected, claimed, pluginVars,
                   signalVars, raced>>

(* new Device, claim_interface() for every interface.  A proxy that a      *)
(* nested handler has disconnected meanwhile cannot be asked: libusb is    *)
(* given a NULL handle, or the Device's constructor calls exit().          *)
StartModel ==
    /\ At("model")
    /\ IF devConnected
       THEN device' = TRUE /\ claimed' = TRUE /\ stack' = Goto("endpoint", 0)
       ELSE stack' = Terminate /\ UNCHANGED <<device, claimed>>
    /\ UNCHANGED <<status, relayerVars, injectorVars, devConnected, hostConnected, pluginVars,
                   signalVars, raced>>

(* Mutant: an aborted setup returns without stopping what it started.      *)
SetupAbortedReturns ==
    /\ Top.at \in {"endpoint", "relayers", "apply", "injectors", "writerThread", "check"}
    /\ status # "SETUP"
    /\ At("apply") => filterCount + injectorCount > 0
    /\ At("injectors") => Top.r <= injectorCount
    /\ status' = "IDLE"
    /\ stack' = Return
    /\ UNCHANGED <<relayerVars, injectorVars, linkVars, signalVars, raced>>

(***************************************************************************)
(* if (status!=USBM_SETUP) {stop_relaying();return;} in front of a step.   *)
(* The check behind the reader thread also sets USBM_SETUP_ABORT.          *)
(***************************************************************************)
SetupAborted ==
    /\ Top.at \in {"endpoint", "relayers", "apply", "injectors", "writerThread", "check"}
    /\ status # "SETUP"
    /\ At("apply") => filterCount + injectorCount > 0
    /\ At("injectors") => Top.r <= injectorCount
    /\ status' = IF At("writerThread") THEN "SETUP_ABORT" ELSE status
    /\ stack' = Goto("test", 0)
    /\ UNCHANGED <<relayerVars, injectorVars, linkVars, signalVars, raced>>

StartEndpoint ==
    /\ At("endpoint")
    /\ status = "SETUP"
    /\ stack' = Goto("relayers", 0)
    /\ UNCHANGED <<status, relayerVars, injectorVars, linkVars, signalVars, raced>>

(* new RelayReader, new RelayWriter for endpoint 0                         *)
StartRelayers ==
    /\ At("relayers")
    /\ status = "SETUP"
    /\ obj' = [obj EXCEPT ![EP0Reader] = TRUE, ![EP0Writer] = TRUE]
    /\ flag' = [flag EXCEPT ![EP0Reader] = FALSE, ![EP0Writer] = FALSE]
    /\ ncfg' = 0
    /\ stack' = Goto("apply", 0)
    /\ UNCHANGED <<status, thr, wcfg, injectorVars, linkVars, signalVars, raced>>

(* Filters and injectors are attached to the EP0 writer.                   *)
StartApply ==
    /\ At("apply")
    /\ status = "SETUP" \/ filterCount + injectorCount = 0
    /\ stack' = Goto("injectors", 1)
    /\ UNCHANGED <<status, relayerVars, injectorVars, linkVars, signalVars, raced>>

(***************************************************************************)
(* The check of the status and the thread it guards are one step: a signal *)
(* that comes between them only marks the setup, and the next check finds  *)
(* the mark.                                                               *)
(***************************************************************************)
StartInjector ==
    /\ At("injectors")
    /\ IF Top.r > injectorCount
       THEN stack' = Goto("connectHost", 0) /\ UNCHANGED injThr
       ELSE /\ status = "SETUP"
            /\ injThr' = [injThr EXCEPT ![Top.r] = "running"]
            /\ stack' = Goto("injectors", Top.r + 1)
    /\ UNCHANGED <<status, relayerVars, injFlag, linkVars, signalVars, raced>>

(* Mutant: rc is not looked at.                                            *)
StartConnectHostUnchecked ==
    /\ At("connectHost")
    /\ \E ok \in BOOLEAN : hostConnected' = ok
    /\ stack' = Goto("readerThread", 0)
    /\ UNCHANGED <<status, relayerVars, injectorVars, device, devConnected, claimed, pluginVars,
                   signalVars, raced>>

(* hostProxy->connect(device), as above; a failure aborts the setup.  The  *)
(* device model is gone when a nested handler has stopped the session.     *)
StartConnectHost ==
    /\ At("connectHost")
    /\ IF ~device
       THEN stack' = Terminate /\ UNCHANGED <<status, hostConnected>>
       ELSE \/ /\ hostConnected' = TRUE
               /\ stack' = Goto("readerThread", 0)
               /\ UNCHANGED status
            \/ /\ status' = "SETUP_ABORT"
               /\ stack' = Goto("test", 0)
               /\ UNCHANGED hostConnected
    /\ UNCHANGED <<relayerVars, injectorVars, device, devConnected, claimed, pluginVars,
                   signalVars, raced>>

(* if (relayer) its thread is started.  Assigning to a std::thread that is *)
(* joinable calls std::terminate().                                        *)
AssignThread(r, next) ==
    \/ ~obj[r] /\ stack' = next /\ UNCHANGED thr
    \/ obj[r] /\ thr[r] # "none" /\ stack' = Terminate /\ UNCHANGED thr
    \/ obj[r] /\ thr[r] = "none" /\ thr' = [thr EXCEPT ![r] = "running"] /\ stack' = next

StartReaderThread ==
    /\ At("readerThread")
    /\ AssignThread(EP0Reader, Goto("writerThread", 0))
    /\ UNCHANGED <<status, obj, flag, wcfg, ncfg, injectorVars, linkVars, signalVars, raced>>

StartWriterThread ==
    /\ At("writerThread")
    /\ status = "SETUP"
    /\ AssignThread(EP0Writer, Goto("check", 0))
    /\ UNCHANGED <<status, obj, flag, wcfg, ncfg, injectorVars, linkVars, signalVars, raced>>

(* The last check, and the assignment that follows it, are two steps.      *)
StartCheck ==
    /\ At("check")
    /\ status = "SETUP"
    /\ stack' = Goto("relaying", 0)
    /\ UNCHANGED <<status, relayerVars, injectorVars, linkVars, signalVars, raced>>

StartRelaying ==
    /\ At("relaying")
    /\ status' = "RELAYING"
    /\ stack' = Return
    /\ UNCHANGED <<relayerVars, injectorVars, linkVars, signalVars, raced>>

Starting == StartSetup \/ StartConnectDevice \/ StartModel \/ SetupAborted \/ StartEndpoint
            \/ StartRelayers \/ StartApply \/ StartInjector \/ StartConnectHost
            \/ StartReaderThread \/ StartWriterThread \/ StartCheck \/ StartRelaying

-----------------------------------------------------------------------------
(* Manager::stop_relaying *)

(* Mutant: a setup that was aborted is not cleaned up.                     *)
StopTestRelayingOnly ==
    /\ At("test")
    /\ status' = IF status = "SETUP" THEN "SETUP_ABORT" ELSE status
    /\ stack' = IF status = "RELAYING" THEN Goto("stopping", 0) ELSE Return
    /\ UNCHANGED <<relayerVars, injectorVars, linkVars, signalVars, raced>>

(* Mutant: a setup under way is not aborted.                               *)
StopTestIgnoresSetup ==
    /\ At("test")
    /\ stack' = IF status \in {"RELAYING", "SETUP_ABORT"} THEN Goto("stopping", 0) ELSE Return
    /\ UNCHANGED <<status, relayerVars, injectorVars, linkVars, signalVars, raced>>

(* The two early returns: a setup under way is only marked, and it calls   *)
(* stop_relaying() itself at its next check.                               *)
StopTest ==
    /\ At("test")
    /\ status' = IF status = "SETUP" THEN "SETUP_ABORT" ELSE status
    /\ stack' = IF status \in {"RELAYING", "SETUP_ABORT"} THEN Goto("stopping", 0) ELSE Return
    /\ UNCHANGED <<relayerVars, injectorVars, linkVars, signalVars, raced>>

StopStopping ==
    /\ At("stopping")
    /\ status' = "STOPPING"
    /\ raced' = (raced \/ wcfg # 0)
    /\ stack' = Goto("signalInjectors", 0)
    /\ UNCHANGED <<relayerVars, injectorVars, linkVars, signalVars>>

(* Every injector, whether or not its thread was started.                  *)
StopSignalInjectors ==
    /\ At("signalInjectors")
    /\ injFlag' = [i \in Injectors |-> injFlag[i] \/ i <= injectorCount]
    /\ stack' = Goto("signal", 1)
    /\ UNCHANGED <<status, relayerVars, injThr, linkVars, signalVars, raced>>

(* Mutant: the last relayer is not signalled.                              *)
StopSignalOffByOne ==
    /\ At("signal")
    /\ flag' = [flag EXCEPT ![Top.r] = @ \/ (thr[Top.r] # "none" /\ Top.r < NumRelayers)]
    /\ stack' = IF Top.r < NumRelayers THEN Goto("signal", Top.r + 1) ELSE Goto("joinInjectors", 0)
    /\ UNCHANGED <<status, obj, thr, wcfg, ncfg, injectorVars, linkVars, signalVars, raced>>

(* please_stop() for the next relayer, if its thread is joinable.          *)
StopSignal ==
    /\ At("signal")
    /\ flag' = [flag EXCEPT ![Top.r] = @ \/ thr[Top.r] # "none"]
    /\ stack' = IF Top.r < NumRelayers THEN Goto("signal", Top.r + 1) ELSE Goto("joinInjectors", 0)
    /\ UNCHANGED <<status, obj, thr, wcfg, ncfg, injectorVars, linkVars, signalVars, raced>>

StopJoinInjectors ==
    /\ At("joinInjectors")
    /\ \A i \in Injectors : injThr[i] # "running"
    /\ injThr' = [i \in Injectors |-> "none"]
    /\ stack' = Goto("join", 1)
    /\ UNCHANGED <<status, relayerVars, injFlag, linkVars, signalVars, raced>>

AfterJoin == IF Top.r < NumRelayers THEN Goto("join", Top.r + 1) ELSE Goto("disconnect", 0)

(* Mutant: the relayer is deleted, its thread is not joined.               *)
StopDeleteUnjoined ==
    /\ At("join")
    /\ obj' = [obj EXCEPT ![Top.r] = FALSE]
    /\ stack' = AfterJoin
    /\ UNCHANGED <<status, thr, flag, wcfg, ncfg, injectorVars, linkVars, signalVars, raced>>

(* join() the next relayer's thread and delete the relayer                 *)
StopJoin ==
    /\ At("join")
    /\ IF obj[Top.r]
       THEN /\ ~Running(Top.r)
            /\ thr' = [thr EXCEPT ![Top.r] = "none"]
            /\ obj' = [obj EXCEPT ![Top.r] = FALSE]
       ELSE UNCHANGED <<obj, thr>>
    /\ stack' = AfterJoin
    /\ UNCHANGED <<status, flag, wcfg, ncfg, injectorVars, linkVars, signalVars, raced>>

(* Release the interfaces, disconnect both proxies, drop the device model. *)
StopDisconnect ==
    /\ At("disconnect")
    /\ IF proxies = "deleted"
       THEN stack' = Terminate /\ UNCHANGED <<device, devConnected, hostConnected, claimed>>
       ELSE /\ claimed' = (claimed /\ ~device)
            /\ hostConnected' = FALSE
            /\ devConnected' = FALSE
            /\ device' = FALSE
            /\ stack' = Goto("idle", 0)
    /\ UNCHANGED <<status, relayerVars, injectorVars, pluginVars, signalVars, raced>>

StopIdle ==
    /\ At("idle")
    /\ status' = "IDLE"
    /\ stack' = Return
    /\ UNCHANGED <<relayerVars, injectorVars, linkVars, signalVars, raced>>

Stopping == StopTest \/ StopStopping \/ StopSignalInjectors \/ StopSignal \/ StopJoinInjectors
            \/ StopJoin \/ StopDisconnect \/ StopIdle

-----------------------------------------------------------------------------
(* The relayer and injector threads *)

(* The loop of a relayer ends when it finds _please_stop set, and resets   *)
(* it; the EP0 writer looks only between two requests.                     *)
RelayerExit(r) ==
    /\ Alive
    /\ Running(r) /\ flag[r]
    /\ r = EP0Writer => wcfg = 0
    /\ thr' = [thr EXCEPT ![r] = "exited"]
    /\ flag' = [flag EXCEPT ![r] = FALSE]
    /\ UNCHANGED <<stack, status, obj, wcfg, ncfg, injectorVars, linkVars, signalVars, raced>>

(* Injector::listen *)
InjectorExit(i) ==
    /\ Alive
    /\ injThr[i] = "running" /\ injFlag[i]
    /\ injThr' = [injThr EXCEPT ![i] = "exited"]
    /\ injFlag' = [injFlag EXCEPT ![i] = FALSE]
    /\ UNCHANGED <<stack, status, relayerVars, linkVars, signalVars, raced>>

(* relay_write_setup() has dequeued a SET_CONFIGURATION, its flag not set. *)
WriterTake ==
    /\ Alive
    /\ Running(EP0Writer) /\ ~flag[EP0Writer]
    /\ wcfg = 0 /\ ncfg < MaxSetConfig
    /\ wcfg' = 1
    /\ ncfg' = ncfg + 1
    /\ raced' = (raced \/ status = "STOPPING")
    /\ UNCHANGED <<stack, status, obj, thr, flag, injectorVars, linkVars, signalVars>>

(* Manager::setConfig, and start_data_relaying up to the threads: new      *)
(* relayers for the data endpoints, interfaces claimed.                    *)
WriterSetConfig ==
    /\ Alive
    /\ wcfg = 1
    /\ IF device /\ proxies = "live"
       THEN /\ obj' = [r \in Relayers |-> obj[r] \/ r > EP0Writer]
            /\ flag' = [r \in Relayers |-> flag[r] /\ r <= EP0Writer]
            /\ claimed' = TRUE
            /\ wcfg' = IF NumData = 0 THEN 0 ELSE EP0Writer + 1
            /\ UNCHANGED stack
       ELSE stack' = Terminate /\ UNCHANGED <<obj, flag, claimed, wcfg>>
    /\ UNCHANGED <<status, thr, ncfg, injectorVars, device, devConnected, hostConnected,
                   pluginVars, signalVars, raced>>

(* Mutant: the loop over the data relayers runs one too far.               *)
WriterStartThreadOffByOne ==
    /\ Alive
    /\ wcfg > EP0Writer
    /\ AssignThread(wcfg, stack)
    /\ wcfg' = IF wcfg > NumRelayers THEN 0 ELSE wcfg + 1
    /\ UNCHANGED <<status, obj, flag, ncfg, injectorVars, linkVars, signalVars, raced>>

(* start_data_relaying starts the thread of the next data relayer.         *)
WriterStartThread ==
    /\ Alive
    /\ wcfg > EP0Writer
    /\ AssignThread(wcfg, stack)
    /\ wcfg' = IF wcfg = NumRelayers THEN 0 ELSE wcfg + 1
    /\ UNCHANGED <<status, obj, flag, ncfg, injectorVars, linkVars, signalVars, raced>>

SetConfig == WriterSetConfig \/ WriterStartThread

Next ==
    \/ Main \/ Handler \/ Starting \/ Stopping
    \/ DeliverTerm \/ KilledByTerm \/ DeliverHup
    \/ WriterTake \/ SetConfig
    \/ \E r \in Relayers : RelayerExit(r)
    \/ \E i \in Injectors : InjectorExit(i)

Spec == Init /\ [][Next]_vars

(***************************************************************************)
(* Fairness.  Each thread that can run does run.  A relayer that is told   *)
(* to stop leaves its loop: please_stop() wakes its dequeue, and its proxy *)
(* calls time out (ControlRelay, DataRelay), except those of the relayers  *)
(* in Untimed, which call DeviceProxy_LibUSB::send_data or receive_data    *)
(* with timeout 0 and leave only if the device answers.  Injector::listen  *)
(* polls with a timeout.  Nobody has to send a signal or a                 *)
(* SET_CONFIGURATION, and connect() may time out again and again.          *)
(***************************************************************************)
Retrying == Top.at \in {"connectDevice", "connectHost"} /\ status = "SETUP"

FairSpec ==
    /\ Spec
    /\ WF_vars(~Retrying /\ (Main \/ Handler \/ Starting \/ Stopping))
    /\ \A r \in Relayers \ Untimed : WF_vars(RelayerExit(r))
    /\ \A i \in Injectors : WF_vars(InjectorExit(i))

-----------------------------------------------------------------------------
Threads == {"none", "running", "exited"}

(* Types of the main thread's stack, the relayers and the injectors.       *)
TypeOK ==
    /\ stack \in Seq([at : Points, r : 0 .. NumRelayers + NumInjectors + 1])
    /\ stack # <<>>
    /\ status \in Statuses
    /\ obj \in [Relayers -> BOOLEAN]
    /\ thr \in [Relayers -> Threads]
    /\ flag \in [Relayers -> BOOLEAN]
    /\ injThr \in [Injectors -> Threads]
    /\ injFlag \in [Injectors -> BOOLEAN]
    /\ device \in BOOLEAN /\ devConnected \in BOOLEAN /\ hostConnected \in BOOLEAN
    /\ claimed \in BOOLEAN /\ proxies \in {"none", "live", "deleted"}
    /\ filterCount \in 0 .. NumFilters /\ injectorCount \in 0 .. NumInjectors
    /\ wcfg \in 0 .. NumRelayers /\ ncfg \in Nat
    /\ terms \in Nat /\ hups \in Nat
    /\ dflt \in BOOLEAN /\ heard \in BOOLEAN /\ nested \in BOOLEAN /\ raced \in BOOLEAN

(* When the status is USBM_IDLE and neither start nor stop is under way,   *)
(* nothing is left of the last session: no relayer or injector thread, no  *)
(* relayer object, no connection, no claimed interface, no device model.   *)
NothingLeftWhenIdle ==
    status = "IDLE" /\ Quiet =>
        /\ \A r \in Relayers : thr[r] = "none" /\ ~obj[r]
        /\ \A i \in Injectors : injThr[i] = "none"
        /\ ~hostConnected /\ ~devConnected /\ ~claimed /\ ~device

(* So it is as long as no SIGINT has come inside SIGTERM's handler, nor    *)
(* SIGTERM inside SIGINT's.                                                *)
IdleMeansStopped == ~nested => NothingLeftWhenIdle

(* When the status is USBM_RELAYING and neither start nor stop is under    *)
(* way, both EP0 relayers run, unflagged, between two connected proxies;   *)
(* again without nested handlers.                                          *)
RelayingMeansRelaying ==
    status = "RELAYING" /\ Quiet /\ ~nested =>
        /\ \A r \in {EP0Reader, EP0Writer} : obj[r] /\ Running(r) /\ ~flag[r]
        /\ device /\ devConnected /\ hostConnected

(* A thread runs only while what it uses exists: a relayer's own object,   *)
(* the device model and two connected proxies; the injector, which         *)
(* cleanup() deletes without a look at its thread.  stop_relaying() joins  *)
(* before it disconnects, also when setConfig() starts threads meanwhile;  *)
(* again without nested handlers.                                          *)
ThreadsOutlivedByProxies ==
    ~nested =>
        /\ \A r \in Relayers : Running(r) =>
             obj[r] /\ device /\ devConnected /\ hostConnected /\ proxies = "live"
        /\ \A i \in Injectors : injThr[i] = "running" => i <= injectorCount

(* stop_relaying() joins no relayer it has not told to stop, unless a      *)
(* setConfig() overlaps it or signal handlers nest.                        *)
ToldBeforeJoin ==
    At("join") /\ ~raced /\ ~nested => \A r \in Relayers : Running(r) => flag[r]

(* The same without the exceptions: "signal all relayer threads to stop    *)
(* ASAP" (Manager.cpp:480).                                                *)
AllRelayersTold ==
    At("join") => \A r \in Relayers : Running(r) => flag[r]

(* No std::thread is assigned while it is joinable, no deleted proxy is    *)
(* called: the program is never torn down by std::terminate() or a fault,  *)
(* unless signal handlers nest.                                            *)
NeverTerminated == At("terminated") => nested

(* The relayers without a timeout get their answer from the device, if     *)
(* they have been told to stop.                                            *)
UntimedReturn == \A r \in Untimed : []<>~(Running(r) /\ flag[r])

(* stop_relaying(), once begun, gets to its end, provided that no transfer *)
(* without a timeout blocks for ever, unless a setConfig() overlaps it,    *)
(* signal handlers nest or a further SIGTERM kills the program.            *)
StopCompletes ==
    UntimedReturn =>
        (status = "STOPPING") ~> (status # "STOPPING" \/ raced \/ nested \/ At("killed"))

(* A SIGTERM or SIGINT that comes while relaying or during setup, up to    *)
(* the last check of start_control_relaying(), ends the program, with the  *)
(* same proviso, unless a SIGHUP follows, a setConfig() overlaps the stop  *)
(* or the handlers of SIGTERM and SIGINT nest.                             *)
TermEnds ==
    UntimedReturn =>
        heard ~> (Top.at \in {"end", "killed"} \/ ~heard \/ raced \/ nested)
================================================================================
