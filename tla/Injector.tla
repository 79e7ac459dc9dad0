-------------------------------- MODULE Injector --------------------------------
(***************************************************************************)
(* Injector::listen over the sessions of a Manager, for a plugin that is   *)
(* Injector_UDP (or Injector_UDPHID, which differs in what it does with a  *)
(* packet's bytes) or the injector in PacketFilter_MassStorage.            *)
(*                                                                         *)
(* Manager never calls set_queue(): all queues of an injector are 0, and   *)
(* every packet it gets goes to full_pipe(), which drops it.               *)
(***************************************************************************)
EXTENDS Integers, Sequences

CONSTANTS Plugins,      \* of {"UDP", "MassStorage"}
          MaxSource,    \* bound: what can be there to be read
          MaxSessions   \* bound: calls of start_control_relaying()

ASSUME InjectorAssumption ==
    Plugins \subseteq {"UDP", "MassStorage"} /\ MaxSource \in Nat /\ MaxSessions \in Nat

VARIABLES
    plugin,
    manager,      \* stopped, relaying, or joining the threads
    thread,       \* off, start, run
    pleaseStop,   \* _please_stop
    setupWait,
    open,         \* the socket, or the pipe, is open
    source,       \* what it holds: packets and setup packets
    sessions,
    early         \* history: stop_relaying() has run without a thread

injectorVars == <<plugin, manager, thread, pleaseStop, setupWait, open, source, sessions, early>>

(* The mass storage plugin's pipe is made by its constructor.              *)
InjectorInit ==
    /\ plugin \in Plugins
    /\ manager = "stopped" /\ thread = "off"
    /\ pleaseStop = FALSE /\ setupWait = FALSE
    /\ open = (plugin = "MassStorage") /\ source = <<>>
    /\ sessions = 0 /\ early = FALSE

(* start_control_relaying(): the injector's thread.                        *)
StartThread ==
    /\ manager = "stopped" /\ sessions < MaxSessions
    /\ manager' = "relaying" /\ thread' = "start" /\ sessions' = sessions + 1
    /\ UNCHANGED <<plugin, pleaseStop, setupWait, open, source, early>>

(* It is told to stop before it gets there: stop_relaying() sets the flag  *)
(* of every injector, with a thread or without.                            *)
AbortStart ==
    /\ manager = "stopped" /\ sessions < MaxSessions
    /\ pleaseStop' = TRUE /\ early' = TRUE /\ sessions' = sessions + 1
    /\ UNCHANGED <<plugin, manager, thread, setupWait, open, source>>

(* start_injector(): the UDP socket is opened and bound, or cannot be.     *)
StartInjector ==
    /\ thread = "start"
    /\ thread' = "run" /\ setupWait' = FALSE
    /\ IF plugin = "UDP" THEN open' \in BOOLEAN ELSE UNCHANGED open
    /\ UNCHANGED <<plugin, manager, pleaseStop, source, sessions, early>>

(* A datagram, with a packet or with a setup packet.                       *)
Datagram ==
    /\ plugin = "UDP" /\ open /\ Len(source) < MaxSource
    /\ \E p \in {"packet", "setup"} : source' = Append(source, p)
    /\ UNCHANGED <<plugin, manager, thread, pleaseStop, setupWait, open, sessions, early>>

(* get_packets(), of a datagram or of a tag in the pipe.                   *)
GetPackets == source' = Tail(source) /\ setupWait' = (Head(source) = "setup")

(* stop_injector(): the socket or the pipe is closed, and not opened again *)
(* if it is the pipe.  Later sessions close whatever has its numbers then. *)
CloseSource == open' = FALSE /\ source' = <<>>

(* A turn of the loop in which something can be read: get_packets(), then  *)
(* full_pipe().  Behind a setup packet the loop waits for an answer, and   *)
(* setup_wait is never cleared.  Once the mass storage plugin's pipe is    *)
(* closed its number is polled and read all the same; should another file  *)
(* have it by then, that file loses four bytes to a packet that is dropped *)
(* and this module's state stays as it is.                                 *)
Listen ==
    /\ thread = "run" /\ ~pleaseStop /\ ~setupWait /\ open /\ source # <<>>
    /\ GetPackets
    /\ UNCHANGED <<plugin, manager, thread, pleaseStop, open, sessions, early>>

(* Mutant: the flag is left set.                                           *)
FinishFlagged ==
    /\ thread = "run" /\ pleaseStop
    /\ thread' = "off" /\ CloseSource
    /\ UNCHANGED <<plugin, manager, pleaseStop, setupWait, sessions, early>>

(* The end of the loop: stop_injector(), and the flag is reset.            *)
Finish ==
    /\ thread = "run" /\ pleaseStop
    /\ thread' = "off" /\ CloseSource
    /\ pleaseStop' = FALSE
    /\ UNCHANGED <<plugin, manager, setupWait, sessions, early>>

(* stop_relaying(): the flag, then the join.                               *)
StopInjector ==
    /\ manager = "relaying"
    /\ manager' = "joining" /\ pleaseStop' = TRUE
    /\ UNCHANGED <<plugin, thread, setupWait, open, source, sessions, early>>
JoinInjector ==
    /\ manager = "joining" /\ thread = "off"
    /\ manager' = "stopped"
    /\ UNCHANGED <<plugin, thread, pleaseStop, setupWait, open, source, sessions, early>>

InjectorThread == StartInjector \/ Listen \/ Finish

(* While relaying the injector's thread runs: the one flag is neither left *)
(* set by the session before nor reset behind the back of a later stop.    *)
(* It takes that no session was stopped before its threads were created:   *)
(* then the flag stays one stop ahead for good.                            *)
InjectorServes == manager = "relaying" /\ ~early => thread # "off"
================================================================================
