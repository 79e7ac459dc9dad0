-------------------------------- MODULE LibUSB --------------------------------
(***************************************************************************)
(* DeviceProxy_LibUSB under the Manager: connecting to the device, reading *)
(* its model (DeviceModel.tla), claiming its interfaces, finding out which *)
(* endpoints to relay, transfers, releasing and disconnecting, over        *)
(* several sessions with a device that may be unplugged.  Libusb and the   *)
(* device are external.                                                    *)
(*                                                                         *)
(* The sessions are those of start_control_relaying(), setConfig() and     *)
(* stop_relaying(): transfers of data endpoints happen between setConfig() *)
(* and the joining of the relayers, hence not during a claim or a release. *)
(***************************************************************************)
EXTENDS DeviceModel, FiniteSets, FiniteSetsExt

CONSTANTS Devices,      \* the devices that may be plugged in
          Filter,       \* a filter's criteria
          MAX_ATTEMPTS, \* DeviceProxy_LibUSB.cpp
          MaxSessions   \* bound: calls of start_control_relaying()

ASSUME LibUSBAssumption == MAX_ATTEMPTS \in Nat \ {0} /\ MaxSessions \in Nat

(* start_data_relaying(): the endpoints of all alternates in turn,         *)
(* isochronous ones left out.                                              *)
Relayed(cfg) ==
    FlattenSeq([k \in DOMAIN AllAlternates(cfg) |->
        LET ifc == AllAlternates(cfg)[k]
        IN FlattenSeq([i \in DOMAIN ifc.endpoints |->
              LET e == ifc.endpoints[i]
              IN IF e.xfer = "isoc" THEN <<>> ELSE <<[e |-> e, ifc |-> ifc]>>])])

(* A device has a list of configurations, each a list of descriptors.      *)
ASSUME DevicesAssumption ==
    \A d \in Devices :
      /\ d.configurations \in Seq(Range(d.configurations))
      /\ \A i \in DOMAIN d.configurations :
           /\ d.configurations[i].bNumInterfaces \in Byte
           /\ d.configurations[i].items \in Seq(Items)

Slots == 0 .. 15     \* epInterfaces, by endpoint & 0x0F

VARIABLES
    device, plugged,
    \* The proxy: context, dev_handle ("dead" when its device is gone),
    \* callback_handle, epInterfaces.
    context, handle, callback, ep,
    held,        \* interfaces libusb has claimed for the handle
    \* The Manager: its step, its device model, in_endpoints and out_endpoints
    \* with the alternate each address stands for, and the filter's endpoints.
    phase, model, endpoints, attached,
    next,        \* the interface to be claimed or released next
    transfer,    \* the last transfer: endpoint, attempts, whether its interface was held
    \* History.
    sessions,
    released     \* every interface was released when it should be

proxyVars == <<context, handle, callback, ep, held>>
modelVars == <<model, endpoints, attached>>
vars == <<device, plugged, proxyVars, phase, modelVars, next, transfer, sessions, released>>

NoTransfer == [address |-> [number |-> 0, in |-> FALSE], attempts |-> 0, held |-> TRUE]

Init ==
    /\ device \in Devices /\ plugged = TRUE
    /\ context = "none" /\ handle = "none" /\ callback = FALSE
    /\ ep = [n \in Slots |-> [defined |-> FALSE, interface |-> 0, claimed |-> FALSE]]
    /\ held = {}
    /\ phase = "idle" /\ model = Null /\ endpoints = <<>> /\ attached = {}
    /\ next = 0 /\ transfer = NoTransfer
    /\ sessions = 0 /\ released = TRUE

(* The device is unplugged, or plugged in; in a program that runs, the     *)
(* latter calls hotplug_callback, whose SIGHUP stops relaying.             *)
Unplug ==
    /\ plugged /\ plugged' = FALSE
    /\ handle' = IF handle = "live" THEN "dead" ELSE handle
    /\ UNCHANGED <<device, context, callback, ep, held, phase, modelVars, next, transfer, sessions,
                   released>>
Plug ==
    /\ ~plugged /\ plugged' = TRUE
    /\ UNCHANGED <<device, proxyVars, phase, modelVars, next, transfer, sessions, released>>

-----------------------------------------------------------------------------
(* connect() *)

(* The ways it can end when there is no handle: the device is not found or *)
(* cannot be opened; it is open and does not answer; the hotplug callback  *)
(* cannot be registered, and the context is gone; all is well.             *)
ConnectResult ==
    \/ context' = "live" /\ phase' = "idle" /\ UNCHANGED <<handle, callback>>
    \/ context' = "live" /\ plugged /\ handle' = "live" /\ phase' = "idle" /\ UNCHANGED callback
    \/ context' = "exited" /\ plugged /\ handle' = "live" /\ phase' = "idle" /\ UNCHANGED callback
    \/ context' = "live" /\ plugged /\ handle' = "live" /\ phase' = "model" /\ callback' = TRUE

(* A handle there is already is taken for a connection.                    *)
Connect ==
    /\ phase = "idle" /\ sessions < MaxSessions
    /\ sessions' = sessions + 1
    /\ IF handle # "none" THEN phase' = "model" /\ UNCHANGED <<context, handle, callback>>
       ELSE ConnectResult
    /\ UNCHANGED <<device, plugged, ep, held, modelVars, next, transfer, released>>

(* control_request() gets an answer from a device that is there.           *)
ControlRequest == handle = "live" /\ context = "live"

(* new Device(deviceProxy): a request that fails ends the program.  So     *)
(* does an interface that is announced and not described.  A device in no  *)
(* configuration has no active one to claim interfaces of.                 *)
Undescribed == \E c \in Range(device.configurations \o device.qualifier) : GroupMissing(c)
PopulateModel ==
    /\ phase = "model"
    /\ \/ /\ ControlRequest /\ Undescribed
          /\ phase' = "crashed" /\ UNCHANGED model
       \/ /\ ControlRequest /\ ~Undescribed
          /\ model' = <<BuildDevice(device)>>
          /\ phase' = IF GetActiveConfiguration(model'[1]) = Null THEN "crashed" ELSE "claim"
       \/ /\ phase' = "exited" /\ UNCHANGED model
    /\ next' = 0
    /\ UNCHANGED <<device, plugged, proxyVars, endpoints, attached, transfer, sessions, released>>

-----------------------------------------------------------------------------
(* Interfaces *)

Mark(i, b) == [n \in Slots |-> IF ep[n].defined /\ ep[n].interface = i
                               THEN [ep[n] EXCEPT !.claimed = b] ELSE ep[n]]
ActiveInterfaces == GetActiveConfiguration(model[1])[1].bNumInterfaces

(* Mutant: the claim counts whatever libusb said.                          *)
ClaimInterfaceUnchecked(i) ==
    \/ /\ handle = "live" /\ held' = held \cup {i} /\ ep' = Mark(i, TRUE)
    \/ /\ held' = held /\ ep' = Mark(i, TRUE)

(* claim_interface(): it may fail, for example with a kernel driver bound. *)
ClaimInterface(i) ==
    \/ /\ handle = "live" /\ held' = held \cup {i} /\ ep' = Mark(i, TRUE)
    \/ /\ UNCHANGED <<held, ep>>

(* The loops over the active configuration's interfaces, at the start and  *)
(* at the end of start_data_relaying().                                    *)
Claim ==
    /\ phase \in {"claim", "claimData"}
    /\ IF next < ActiveInterfaces
       THEN /\ ClaimInterface(next) /\ next' = next + 1 /\ UNCHANGED phase
       ELSE /\ phase' = IF phase = "claim" THEN "control" ELSE "data"
            /\ next' = 0 /\ UNCHANGED <<held, ep>>
    /\ UNCHANGED <<device, plugged, context, handle, callback, modelVars, transfer, sessions,
                   released>>

(* release_interface(): NOT_FOUND counts as released, another error leaves *)
(* the flags.                                                              *)
ReleaseInterface(i) ==
    \/ /\ held' = held \ {i} /\ ep' = Mark(i, FALSE) /\ UNCHANGED released
    \/ /\ released' = FALSE /\ UNCHANGED <<held, ep>>

Release ==
    /\ phase = "release"
    /\ IF next < ActiveInterfaces
       THEN /\ ReleaseInterface(next) /\ next' = next + 1 /\ UNCHANGED phase
       ELSE /\ phase' = "disconnect" /\ next' = 0 /\ UNCHANGED <<held, ep, released>>
    /\ UNCHANGED <<device, plugged, context, handle, callback, modelVars, transfer, sessions>>

-----------------------------------------------------------------------------
(* setConfig() and the first half of start_data_relaying() *)

WithAddress(eps, a) == {k \in DOMAIN eps : eps[k].e.address = a}
WithNumber(eps, n) == {k \in DOMAIN eps : eps[k].e.address.number = n}

(* in_endpoints and out_endpoints: a later alternate's endpoint takes the  *)
(* place of an earlier one's.  Only the numbers 1 to 15 are relayed.       *)
Endpoints(eps) ==
    [a \in {eps[k].e.address : k \in {j \in DOMAIN eps : eps[j].e.address.number \in 1 .. 15}} |->
        eps[Max(WithAddress(eps, a))]]

(* set_endpoint_interface() for each of eps in turn.                       *)
SetEndpointInterfaces(eps) ==
    [n \in Slots |->
        IF WithNumber(eps, n) = {} THEN ep[n]
        ELSE [ep[n] EXCEPT !.defined = TRUE, !.interface = eps[Max(WithNumber(eps, n))].ifc.desc.number]]

(* The filter is applied where the endpoint that stands for an address,    *)
(* and the interface it belongs to, pass its criteria.                     *)
Filtered(cfg, table) ==
    IF ~(DeviceTest(Filter, model[1]) /\ ConfigurationTest(Filter, cfg)) THEN {}
    ELSE {r.e.address : r \in {t \in Range(table) : EndpointTest(Filter, t.e) /\ InterfaceTest(Filter, t.ifc)}}

(* SET_CONFIGURATION of a configuration that does not exist, of 0 for      *)
(* one, leaves no active configuration, and NULL is dereferenced, as it is *)
(* for a number that an interface's alternates skip.                       *)
SetConfig ==
    /\ phase = "control"
    /\ \E index \in 0 .. Len(device.configurations) :
         LET dev == SetActiveConfiguration(model[1], index)
             cfg == GetActiveConfiguration(dev)
             eps == Relayed(cfg[1])
         IN /\ model' = <<dev>>
            /\ IF cfg = Null \/ AlternateMissing(cfg[1])
               THEN phase' = "crashed" /\ UNCHANGED <<ep, endpoints, attached>>
               ELSE /\ phase' = "claimData"
                    /\ ep' = SetEndpointInterfaces(eps)
                    /\ endpoints' = Endpoints(eps)
                    /\ attached' = Filtered(cfg[1], endpoints')
    /\ next' = 0
    /\ UNCHANGED <<device, plugged, context, handle, callback, held, transfer, sessions, released>>

-----------------------------------------------------------------------------
(* Transfers *)

Owner(a) == endpoints[a].ifc.desc.number

(* endpoint_interface_claimed().                                           *)
EndpointInterfaceClaimed(a) == ep[a.number].defined /\ ep[a.number].claimed

(* send_data() and receive_data(): a bulk transfer that ended early, or    *)
(* with a halt or a timeout, is made again from the start, an interrupt    *)
(* transfer is made once.                                                  *)
Transfer(a) ==
    /\ phase = "data"
    /\ EndpointInterfaceClaimed(a)
    /\ \E n \in 1 .. IF endpoints[a].e.xfer = "bulk" THEN MAX_ATTEMPTS ELSE 1 :
         transfer' = [address |-> a, attempts |-> n, held |-> Owner(a) \in held]
    /\ UNCHANGED <<device, plugged, proxyVars, phase, modelVars, next, sessions, released>>

-----------------------------------------------------------------------------
(* stop_relaying(): called during the setup, it takes effect at the next   *)
(* check of the status; a host proxy that cannot connect leads to it too.  *)
Stop ==
    /\ phase \in {"control", "data"}
    /\ phase' = "release" /\ next' = 0
    /\ UNCHANGED <<device, plugged, proxyVars, modelVars, transfer, sessions, released>>

(* Mutant: the handle is forgotten and not closed.                         *)
DisconnectUnclosed ==
    /\ phase = "disconnect"
    /\ context' = "none" /\ handle' = "none" /\ callback' = FALSE
    /\ held' = held
    /\ phase' = "idle"
    /\ model' = Null /\ endpoints' = <<>> /\ attached' = {}
    /\ transfer' = NoTransfer
    /\ UNCHANGED <<device, plugged, ep, next, sessions, released>>

(* disconnect(): closing the handle gives up what was claimed.             *)
Disconnect ==
    /\ phase = "disconnect"
    /\ context' = "none" /\ handle' = "none" /\ callback' = FALSE
    /\ held' = {}
    /\ phase' = "idle"
    /\ model' = Null /\ endpoints' = <<>> /\ attached' = {}
    /\ transfer' = NoTransfer
    /\ UNCHANGED <<device, plugged, ep, next, sessions, released>>

Next == Unplug \/ Plug \/ Connect \/ PopulateModel \/ Claim \/ SetConfig
        \/ (\E a \in DOMAIN endpoints : Transfer(a)) \/ Stop \/ Release \/ Disconnect

Spec == Init /\ [][Next]_vars
-----------------------------------------------------------------------------
(* Properties *)

(* Types; an interface is held only through a handle, and between the      *)
(* start and the end of a session there is an active configuration.        *)
TypeOK ==
    /\ device \in Devices /\ plugged \in BOOLEAN /\ released \in BOOLEAN
    /\ context \in {"none", "live", "exited"} /\ handle \in {"none", "live", "dead"}
    /\ callback \in BOOLEAN
    /\ ep \in [Slots -> [defined : BOOLEAN, interface : 0 .. 255, claimed : BOOLEAN]]
    /\ held \subseteq 0 .. 255 /\ (held # {} => handle # "none")
    /\ phase \in {"idle", "model", "claim", "control", "claimData", "data", "release", "disconnect",
                  "exited", "crashed"}
    /\ phase \in {"claim", "control", "claimData", "data", "release"}
          => model # Null /\ GetActiveConfiguration(model[1]) # Null
    /\ attached \subseteq DOMAIN endpoints
    /\ next \in 0 .. 255 /\ sessions \in 0 .. MaxSessions

(* Two interfaces with endpoints of the same number, one in and one out,   *)
(* share an entry of epInterfaces.                                         *)
SharedSlot == \E a, b \in DOMAIN endpoints : a.number = b.number /\ Owner(a) # Owner(b)

(* No transfer is made on an endpoint whose interface is not claimed:      *)
(* send_data() and receive_data() rely on flags that claim_interface(),    *)
(* release_interface() and set_endpoint_interface() keep over all sessions *)
(* of the program.  It takes a device with one configuration, no endpoint  *)
(* number in two interfaces, and every release to have worked.             *)
HeldWhenUsed ==
    released /\ ~SharedSlot /\ Len(device.configurations) = 1 => transfer.held

(* A configuration as the USB specification wants it: the alternates of an *)
(* interface counted from 0, each with its endpoints and one HID           *)
(* descriptor at most, and the total length right.                         *)
WellFormed(c) ==
    LET ifcs == ParseInterfaces(c.items)
        keys == {<<ifcs[k].desc.number, ifcs[k].desc.alternate>> : k \in DOMAIN ifcs}
    IN /\ Cardinality(keys) = Len(ifcs)
       /\ {q[1] : q \in keys} = 0 .. c.bNumInterfaces - 1
       /\ \A q \in keys : q[2] = 0 \/ <<q[1], q[2] - 1>> \in keys
       /\ \A k \in DOMAIN ifcs : InterfaceIsDefined(ifcs[k])
       /\ Cardinality({i \in DOMAIN c.items : c.items[i].type = "hid"})
            = Cardinality({k \in DOMAIN ifcs : ifcs[k].hid # Null})
       /\ Bytes(c.items) + 9 = c.wTotalLength

SameItems(s, t) ==
    /\ Len(s) = Len(t)
    /\ \A x \in Range(s) : Len(SelectSeq(s, LAMBDA y : y = x)) = Len(SelectSeq(t, LAMBDA y : y = x))

(* The model of a well formed device loses nothing: what                   *)
(* get_full_descriptor() gives the host has all the descriptors the device *)
(* has at either speed, those in front of the first interface and of all   *)
(* alternates included.  Device::is_defined() agrees that it is complete,  *)
(* unless the device has a qualifier, on which is_defined() faults.        *)
ModelComplete ==
    (model # Null /\ \A c \in Range(device.configurations \o device.qualifier) : WellFormed(c)) =>
        /\ device.qualifier = <<>> => IsDefined(model[1]) = "defined"
        /\ \A i \in DOMAIN device.configurations :
             SameItems(FullDescriptor(model[1].configurations[i]), device.configurations[i].items)
        /\ \A i \in DOMAIN device.qualifier :
             SameItems(FullDescriptor(model[1].qualifier[i]), device.qualifier[i].items)

(* A configuration whose interfaces fit the arrays the code makes for      *)
(* them: their numbers are below bNumInterfaces, each has bNumEndpoints    *)
(* endpoints, and there is one unless there is nothing at all.             *)
Fits(c) ==
    LET ifcs == ParseInterfaces(c.items)
    IN /\ c.items # <<>> => ifcs # <<>>
       /\ \A k \in DOMAIN ifcs :
            ifcs[k].desc.number < c.bNumInterfaces /\ Len(ifcs[k].endpoints) = ifcs[k].desc.endpoints

(* No endpoint or HID descriptor comes before the first interface.         *)
LedByInterface(items) ==
    \A i \in DOMAIN items :
      items[i].type \in {"endpoint", "hid"} => \E j \in 1 .. i - 1 : items[j].type = "interface"

(* What get_full_descriptor() writes, read again by the same constructors, *)
(* is the model: no descriptor goes over to another interface or setting,  *)
(* although HID and generic descriptors are moved in front of the          *)
(* endpoints, what preceded the first interface behind it, and the         *)
(* interfaces into the order of their numbers and settings.  It is so for  *)
(* every list of descriptors that fits, well formed or not; an endpoint or *)
(* HID descriptor in front of the first interface is kept as a generic     *)
(* descriptor, and written where it is taken for that interface's own.     *)
ReadsBack ==
    model # Null =>
        \A i \in DOMAIN device.configurations :
          LET c == device.configurations[i]
              cfg == model[1].configurations[i]
          IN Fits(c) /\ LedByInterface(c.items) => ParseInterfaces(FullDescriptor(cfg)) = AllAlternates(cfg)

(* For a device at full speed without a qualifier, whose interfaces have   *)
(* one alternate each, generate_descriptor() gives the high speed host the *)
(* device's descriptors with each endpoint's polling rate converted once   *)
(* and nothing else written to: the lengths the walk steps by are those of *)
(* what get_full_descriptor() has written.                                 *)
ConvertItem(it) == IF it.type = "endpoint" THEN [it EXCEPT !.interval = Converted(@)] ELSE it
IntervalsConverted ==
    \A dev \in Range(model) :
      /\ ~dev.highspeed /\ dev.qualifier = <<>>
      /\ \A cfg \in Range(dev.configurations) : \A n \in Numbers(cfg) : Len(cfg.groups[n]) = 1
      /\ \A c \in Range(device.configurations) : Fits(c) /\ LedByInterface(c.items)
      => LET gadget == GenerateDescriptor(dev)
         IN gadget.high = [i \in DOMAIN gadget.full |->
                             [k \in DOMAIN gadget.full[i] |-> ConvertItem(gadget.full[i][k])]]
================================================================================
