------------------------------ MODULE DeviceModel ------------------------------
(***************************************************************************)
(* The device model of src/lib as operators: how Device, DeviceQualifier,  *)
(* Configuration, InterfaceGroup, Interface, Endpoint, HID and USBString   *)
(* are built from what a device proxy answers, how they are serialised     *)
(* again, what is_defined() asks of them, how Criteria match them, and the *)
(* descriptors HostProxy_GadgetFS::generate_descriptor makes of them.      *)
(*                                                                         *)
(* A configuration descriptor is a sequence of items, one per descriptor,  *)
(* with its length in bytes and the fields the code looks at.  A pointer   *)
(* that may be NULL is a sequence of at most one element.                  *)
(***************************************************************************)
EXTENDS Integers, Sequences, SequencesExt

InterfaceItem(number, alternate, endpoints, string) ==
    [type |-> "interface", len |-> 9, number |-> number, alternate |-> alternate,
     endpoints |-> endpoints, string |-> string]
EndpointItem(number, in, xfer, interval) ==
    [type |-> "endpoint", len |-> 7, address |-> [number |-> number, in |-> in],
     xfer |-> xfer, interval |-> interval]
HidItem(len) == [type |-> "hid", len |-> len]
OtherItem(len) == [type |-> "other", len |-> len]

(* The descriptors a device may have: every field is one byte of it, or a  *)
(* part of one, and there are a length and a type in each.                 *)
Byte == 0 .. 255
Length == 2 .. 255
InterfaceItems == [type : {"interface"}, len : Length, number : Byte, alternate : Byte,
                   endpoints : Byte, string : Byte]
EndpointItems == [type : {"endpoint"}, len : Length, address : [number : 0 .. 15, in : BOOLEAN],
                  xfer : {"control", "isoc", "bulk", "interrupt"}, interval : Byte]
HidItems == [type : {"hid"}, len : Length]
OtherItems == [type : {"other"}, len : Length]
Items == InterfaceItems \cup EndpointItems \cup HidItems \cup OtherItems

Bytes(items) == FoldLeft(LAMBDA n, it : n + it.len, 0, items)
Null == <<>>

-----------------------------------------------------------------------------
(* Parsing *)

(* Interface::Interface: what comes before the first interface descriptor  *)
(* counts as generic descriptors of it, what comes behind one is its own;  *)
(* of several HID descriptors the last is kept.                            *)
Attach(ifc, it) ==
    CASE it.type = "endpoint" -> [ifc EXCEPT !.endpoints = Append(@, it)]
      [] it.type = "hid" -> [ifc EXCEPT !.hid = <<it>>]
      [] OTHER -> [ifc EXCEPT !.generics = Append(@, it)]

ParseItem(acc, it) ==
    IF it.type = "interface"
    THEN [lead |-> <<>>,
          list |-> Append(acc.list, [desc |-> it, hid |-> Null, generics |-> acc.lead, endpoints |-> <<>>])]
    ELSE IF acc.list = <<>> THEN [acc EXCEPT !.lead = Append(@, it)]
    ELSE [acc EXCEPT !.list[Len(acc.list)] = Attach(@, it)]

ParseInterfaces(items) == FoldLeft(ParseItem, [lead |-> <<>>, list |-> <<>>], items).list

(* Mutant: an alternate setting replaces the ones below it.                *)
AddInterfaceAlone(groups, ifc) ==
    [groups EXCEPT ![ifc.desc.number] =
        [a \in 1 .. ifc.desc.alternate + 1 |-> IF a = ifc.desc.alternate + 1 THEN <<ifc>> ELSE Null]]

(* Configuration::add_interface and InterfaceGroup::add_interface: a group *)
(* is an array of alternates that grows, with NULL in its gaps.            *)
AddInterface(groups, ifc) ==
    LET a == ifc.desc.alternate + 1
        old == groups[ifc.desc.number]
        size == IF a > Len(old) THEN a ELSE Len(old)
    IN [groups EXCEPT ![ifc.desc.number] =
          [i \in 1 .. size |-> IF i = a THEN <<ifc>> ELSE IF i <= Len(old) THEN old[i] ELSE Null]]

ParseGroups(c) ==
    FoldLeft(AddInterface, [n \in 0 .. c.bNumInterfaces - 1 |-> <<>>], ParseInterfaces(c.items))

(* Configuration::Configuration: the alternate in use is asked of the      *)
(* device when there are several.  It dereferences NULL where an interface *)
(* is announced and not described (GroupMissing).                          *)
GroupMissing(c) == \E n \in 0 .. c.bNumInterfaces - 1 : ParseGroups(c)[n] = <<>>

ParseConfiguration(c) ==
    LET numbers == 0 .. c.bNumInterfaces - 1
        groups == ParseGroups(c)
    IN [value |-> c.value, bNumInterfaces |-> c.bNumInterfaces, wTotalLength |-> c.wTotalLength,
        string |-> c.string, groups |-> groups,
        active |-> [n \in numbers |-> IF Len(groups[n]) = 1 THEN 0 ELSE c.alternateInUse[n]]]

Numbers(cfg) == 0 .. cfg.bNumInterfaces - 1
Alternates(cfg, n) == FlattenSeq(cfg.groups[n])
AllAlternates(cfg) == FlattenSeq([n \in 1 .. cfg.bNumInterfaces |-> Alternates(cfg, n - 1)])

(* A number of an alternate that the interface skips: the serialiser steps *)
(* over it, start_data_relaying() dereferences it.                         *)
AlternateMissing(cfg) == \E n \in Numbers(cfg) : Null \in Range(cfg.groups[n])

(* Configuration::get_interface and get_interface_alternate.               *)
GetInterfaceAlternate(cfg, n, a) ==
    IF n \in Numbers(cfg) /\ a + 1 \in DOMAIN cfg.groups[n] THEN cfg.groups[n][a + 1] ELSE Null
GetInterface(cfg, n) == GetInterfaceAlternate(cfg, n, cfg.active[n])

-----------------------------------------------------------------------------
(* Serialising *)

(* Mutant: the HID descriptor is forgotten.                                *)
InterfaceDescriptorNoHid(ifc) == <<ifc.desc>> \o ifc.generics \o ifc.endpoints

(* Interface::get_full_descriptor.  bNumEndpoints is the size of the array *)
(* of endpoints; a descriptor that has more overruns it.                   *)
InterfaceDescriptor(ifc) == <<ifc.desc>> \o ifc.hid \o ifc.generics \o ifc.endpoints

(* Configuration::get_full_descriptor, behind its own nine bytes, and      *)
(* get_full_descriptor_length.                                             *)
FullDescriptor(cfg) ==
    LET ifcs == AllAlternates(cfg) IN FlattenSeq([i \in DOMAIN ifcs |-> InterfaceDescriptor(ifcs[i])])
FullDescriptorLength(cfg) == 9 + Bytes(FullDescriptor(cfg))

-----------------------------------------------------------------------------
(* Strings *)

(* Device::add_string: a table of the languages each string is there in.   *)
(* A string that is there already is replaced and appended as well.        *)
AddString(strings, index, language) ==
    [strings EXCEPT ![index] = Append(@, language)]

(* Device::add_string for all languages of the zero string.                *)
AddStringAll(strings, index, languages) ==
    IF index = 0 THEN strings
    ELSE FoldLeft(LAMBDA s, l : AddString(s, index, l), strings, languages)

(* The table of strings after all of named have been added.                *)
StringTable(named, languages) ==
    FoldLeft(LAMBDA s, i : AddStringAll(s, i, languages), [i \in Range(named) |-> <<>>], named)

(* The strings a configuration names, and those of all its alternates.     *)
ConfigurationStrings(cfg) ==
    LET ifcs == AllAlternates(cfg) IN <<cfg.string>> \o [i \in DOMAIN ifcs |-> ifcs[i].desc.string]

-----------------------------------------------------------------------------
(* The device *)

(* Device::Device, with DeviceQualifier::DeviceQualifier.  A device that   *)
(* has no address is not asked for its configuration.                      *)
BuildDevice(d) ==
    LET configurations == [i \in DOMAIN d.configurations |-> ParseConfiguration(d.configurations[i])]
        other == [i \in DOMAIN d.qualifier |-> ParseConfiguration(d.qualifier[i])]
        named == d.strings \o FlattenSeq([i \in DOMAIN configurations |-> ConfigurationStrings(configurations[i])])
                           \o FlattenSeq([i \in DOMAIN other |-> ConfigurationStrings(other[i])])
    IN [product |-> d.product, configurations |-> configurations, qualifier |-> other, highspeed |-> d.highspeed,
        named |-> d.strings, languages |-> d.languages,
        strings |-> StringTable(named, d.languages),
        active |-> IF d.address # 0 THEN d.active ELSE 0]

(* Device::get_configuration, get_active_configuration,                    *)
(* set_active_configuration; -1 is no configuration.                       *)
GetConfiguration(dev, index) ==
    IF index \in DOMAIN dev.configurations THEN <<dev.configurations[index]>> ELSE Null
GetActiveConfiguration(dev) == GetConfiguration(dev, dev.active)
SetActiveConfiguration(dev, index) ==
    [dev EXCEPT !.active = IF index \in DOMAIN dev.configurations THEN index ELSE -1]

-----------------------------------------------------------------------------
(* is_defined() *)

EndpointIsDefined(e) ==
    /\ e.len = 7
    /\ e.xfer = "isoc" => e.interval = 1
    /\ e.xfer = "interrupt" => e.interval # 1
InterfaceIsDefined(ifc) ==
    /\ ifc.desc.len = 9
    /\ Len(ifc.endpoints) = ifc.desc.endpoints
    /\ \A i \in DOMAIN ifc.endpoints : EndpointIsDefined(ifc.endpoints[i])
GroupIsDefined(group, n) ==
    /\ group # <<>>
    /\ \A a \in DOMAIN group :
         /\ group[a] # Null
         /\ group[a][1].desc.number = n /\ group[a][1].desc.alternate = a - 1
         /\ InterfaceIsDefined(group[a][1])
ConfigurationIsDefined(cfg) ==
    /\ cfg.wTotalLength = FullDescriptorLength(cfg)
    /\ cfg.bNumInterfaces > 0
    /\ \A n \in Numbers(cfg) : GroupIsDefined(cfg.groups[n], n)
StringIsDefined(dev, index) ==
    index = 0 \/ Range(dev.languages) \subseteq Range(dev.strings[index])

(* DeviceQualifier::is_defined.                                            *)
QualifierIsDefined(configurations) ==
    \A i \in DOMAIN configurations : configurations[i].value = i /\ ConfigurationIsDefined(configurations[i])

(* Device::is_defined finds an error, or none; or it faults: the loop over *)
(* the qualifier's strings begins with configuration 0, which              *)
(* get_configuration(), counting from 1, gives as NULL.                    *)
Checked(dev) ==
    /\ dev.configurations # <<>>
    /\ \A i \in DOMAIN dev.configurations :
         /\ dev.configurations[i].value = i
         /\ ConfigurationIsDefined(dev.configurations[i])
         /\ \A s \in Range(ConfigurationStrings(dev.configurations[i])) : StringIsDefined(dev, s)
    /\ dev.languages # <<>>
    /\ \A s \in Range(dev.named) : StringIsDefined(dev, s)
    /\ QualifierIsDefined(dev.qualifier)
IsDefined(dev) ==
    IF ~Checked(dev) THEN "error" ELSE IF dev.qualifier # <<>> THEN "fault" ELSE "defined"

-----------------------------------------------------------------------------
(* Criteria: each field is the set of values it admits *)

EndpointTest(c, e) == e.address \in c.address /\ e.xfer \in c.attributes /\ e.interval \in c.interval
InterfaceTest(c, ifc) == ifc.desc.number \in c.number /\ ifc.desc.alternate \in c.alternate
ConfigurationTest(c, cfg) == cfg.value \in c.configuration
DeviceTest(c, dev) == dev.product \in c.product

-----------------------------------------------------------------------------
(* HostProxy_GadgetFS::generate_descriptor *)

(* log2(8 * bInterval) + 1, rounded down; of 0 the conversion of minus     *)
(* infinity leaves a byte 0.                                               *)
Converted(b) == IF b = 0 THEN 0 ELSE CHOOSE n \in 4 .. 11 : 2^(n - 1) <= 8 * b /\ 8 * b < 2^n

(* The item at a byte offset, 0 if none starts there.                      *)
ItemAt(items, offset) ==
    LET at == {i \in DOMAIN items : Bytes(SubSeq(items, 1, i - 1)) = offset}
    IN IF at = {} THEN 0 ELSE CHOOSE i \in at : TRUE

(* One endpoint's polling rate, at the pointer; written over another       *)
(* descriptor if that is where the pointer is.                             *)
AdjustOne(w) ==
    LET i == ItemAt(w.items, w.at)
        it == w.items[i]
    IN IF i = 0 THEN w
       ELSE [at |-> w.at + it.len,
             items |-> [w.items EXCEPT ![i] =
                          IF it.type = "endpoint" THEN [it EXCEPT !.interval = Converted(it.interval)]
                          ELSE [type |-> "damaged", len |-> it.len]]]

(* Mutant: the HID descriptor is not stepped over.                         *)
HeadLengthNoHid(ifc) == ifc.desc.len + Bytes(ifc.generics)

(* What precedes the endpoints of an interface.                            *)
HeadLength(ifc) == ifc.desc.len + Bytes(ifc.hid) + Bytes(ifc.generics)

(* The loop over bNumEndpoints endpoints.                                  *)
AdjustInterface(w, ifc) ==
    LET walk[k \in 0 .. ifc.desc.endpoints] ==
          IF k = 0 THEN [w EXCEPT !.at = @ + HeadLength(ifc)] ELSE AdjustOne(walk[k - 1])
    IN walk[ifc.desc.endpoints]

(* The walk steps over the active alternate of each interface only.        *)
AdjustIntervals(cfg) ==
    LET active == FlattenSeq([n \in 1 .. cfg.bNumInterfaces |-> GetInterface(cfg, n - 1)])
        walk[k \in 0 .. Len(active)] ==
          IF k = 0 THEN [at |-> 0, items |-> FullDescriptor(cfg)] ELSE AdjustInterface(walk[k - 1], active[k])
    IN walk[Len(active)].items

(* The configurations for a host at full speed, then those for one at high *)
(* speed.                                                                  *)
GenerateDescriptor(dev) ==
    LET has == dev.qualifier # <<>>
        full == IF dev.highspeed /\ has THEN dev.qualifier ELSE dev.configurations
        high == IF ~dev.highspeed /\ has THEN dev.qualifier ELSE dev.configurations
        given(c) == DOMAIN c \cap DOMAIN dev.configurations
    IN [full |-> [i \in given(full) |-> FullDescriptor(full[i])],
        high |-> [i \in given(high) |->
                    IF dev.highspeed THEN FullDescriptor(high[i]) ELSE AdjustIntervals(high[i])]]
================================================================================
