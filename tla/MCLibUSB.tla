-------------------------------- MODULE MCLibUSB --------------------------------
EXTENDS LibUSB

Config(value, n, string, items) ==
    [value |-> value, bNumInterfaces |-> n, wTotalLength |-> 9 + Bytes(items), string |-> string,
     items |-> items, alternateInUse |-> [i \in 0 .. n - 1 |-> 0]]
Full(configurations) ==
    [product |-> "A", configurations |-> configurations, qualifier |-> <<>>, highspeed |-> FALSE, strings |-> <<1>>,
     languages |-> <<"en">>, address |-> 5, active |-> 1]

(* A keyboard, with an association descriptor in front of its interface.   *)
Keyboard == <<OtherItem(8), InterfaceItem(0, 0, 2, 2), HidItem(9),
              EndpointItem(1, TRUE, "interrupt", 10), EndpointItem(2, FALSE, "interrupt", 255)>>
(* Storage, and a second setting of its interface on the same endpoint.    *)
Storage == <<InterfaceItem(0, 0, 2, 0), EndpointItem(1, TRUE, "bulk", 0), EndpointItem(2, FALSE, "bulk", 0),
             InterfaceItem(0, 1, 1, 3), OtherItem(5), EndpointItem(1, TRUE, "interrupt", 4)>>
(* Two interfaces, with endpoint 1 in both.                                *)
Shared == <<InterfaceItem(0, 0, 1, 0), EndpointItem(1, TRUE, "bulk", 0),
            InterfaceItem(1, 0, 2, 0), EndpointItem(1, FALSE, "bulk", 0), EndpointItem(3, TRUE, "isoc", 1)>>
(* Two interfaces of their own, the second without endpoints at first.     *)
Composite == <<InterfaceItem(0, 0, 1, 0), HidItem(9), EndpointItem(1, TRUE, "interrupt", 8),
               InterfaceItem(1, 0, 1, 0), EndpointItem(2, TRUE, "bulk", 0)>>
(* Interfaces and settings in another order, two HID descriptors.          *)
Unordered == <<OtherItem(4), InterfaceItem(1, 0, 0, 0), HidItem(9), OtherItem(5), HidItem(6),
               InterfaceItem(0, 1, 1, 0), EndpointItem(1, TRUE, "bulk", 0), OtherItem(3),
               InterfaceItem(0, 0, 0, 0)>>
(* An interface that skips a setting, and one that is not described.       *)
Skipping == <<InterfaceItem(0, 0, 0, 0), InterfaceItem(0, 2, 1, 0), EndpointItem(1, TRUE, "bulk", 0)>>
Announced == <<InterfaceItem(0, 0, 1, 0), EndpointItem(1, TRUE, "bulk", 0)>>

MCDevices ==
    { Full(<<Config(1, 1, 0, Keyboard)>>),
      [Full(<<Config(1, 1, 4, Storage)>>) EXCEPT !.highspeed = TRUE, !.languages = <<"en", "de">>,
                                                 !.qualifier = <<Config(1, 1, 4, Storage)>>],
      [Full(<<Config(1, 2, 0, Shared)>>) EXCEPT !.product = "B"],
      Full(<<Config(1, 2, 0, Composite)>>),
      Full(<<Config(1, 1, 0, Keyboard), Config(2, 2, 5, Composite)>>),
      Full(<<Config(1, 2, 0, Unordered)>>),
      Full(<<Config(1, 1, 0, Skipping)>>),
      Full(<<Config(1, 2, 0, Announced)>>),
      [Full(<<Config(1, 1, 0, Keyboard)>>) EXCEPT !.active = 0] }

(* A filter of the interfaces' first settings, of one product, on any      *)
(* endpoint that is polled.                                                *)
MCFilter ==
    [product |-> {"A"}, configuration |-> 0 .. 255, number |-> 0 .. 255, alternate |-> {0},
     address |-> [number : 0 .. 15, in : BOOLEAN], attributes |-> {"bulk", "interrupt", "isoc"},
     interval |-> 1 .. 255]
================================================================================
