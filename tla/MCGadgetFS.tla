------------------------------ MODULE MCGadgetFS ------------------------------
(* GadgetFS for TLC: a configuration with one IN and one OUT endpoint, and *)
(* one whose second alternate setting names the IN endpoint again, and one *)
(* with two endpoints of one file.                                         *)
EXTENDS GadgetFS

EndpointIn == [number |-> 1, in |-> TRUE]
EndpointOut == [number |-> 13, in |-> FALSE]
MCLayouts == {<<EndpointIn, EndpointOut>>, <<EndpointIn, EndpointIn, EndpointOut>>,
              <<EndpointOut, [EndpointOut EXCEPT !.in = TRUE]>>}
================================================================================
