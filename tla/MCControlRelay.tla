---------------------------- MODULE MCControlRelay ----------------------------
(* Small instances of ControlRelay for TLC.                                *)
EXTENDS ControlRelay
===============================================================================
