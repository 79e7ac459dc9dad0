------------------------------ MODULE MCDataRelay ------------------------------
(* DataRelay for TLC.                                                      *)
EXTENDS DataRelay
================================================================================
