------------------------------ MODULE MCSafeQueue ------------------------------
(* Small instances of SafeQueue for TLC.                                   *)
EXTENDS SafeQueue

CONSTANTS p1, p2, c1, c2, pkt, null

MCProducers == {p1, p2}
MCConsumers == {c1, c2}
MCItems == {pkt, null}
================================================================================
