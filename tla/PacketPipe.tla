------------------------------ MODULE PacketPipe ------------------------------
(***************************************************************************)
(* What the relaying of one data endpoint promises: packets leave in the   *)
(* order in which they came, none twice, none made up; some may be lost.   *)
(* Packets are numbered as they come, so a set of them has its order.      *)
(* A pipe may break, when a transfer is taken for complete that is not;    *)
(* nothing is promised of a broken pipe.                                   *)
(***************************************************************************)
EXTENDS Naturals

VARIABLES pipe,      \* the packets on their way
          last,      \* the packet accepted last
          delivered, \* the packet delivered last, 0 before the first
          broken
vars == <<pipe, last, delivered, broken>>

Init == pipe = {} /\ last = 0 /\ delivered = 0 /\ broken = FALSE

Accept ==
    /\ last' = last + 1
    /\ pipe' = pipe \cup {last'}
    /\ UNCHANGED <<delivered, broken>>

Lose == \E p \in pipe : pipe' = pipe \ {p} /\ UNCHANGED <<last, delivered, broken>>

(* The oldest packet leaves.                                               *)
Deliver ==
    \E p \in pipe :
        /\ \A q \in pipe : p <= q
        /\ delivered' = p
        /\ pipe' = pipe \ {p}
        /\ UNCHANGED <<last, broken>>

Break == broken' = TRUE /\ UNCHANGED <<pipe, last, delivered>>

BrokenAlready == broken /\ broken'

Next == Accept \/ Lose \/ Deliver \/ Break \/ BrokenAlready
Spec == Init /\ [][Next]_vars
================================================================================
