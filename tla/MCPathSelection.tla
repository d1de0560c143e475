--------------------------- MODULE MCPathSelection ---------------------------
(***************************************************************************)
(* Five relays: two pairs share a network each, and one has a name instead *)
(* of an IP address.  Every topology made of them is tried, with every hop *)
(* count from 0 to one more than there are relays.                         *)
(***************************************************************************)
EXTENDS PathSelection

CONSTANTS a1, a2, b1, b2, host

MCAddress ==
    [r \in Relays |->
        [port |-> TRUE, octets |-> CASE r = a1 -> <<10, 0, 1, 1>>
                                     [] r = a2 -> <<10, 0, 1, 2>>
                                     [] r = b1 -> <<10, 0, 2, 1>>
                                     [] r = b2 -> <<10, 0, 2, 2>>
                                     [] OTHER  -> <<>>]]
==============================================================================
