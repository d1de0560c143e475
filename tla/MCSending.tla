------------------------------ MODULE MCSending ------------------------------
(***************************************************************************)
(* A message of two cells and a dummy, over circuits of three hops; r1 and *)
(* r2 share a network.  {r1} is a topology too small for a circuit.  Of    *)
(* the intervals for cover traffic, one has room for a random delay and    *)
(* the other is upside down.                                               *)
(***************************************************************************)
EXTENDS Sending

CONSTANTS long, dummy, r1, r2, r3

MCMessageLen == [m \in Messages |-> IF m = long THEN 3 ELSE 2]

MCMessageId == [m \in Messages |-> m]

MCRecipient == [m \in Messages |-> IF m = dummy THEN Nobody ELSE "alice"]

MCKind == [m \in Messages |-> IF m = dummy THEN "dummy" ELSE "data"]

MCAddress == [r \in Relays |->
                [port   |-> TRUE,
                 octets |-> IF r \in {r1, r2} THEN <<10, 0, 1, 1>> ELSE <<10, 0, 2, 1>>]]

MCTopologies == {Relays, {r1}}

MCIntervals == {<<1, 5>>, <<5, 1>>, <<2, 3>>}
==============================================================================
