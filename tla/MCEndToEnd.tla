----------------------------- MODULE MCEndToEnd ------------------------------
(***************************************************************************)
(* A message of two cells, the second one short, through two relays: an    *)
(* application uses circuits of two hops, veil-cli any that it can set up. *)
(***************************************************************************)
EXTENDS EndToEnd

CONSTANTS alice, pair, r1, r2

MCMessageLen == [m \in Messages |-> 3]

MCMessageId == [m \in Messages |-> m]

MCRecipient == [m \in Messages |-> alice]

MCKind == [m \in Messages |-> "data"]

MCAddress == [r \in Relays |-> [port |-> TRUE, octets |-> <<127, 0, 0, 1>>]]

MCMailboxAddrs == [p \in Receivers |-> <<r1, r2>>]

MCTopologies == {{}, {r2}, Relays}
==============================================================================
