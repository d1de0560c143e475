----------------------------- MODULE MCDelivery ------------------------------
(***************************************************************************)
(* Small instances of Delivery: pair (two cells, the second one short) is  *)
(* for alice; so is later, which a newer client sent in a newer format;    *)
(* dummy is a cell of cover traffic; bob is another user who polls the     *)
(* same relays.  A message and its id share one name.                      *)
(***************************************************************************)
EXTENDS Delivery

CONSTANTS alice, bob, pair, later, dummy, r1, r2

MCMessageLen == [m \in Messages |-> IF m = pair THEN 3 ELSE 2]

MCMessageId == [m \in Messages |-> m]

MCRecipient == [m \in Messages |-> IF m = dummy THEN Nobody ELSE alice]

MCKind == [m \in Messages |-> CASE m = later -> "newer"
                                [] m = dummy -> "dummy"
                                [] OTHER     -> "data"]

MCMailboxAddrs == [p \in Receivers |-> IF p = alice THEN <<r1, r2>> ELSE <<r2>>]
==============================================================================
