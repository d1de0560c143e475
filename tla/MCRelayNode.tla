---------------------------- MODULE MCRelayNode ------------------------------
(***************************************************************************)
(* Small instances of RelayNode.  fwd1 and fwd2 go to the same hop, so     *)
(* their tasks race for one pool entry; exit is delivered here and bad     *)
(* does not peel.  With as many streams as hops and permits together, a    *)
(* dial always finds a name for its stream.                                *)
(***************************************************************************)
EXTENDS RelayNode, TLC

CONSTANTS fwd1, fwd2, exit, bad, h1

MCFrameKind == [f \in Frames |-> CASE f = exit -> "deliver"
                                   [] f = bad  -> "bad"
                                   [] OTHER    -> "forward"]

MCNextHop == [f \in Frames |-> h1]

Symmetric == Permutations(Conns) \cup Permutations({fwd1, fwd2})
==============================================================================
