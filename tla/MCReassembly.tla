---------------------------- MODULE MCReassembly -----------------------------
(***************************************************************************)
(* A small instance of Reassembly: two-byte chunks and sequence fields     *)
(* that count to 3.  max (3 cells) has exactly MAX_MESSAGE_SIZE bytes and  *)
(* shares its id with clash (2 cells, the last one short); short is a      *)
(* single cell; empty and huge are outside the lengths that                *)
(* fragment_message accepts.                                               *)
(***************************************************************************)
EXTENDS Reassembly, TLC

CONSTANTS max, clash, short, empty, huge, id1, id2

MCMessageLen == max :> 6 @@ clash :> 3 @@ short :> 1 @@ empty :> 0 @@ huge :> 7

MCMessageId == max :> id1 @@ clash :> id1 @@ short :> id2
               @@ empty :> id2 @@ huge :> id2
==============================================================================
