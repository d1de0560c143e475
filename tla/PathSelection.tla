---------------------------- MODULE PathSelection ----------------------------
(***************************************************************************)
(* veil-routing: select_diverse_path (path_selection.rs).  The relays of   *)
(* the topology are shuffled; a first pass takes those whose subnet is new *)
(* or unknown and sets the others aside, a second pass fills the path from *)
(* the ones set aside, and the path is cut to hop_count relays.            *)
(***************************************************************************)
EXTENDS Paths

CONSTANT MaxHops    \* bound on hop_count

ASSUME MaxHopsAssumption == MaxHops \in Nat

VARIABLES
    topology,    \* the relays of the Topology
    hopCount,    \* hop_count
    pc,
    order,       \* the shuffled candidates
    candidates,  \* the part of order the first pass has not reached
    path,
    used,        \* used_subnets; only asked whether it contains a key
    leftover

vars == <<topology, hopCount, pc, order, candidates, path, used, leftover>>

Init == /\ topology \in SUBSET Relays
        /\ hopCount \in 0 .. MaxHops
        /\ pc = "start"
        /\ order = <<>>
        /\ candidates = <<>>
        /\ path = <<>>
        /\ used = {}
        /\ leftover = <<>>

------------------------------------------------------------------------------
(***************************************************************************)
(* InsufficientRelays, or the shuffle.                                     *)
(***************************************************************************)
Refuse ==
    /\ pc = "start"
    /\ Cardinality(topology) < hopCount
    /\ pc' = "err"
    /\ UNCHANGED <<topology, hopCount, order, candidates, path, used, leftover>>

Shuffle ==
    /\ pc = "start"
    /\ Cardinality(topology) >= hopCount
    /\ order' \in Shuffles(topology)
    /\ candidates' = order'
    /\ pc' = "pass"
    /\ UNCHANGED <<topology, hopCount, path, used, leftover>>

------------------------------------------------------------------------------
(***************************************************************************)
(* The first pass, one action for each arm of the match on subnet_key.     *)
(***************************************************************************)
Considers(r) == /\ pc = "pass"
                /\ candidates # <<>>
                /\ r = Head(candidates)
                /\ candidates' = Tail(candidates)

\* Defect: used_subnets is never consulted.
SetAsideNever(r) == r \notin Relays

(***************************************************************************)
(* The arm `Some(key) if used_subnets.contains(&key)`.                     *)
(***************************************************************************)
Repeats(r) == Subnet[r] # Unknown /\ Subnet[r] \in used

SetAside(r) ==
    /\ Considers(r)
    /\ Repeats(r)
    /\ leftover' = Append(leftover, r)
    /\ UNCHANGED <<topology, hopCount, pc, order, path, used>>

\* Defect: the relay is remembered instead of its subnet.
TakeNewRelay(r) ==
    /\ Considers(r)
    /\ ~Repeats(r)
    /\ Subnet[r] # Unknown
    /\ used' = used \cup {r}
    /\ path' = Append(path, r)
    /\ UNCHANGED <<topology, hopCount, pc, order, leftover>>

TakeNew(r) ==
    /\ Considers(r)
    /\ ~Repeats(r)
    /\ Subnet[r] # Unknown
    /\ used' = used \cup {Subnet[r]}
    /\ path' = Append(path, r)
    /\ UNCHANGED <<topology, hopCount, pc, order, leftover>>

TakeUnknown(r) ==
    /\ Considers(r)
    /\ Subnet[r] = Unknown
    /\ path' = Append(path, r)
    /\ UNCHANGED <<topology, hopCount, pc, order, used, leftover>>

PassEnds ==
    /\ pc = "pass"
    /\ candidates = <<>>
    /\ pc' = "fill"
    /\ UNCHANGED <<topology, hopCount, order, candidates, path, used, leftover>>

------------------------------------------------------------------------------
(***************************************************************************)
(* The second pass stops at exactly hop_count relays, so a path that the   *)
(* first pass made longer takes in all of leftover before it is cut.       *)
(***************************************************************************)
Fill ==
    /\ pc = "fill"
    /\ leftover # <<>>
    /\ Len(path) # hopCount
    /\ path' = Append(path, Head(leftover))
    /\ leftover' = Tail(leftover)
    /\ UNCHANGED <<topology, hopCount, pc, order, candidates, used>>

\* Defect: the path is not cut.
Uncut == path

(***************************************************************************)
(* path.truncate(hop_count).                                               *)
(***************************************************************************)
Truncated == IF Len(path) > hopCount THEN SubSeq(path, 1, hopCount) ELSE path

Finish ==
    /\ pc = "fill"
    /\ leftover = <<>> \/ Len(path) = hopCount
    /\ path' = Truncated
    /\ pc' = "ok"
    /\ UNCHANGED <<topology, hopCount, order, candidates, used, leftover>>

Next == \/ Refuse \/ Shuffle
        \/ \E r \in Relays : SetAside(r) \/ TakeNew(r) \/ TakeUnknown(r)
        \/ PassEnds \/ Fill \/ Finish

Spec == Init /\ [][Next]_vars

------------------------------------------------------------------------------
(***************************************************************************)
(* Type invariant.                                                         *)
(***************************************************************************)
TypeOK == /\ topology \in SUBSET Relays
          /\ hopCount \in 0 .. MaxHops
          /\ pc \in {"start", "pass", "fill", "ok", "err"}
          /\ order \in Seq(Relays)
          /\ candidates \in Seq(Relays)
          /\ path \in Seq(Relays)
          /\ used \in SUBSET {Subnet[r] : r \in Relays}
          /\ leftover \in Seq(Relays)

(***************************************************************************)
(* A selected path has exactly hop_count relays, all of the topology and   *)
(* no two the same, though the two passes append to it in turns and the    *)
(* first one may run past hop_count (build_circuit nests one layer for     *)
(* each, so a repeated relay would be a loop).                             *)
(***************************************************************************)
ExactPath ==
    pc = "ok" => /\ Len(path) = hopCount
                 /\ Elements(path) \subseteq topology
                 /\ \A i, j \in 1 .. Len(path) : path[i] = path[j] => i = j

(***************************************************************************)
(* A subnet appears twice in a path only if there was no way around it:    *)
(* then every relay left out shares the subnet of one that was taken, so   *)
(* none could have stood in for the repetition ("none should be wasted on  *)
(* a repeat").                                                             *)
(***************************************************************************)
SharesSubnet == \E i, j \in 1 .. Len(path) :
                    /\ i # j
                    /\ Subnet[path[i]] # Unknown
                    /\ Subnet[path[i]] = Subnet[path[j]]

RepeatsOnlyIfForced ==
    pc = "ok" /\ SharesSubnet =>
        \A r \in topology \ Elements(path) :
            /\ Subnet[r] # Unknown
            /\ \E i \in 1 .. Len(path) : Subnet[path[i]] = Subnet[r]

(***************************************************************************)
(* The loops compute what Paths!DiversePath says in one line: the relays   *)
(* that are not repetitions, then those that are, each in shuffled order,  *)
(* cut to hop_count.  And diversity only chooses: every path is one that   *)
(* select_path might have returned.                                        *)
(***************************************************************************)
MatchesReference ==
    pc = "ok" => /\ path = DiversePath(order, hopCount)
                 /\ path \in SimplePaths(topology, hopCount)
==============================================================================
