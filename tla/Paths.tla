-------------------------------- MODULE Paths --------------------------------
(***************************************************************************)
(* veil-routing: what a path of a topology is.  A relay is named by its    *)
(* id.  Of its address matters whether it ends in `:port` and the octets   *)
(* of its host, none if that is not an IPv4 literal.                       *)
(***************************************************************************)
EXTENDS Naturals, Sequences, FiniteSets

CONSTANTS
    Relays,     \* every relay a topology may list
    Address,    \* RelayInfo::address of each relay
    Unknown     \* the result None of subnet_key

ASSUME RelaysAssumption == IsFiniteSet(Relays)

(***************************************************************************)
(* subnet_key: the /24 network of an address, if it shows.                 *)
(***************************************************************************)
SubnetKey(address) ==
    IF address.port /\ Len(address.octets) = 4 THEN SubSeq(address.octets, 1, 3)
                                               ELSE Unknown

Subnet == [r \in Relays |-> SubnetKey(Address[r])]

(***************************************************************************)
(* What shuffle may return: every relay of S once, in any order.           *)
(***************************************************************************)
Shuffles(S) ==
    {s \in [1 .. Cardinality(S) -> S] :
        \A i, j \in 1 .. Cardinality(S) : s[i] = s[j] => i = j}

(***************************************************************************)
(* The results of select_path, which is not told about subnets.            *)
(***************************************************************************)
SimplePaths(S, n) == {SubSeq(order, 1, n) : order \in Shuffles(S)}

Elements(s) == {s[i] : i \in 1 .. Len(s)}

(***************************************************************************)
(* The relays of S in a shuffle, in its order.                             *)
(***************************************************************************)
Chosen(order, S) ==
    LET kept[k \in 0 .. Len(order)] ==
            IF k = 0 THEN <<>>
            ELSE IF order[k] \in S THEN Append(kept[k - 1], order[k])
                                   ELSE kept[k - 1]
    IN  kept[Len(order)]

(***************************************************************************)
(* The relays of a shuffle whose subnet an earlier one has.                *)
(***************************************************************************)
Repeated(order) ==
    {order[i] : i \in {k \in 1 .. Len(order) :
                          /\ Subnet[order[k]] # Unknown
                          /\ \E j \in 1 .. k - 1 : Subnet[order[j]] = Subnet[order[k]]}}

(***************************************************************************)
(* The result of select_diverse_path for one shuffle of the relays, and    *)
(* all the results for a topology.                                         *)
(***************************************************************************)
DiversePath(order, n) ==
    SubSeq(Chosen(order, Elements(order) \ Repeated(order)) \o Chosen(order, Repeated(order)),
           1, n)

DiversePaths(S, n) == {DiversePath(order, n) : order \in Shuffles(S)}
==============================================================================
