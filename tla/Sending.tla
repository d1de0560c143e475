------------------------------- MODULE Sending -------------------------------
(***************************************************************************)
(* veil-sdk and veil-routing: VeilClient::send (client.rs) fragments a     *)
(* message and gives each cell a path and an onion of its own              *)
(* (build_circuit, lib.rs); the relays on the path peel it, layer by       *)
(* layer, until the exit hands the cell to its mailbox.  Several calls of  *)
(* send may be running, and the task of spawn_cover_traffic: they share    *)
(* nothing but the topology.                                               *)
(*                                                                         *)
(* What goes on inside a relay is the subject of RelayNode; here a relay   *)
(* takes a frame and passes it on in one step, or a fault loses the frame. *)
(* A relay is addressed by its name: the addresses of a topology are ones  *)
(* that can be dialled, far below the 2^16 bytes encode_payload has room   *)
(* for.                                                                    *)
(***************************************************************************)
EXTENDS Envelopes, Paths

CONSTANTS
    Topologies,  \* the topologies a client may have loaded
    HopCounts,   \* the values of hop_count it may be given
    Intervals,   \* min_interval and max_interval of cover traffic, in
                 \* half milliseconds
    Persistent,  \* relays whose config has a static_secret_hex
    MaxFaults    \* bound on lost frames and restarts

ASSUME SendingAssumption == /\ Topologies \subseteq SUBSET Relays
                            /\ HopCounts \subseteq Nat
                            /\ Intervals \subseteq Nat \X Nat
                            /\ Persistent \subseteq Relays
                            /\ MaxFaults \in Nat
                            /\ \A m \in Messages : Kind[m] = "dummy" => TotalCells(m) = 1

VARIABLES
    topology,  \* relays of VeilClient::topology, as they were when loaded
    hopCount,  \* VeilClient::hop_count
    cover,     \* the cover traffic task: is it running, its intervals and
               \* the delay before the next dummy
    call,      \* of each message: pc, next cell and the exits reported
    identity,  \* how many key pairs each relay has generated before this one
    packets,   \* frames on their way: the cell, the relay and the onion
    route,     \* history: path chosen for each cell
    visits,    \* history: relays that have peeled a layer around each cell
    surfaced,  \* history: mailboxes each cell was put into
    unpeeled,  \* history: relays that could not peel a frame
    faults     \* lost frames and restarts so far

netVars == <<packets, visits, surfaced, unpeeled>>

clientVars == <<topology, hopCount, call, cover>>

vars == <<clientVars, identity, netVars, route, faults>>

Silent == [on |-> FALSE, interval |-> <<0, 0>>, delay |-> 0]

Init == /\ topology \in Topologies
        /\ hopCount \in HopCounts
        /\ cover = Silent
        /\ call = [m \in Messages |-> [pc |-> "idle", next |-> 0, sent |-> <<>>]]
        /\ identity = [r \in Relays |-> 0]
        /\ packets = {}
        /\ route = [c \in AllCells |-> <<>>]
        /\ visits = [c \in AllCells |-> <<>>]
        /\ surfaced = [c \in AllCells |-> {}]
        /\ unpeeled = {}
        /\ faults = 0

------------------------------------------------------------------------------
(***************************************************************************)
(* build_onion_layer draws a key pair, and derives the key of the layer    *)
(* from it and the public key that the topology has for the relay, which   *)
(* is that of its first key pair.  All layers for one relay may share a    *)
(* name for the fresh key pair: nothing compares two of them.              *)
(***************************************************************************)
RelayKey(r, k) == <<"relay", r, k>>

LayerKey(secret, public) ==
    DeriveKey(DiffieHellman(secret, public), "veil-onion-layer-v1")

Layer(r, payload) ==
    LET ephemeral == <<"layer", r>>
    IN  [ephemeral |-> ephemeral,
         key       |-> LayerKey(ephemeral, RelayKey(r, 0)),
         payload   |-> payload]

\* Defect: a hop is told its own address.
BuildCircuitSelf(p, body) ==
    LET layer[i \in 1 .. Len(p)] ==
            Layer(p[i], IF i = Len(p)
                        THEN [kind |-> "deliver", body |-> body]
                        ELSE [kind |-> "forward", next_hop |-> p[i],
                              body |-> layer[i + 1]])
    IN  layer[1]

(***************************************************************************)
(* build_circuit: the exit's layer innermost, around it one for each hop   *)
(* before, with the address of the hop that follows.                       *)
(***************************************************************************)
BuildCircuit(p, body) ==
    LET layer[i \in 1 .. Len(p)] ==
            Layer(p[i], IF i = Len(p)
                        THEN [kind |-> "deliver", body |-> body]
                        ELSE [kind |-> "forward", next_hop |-> p[i + 1],
                              body |-> layer[i + 1]])
    IN  layer[1]

------------------------------------------------------------------------------
(***************************************************************************)
(* send: fragment_message, and its error.                                  *)
(***************************************************************************)
SendStarts(m) ==
    /\ Kind[m] # "dummy"
    /\ call[m].pc = "idle"
    /\ call' = [call EXCEPT ![m].pc = IF FragmentOk(m) THEN "loop" ELSE "err"]
    /\ UNCHANGED <<topology, hopCount, cover, identity, netVars, route, faults>>

\* Defect: the loop runs once more than there are cells.
MoreByOne(m) == call[m].pc = "loop" /\ call[m].next <= TotalCells(m)

(***************************************************************************)
(* An iteration of the loop: a path, an onion, a connection to the first   *)
(* hop, and write_frame.                                                   *)
(***************************************************************************)
More(m) == call[m].pc = "loop" /\ call[m].next < TotalCells(m)

NextCell(m) == CellOf(m, call[m].next)

PathExists == hopCount # 0 /\ hopCount <= Cardinality(topology)

Written(c, p) ==
    packets \cup {[cell |-> c, at |-> p[1], onion |-> BuildCircuit(p, c)]}

\* Defect: the entry is reported in place of the exit.
ReportsEntry(p) == p[1]

Reported(p) == p[Len(p)]

SendCell(m) ==
    /\ More(m)
    /\ PathExists
    /\ \E p \in DiversePaths(topology, hopCount) :
           /\ packets' = Written(NextCell(m), p)
           /\ route' = [route EXCEPT ![NextCell(m)] = p]
           /\ call' = [call EXCEPT ![m].next = @ + 1,
                                   ![m].sent = Append(@, Reported(p))]
    /\ UNCHANGED <<topology, hopCount, cover, identity, visits, surfaced, unpeeled, faults>>

(***************************************************************************)
(* `?` returns the error from send: the exits of the cells that have left  *)
(* are dropped with `sent`, and the cells are on their way.                *)
(***************************************************************************)
GivenUp(m) == [call EXCEPT ![m].pc = "err", ![m].sent = <<>>]

(***************************************************************************)
(* select_diverse_path or build_circuit fails.                             *)
(***************************************************************************)
NoPath(m) ==
    /\ More(m)
    /\ ~PathExists
    /\ call' = GivenUp(m)
    /\ UNCHANGED <<topology, hopCount, cover, identity, netVars, route, faults>>

\* Defect: the frame is complete when the error is reported.
SendFailsLate(m) ==
    /\ More(m)
    /\ PathExists
    /\ faults < MaxFaults
    /\ faults' = faults + 1
    /\ \E p \in DiversePaths(topology, hopCount) :
           /\ packets' = Written(NextCell(m), p)
           /\ route' = [route EXCEPT ![NextCell(m)] = p]
    /\ call' = GivenUp(m)
    /\ UNCHANGED <<topology, hopCount, cover, identity, visits, surfaced, unpeeled>>

(***************************************************************************)
(* connect fails, or write_frame before the last byte is accepted.         *)
(***************************************************************************)
SendFails(m) ==
    /\ More(m)
    /\ PathExists
    /\ faults < MaxFaults
    /\ faults' = faults + 1
    /\ call' = GivenUp(m)
    /\ UNCHANGED <<topology, hopCount, cover, identity, netVars, route>>

SendReturns(m) ==
    /\ call[m].pc = "loop"
    /\ ~More(m)
    /\ call' = [call EXCEPT ![m].pc = "ok"]
    /\ UNCHANGED <<topology, hopCount, cover, identity, netVars, route, faults>>

------------------------------------------------------------------------------
\* Defect: the last millisecond of the span may be drawn as well.
JitterInclusive(min, max) == 0 .. (max - min) \div 2

(***************************************************************************)
(* next_dummy: min_interval and a random number of milliseconds below the  *)
(* span, which is max - min (not below zero) in whole milliseconds, and at *)
(* least one.                                                              *)
(***************************************************************************)
Jitter(min, max) ==
    LET span == IF max > min THEN (max - min) \div 2 ELSE 0
    IN  0 .. (IF span = 0 THEN 1 ELSE span) - 1

Sleeping(i) ==
    {[on |-> TRUE, interval |-> i, delay |-> i[1] + 2 * j] : j \in Jitter(i[1], i[2])}

(***************************************************************************)
(* spawn_cover_traffic, and abort on its handle.                           *)
(***************************************************************************)
CoverStarts ==
    /\ ~cover.on
    /\ \E i \in Intervals : cover' \in Sleeping(i)
    /\ UNCHANGED <<topology, hopCount, call, identity, netVars, route, faults>>

CoverAborts ==
    /\ cover.on
    /\ cover' = Silent
    /\ UNCHANGED <<topology, hopCount, call, identity, netVars, route, faults>>

(***************************************************************************)
(* The delay is over: a dummy cell, under a key nobody keeps, goes out     *)
(* like a cell of a message, and the loop sleeps again.                    *)
(***************************************************************************)
CoverSends(m) ==
    /\ cover.on
    /\ Kind[m] = "dummy" /\ call[m].pc = "idle"
    /\ PathExists
    /\ \E p \in DiversePaths(topology, hopCount) :
           /\ packets' = Written(CellOf(m, 0), p)
           /\ route' = [route EXCEPT ![CellOf(m, 0)] = p]
    /\ call' = [call EXCEPT ![m].pc = "ok"]
    /\ cover' \in Sleeping(cover.interval)
    /\ UNCHANGED <<topology, hopCount, identity, visits, surfaced, unpeeled, faults>>

(***************************************************************************)
(* There is no path, or connect or write_frame fails: the dummy is         *)
(* forgotten and the loop sleeps again.                                    *)
(***************************************************************************)
CoverSkips ==
    /\ cover.on
    /\ \/ ~PathExists /\ UNCHANGED faults
       \/ PathExists /\ faults < MaxFaults /\ faults' = faults + 1
    /\ cover' \in Sleeping(cover.interval)
    /\ UNCHANGED <<topology, hopCount, call, identity, netVars, route>>

------------------------------------------------------------------------------
(***************************************************************************)
(* peel_onion_layer at the relay that has the frame, and what              *)
(* handle_connection does with the three results.                          *)
(***************************************************************************)
PeelsWith(q, secret) == q.onion.key = LayerKey(secret, q.onion.ephemeral)

Peels(q) == PeelsWith(q, RelayKey(q.at, identity[q.at]))

PeelForward(q) ==
    /\ Peels(q)
    /\ q.onion.payload.kind = "forward"
    /\ packets' = (packets \ {q})
                    \cup {[cell  |-> q.cell,
                           at    |-> q.onion.payload.next_hop,
                           onion |-> q.onion.payload.body]}
    /\ visits' = [visits EXCEPT ![q.cell] = Append(@, q.at)]
    /\ UNCHANGED <<clientVars, identity, surfaced, unpeeled, route, faults>>

PeelDeliver(q) ==
    /\ Peels(q)
    /\ q.onion.payload.kind = "deliver"
    /\ packets' = packets \ {q}
    /\ visits' = [visits EXCEPT ![q.cell] = Append(@, q.at)]
    /\ surfaced' = [surfaced EXCEPT ![q.onion.payload.body] = @ \cup {q.at}]
    /\ UNCHANGED <<clientVars, identity, unpeeled, route, faults>>

PeelFails(q) ==
    /\ ~Peels(q)
    /\ packets' = packets \ {q}
    /\ unpeeled' = unpeeled \cup {q.at}
    /\ UNCHANGED <<clientVars, identity, visits, surfaced, route, faults>>

(***************************************************************************)
(* A frame is lost: refused by the connection limit, written to a          *)
(* connection that has gone stale, or in a task that ends.                 *)
(***************************************************************************)
Lose(q) ==
    /\ faults < MaxFaults
    /\ faults' = faults + 1
    /\ packets' = packets \ {q}
    /\ UNCHANGED <<clientVars, identity, visits, surfaced, unpeeled, route>>

\* Defect: static_secret_hex is ignored, as docs/ARCHITECTURE.md:143-146 still
\* says of the relay.
IdentityAlwaysFresh(r) == identity[r] + 1

(***************************************************************************)
(* A relay restarts: main loads its key pair or generates one.  The frames *)
(* in its sockets go with the process.                                     *)
(***************************************************************************)
IdentityAfter(r) == IF r \in Persistent THEN identity[r] ELSE identity[r] + 1

Restart(r) ==
    /\ faults < MaxFaults
    /\ faults' = faults + 1
    /\ identity' = [identity EXCEPT ![r] = IdentityAfter(r)]
    /\ packets' = {q \in packets : q.at # r}
    /\ UNCHANGED <<clientVars, visits, surfaced, unpeeled, route>>

Relay(q) == PeelForward(q) \/ PeelDeliver(q) \/ PeelFails(q)

Next == \/ \E m \in Messages : \/ SendStarts(m) \/ SendCell(m) \/ NoPath(m)
                               \/ SendFails(m) \/ SendReturns(m)
        \/ CoverStarts \/ CoverAborts \/ CoverSkips
        \/ \E m \in Messages : CoverSends(m)
        \/ \E q \in packets : Relay(q) \/ Lose(q)
        \/ \E r \in Relays : Restart(r)

Spec == Init /\ [][Next]_vars

------------------------------------------------------------------------------
(***************************************************************************)
(* Type invariant.  (The shape of an onion is left to CircuitFollowed.)    *)
(***************************************************************************)
TypeOK ==
    /\ topology \subseteq Relays
    /\ hopCount \in Nat
    /\ cover.on \in BOOLEAN /\ cover.interval \in Nat \X Nat /\ cover.delay \in Nat
    /\ \A m \in Messages :
           /\ call[m].pc \in {"idle", "loop", "ok", "err"}
           /\ call[m].next \in 0 .. TotalCells(m)
           /\ call[m].sent \in Seq(Relays)
    /\ identity \in [Relays -> Nat]
    /\ \A q \in packets : q.cell \in AllCells /\ q.at \in Relays
    /\ route \in [AllCells -> Seq(Relays)]
    /\ visits \in [AllCells -> Seq(Relays)]
    /\ surfaced \in [AllCells -> SUBSET Relays]
    /\ unpeeled \subseteq Relays
    /\ faults \in 0 .. MaxFaults

(***************************************************************************)
(* A cell goes where the sender planned: the relays that peeled a layer    *)
(* are the first ones of the path, in its order; the frame is at the next  *)
(* one, for which its outer layer is meant; and the cell surfaces after    *)
(* the last one only, so no relay before the exit has it in the clear.     *)
(***************************************************************************)
CircuitFollowed ==
    /\ \A c \in AllCells :
           /\ Len(visits[c]) <= Len(route[c])
           /\ visits[c] = SubSeq(route[c], 1, Len(visits[c]))
           /\ surfaced[c] # {} => visits[c] = route[c]
    /\ \A q \in packets :
           LET hop == Len(visits[q.cell]) + 1
           IN  /\ hop <= Len(route[q.cell])
               /\ q.at = route[q.cell][hop]
               /\ PeelsWith(q, RelayKey(q.at, 0))

(***************************************************************************)
(* SentCircuit tells the truth: unless send has failed, a cell surfaces at *)
(* the exit that is reported for it or nowhere, and one that is not        *)
(* reported surfaces nowhere.  (A send that fails reports nothing, and the *)
(* cells that had left may surface all the same.)                          *)
(***************************************************************************)
ExitAsReported ==
    \A m \in {n \in Messages : Kind[n] # "dummy" /\ call[n].pc # "err"} :
        \A i \in 0 .. TotalCells(m) - 1 :
            surfaced[CellOf(m, i)] \subseteq
                IF i < Len(call[m].sent) THEN {call[m].sent[i + 1]} ELSE {}

(***************************************************************************)
(* A relay with a configured secret stays reachable under the topology the *)
(* client has loaded, however often it restarts (main.rs, from_hex); only  *)
(* one that lost its identity turns frames away.  This is what the code    *)
(* does; docs/ARCHITECTURE.md:143-146 says that every restarted relay is a *)
(* different identity, static_secret_hex or not.                           *)
(***************************************************************************)
PersistentRelaysPeel ==
    unpeeled \subseteq {r \in Relays \ Persistent : identity[r] > 0}

(***************************************************************************)
(* Cover traffic keeps the interval it was asked for (client.rs): a delay  *)
(* is at least min_interval, and below max_interval whenever that leaves   *)
(* room, though the span is rounded to milliseconds and never zero.        *)
(***************************************************************************)
CoverInterval ==
    cover.on => /\ cover.interval[1] <= cover.delay
                /\ cover.interval[1] < cover.interval[2]
                       => cover.delay < cover.interval[2]
==============================================================================
