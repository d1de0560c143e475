------------------------------ MODULE Discovery ------------------------------
(***************************************************************************)
(* How a client gets a Topology.  Relays start, bind the port they listen  *)
(* on and, in a task of its own, the mailbox port (veil-relay main.rs);    *)
(* discover_topology (veil-routing discovery.rs) asks one mailbox address  *)
(* after the other who is there (DESCRIBE, pull_listener.rs); the result   *)
(* is saved to a file that other clients load (topology_file.rs) and       *)
(* derive the mailbox addresses from (veil-cli main.rs).                   *)
(*                                                                         *)
(* An address is a host and a port.  A host has one address of its own     *)
(* (the loopback address, where everything runs on one host), which means  *)
(* the same to everyone, and the wildcard 0.0.0.0: to listen on it is to   *)
(* listen on the host's own address, and to connect to it is to connect to *)
(* the host one is on.  A key is the relay it belongs to and a number.     *)
(***************************************************************************)
EXTENDS Naturals, Sequences, FiniteSets, SequencesExt

CONSTANTS
    Relays,
    Hosts, AnyHost,          \* the hosts, and the wildcard address
    Host,          \* where each relay runs
    ScanHost,      \* where discover_topology runs
    LoadHost,      \* where a client that loads the file runs
    Client,        \* that client, as a name for its build
    Builds,        \* how the relays and that client may be built: "debug",
                   \* additions are checked, or "release", they wrap
    ListenAddr,    \* config.listen_addr of each relay
    RelayId,       \* config.relay_id of each relay, not always unique
    Config,        \* the config file of each relay: "unreadable", or the
                   \* static_secret_hex in it: "unset", "valid", "invalid"
    PortMax,       \* u16::MAX
    Offset,        \* the 1000 between listen and mailbox port
    Addresses,     \* the mailbox addresses given to discover_topology
    InitialFiles,  \* topology files that an operator may have written
    Absent, Truncated,       \* no file, and one that is being written
    NoPeer, Gone,            \* no connection, and a broken one
    MaxStarts, MaxFaults     \* bounds on starts, and on stops of listeners

Version == 1

Ports == 0 .. PortMax

SocketAddrs == [host : Hosts \cup {AnyHost}, port : Ports]

ASSUME DiscoveryAssumption ==
    /\ PortMax \in Nat /\ Offset \in 1 .. PortMax
    /\ AnyHost \notin Hosts
    /\ Host \in [Relays -> Hosts] /\ ScanHost \in Hosts /\ LoadHost \in Hosts
    /\ Client \notin Relays
    /\ Builds \subseteq [Relays \cup {Client} -> {"debug", "release"}]
    /\ ListenAddr \in [Relays -> SocketAddrs]
    /\ \A r \in Relays : ListenAddr[r].host \in {Host[r], AnyHost}
    /\ Config \in [Relays -> {"unreadable", "unset", "valid", "invalid"}]
    /\ Addresses \in Seq(SocketAddrs)
    /\ MaxStarts \in Nat /\ MaxFaults \in Nat
    /\ NoPeer # Gone /\ {NoPeer, Gone} \cap (Relays \X {"main", "box"}) = {}

VARIABLES
    build,        \* how each relay and the client are built
    main,         \* of each relay: the process and its listen port
    box,          \* of each relay: the task that serves the mailbox port
    key,          \* number of the key pair the relay has
    starts, faults,
    at,           \* index into Addresses of describe in progress
    peer,         \* what describe is connected to
    topology,     \* Topology::relays in discover_topology
    unreachable,  \* the addresses reported, in order
    answers,      \* history: the identity each address has answered with
    file,         \* the topology file
    saved,        \* has save_to_file been called, and has it returned: "ok",
                  \* or an error before ("refused") or after ("broken") the
                  \* file was truncated
    loaded        \* what the last load_from_file returned

relayVars == <<build, main, box, key, starts, faults>>
scanVars  == <<at, peer, topology, unreachable, answers>>
fileVars  == <<file, saved, loaded>>

vars == <<relayVars, scanVars, fileVars>>

(***************************************************************************)
(* The key pair that veil-relay-keygen made: to_hex put its secret into    *)
(* the config file, from_hex gets the same one back.  A relay without it   *)
(* counts the key pairs it generates from here on.                         *)
(***************************************************************************)
Keygen == 0

NoRelays == [id \in {} |-> id]

Failed(error) == [res |-> error, relays |-> NoRelays]

Init ==
    /\ build \in Builds
    /\ main = [r \in Relays |-> "down"]
    /\ box = [r \in Relays |-> "off"]
    /\ key = [r \in Relays |-> Keygen]
    /\ starts = 0 /\ faults = 0
    /\ at = 1 /\ peer = NoPeer
    /\ topology = NoRelays
    /\ unreachable = <<>>
    /\ answers = [i \in DOMAIN Addresses |-> {}]
    /\ file \in InitialFiles
    /\ saved = "no"
    /\ loaded = Failed("none")

------------------------------------------------------------------------------
(***************************************************************************)
(* port() + 1000 in u16, in the relay and in mailbox_address_from alike,   *)
(* each in its own process.                                                *)
(***************************************************************************)
MailboxPort(p) == (p + Offset) % (PortMax + 1)

Overflows(who, p) == build[who] = "debug" /\ p + Offset > PortMax

(***************************************************************************)
(* Who accepts connections to a port of a host.  A bind to port 0 gets a   *)
(* port that nobody knows.                                                 *)
(***************************************************************************)
Listeners(h, p) ==
    LET mine == {r \in Relays : Host[r] = h /\ p # 0}
    IN  {<<r, "main">> : r \in {q \in mine : main[q] = "bound"
                                             /\ ListenAddr[q].port = p}}
        \cup {<<r, "box">> : r \in {q \in mine : box[q] = "bound"
                                             /\ MailboxPort(ListenAddr[q].port) = p}}

Free(h, p) == Listeners(h, p) = {}

(***************************************************************************)
(* The host and the port where a connection from host h to address a ends. *)
(***************************************************************************)
Reached(h, a) == [a EXCEPT !.host = IF a.host = AnyHost THEN h ELSE a.host]

ListenersAt(a) == LET to == Reached(ScanHost, a) IN Listeners(to.host, to.port)

(***************************************************************************)
(* The process ends: its ports are free and its connections are reset.     *)
(***************************************************************************)
Exits(r) ==
    /\ main' = [main EXCEPT ![r] = "down"]
    /\ box' = [box EXCEPT ![r] = "off"]
    /\ peer' = IF peer \in {<<r, "main">>, <<r, "box">>} THEN Gone ELSE peer

(***************************************************************************)
(* main up to the two binds.  An error of RelayConfig::load or of          *)
(* KeyPair::from_hex ends it.  The key pair is chosen before the mailbox   *)
(* port is computed, where a checked addition may panic.                   *)
(***************************************************************************)
Configured(r) == Config[r] \in {"unset", "valid"}

KeyAfterStart(r) == IF Config[r] = "valid" THEN Keygen ELSE key[r] + 1

Start(r) ==
    /\ main[r] = "down"
    /\ starts < MaxStarts
    /\ starts' = starts + 1
    /\ key' = IF Configured(r) THEN [key EXCEPT ![r] = KeyAfterStart(r)] ELSE key
    /\ IF Configured(r) /\ ~Overflows(r, ListenAddr[r].port)
       THEN /\ main' = [main EXCEPT ![r] = "binding"]
            /\ box' = [box EXCEPT ![r] = "binding"]
       ELSE UNCHANGED <<main, box>>
    /\ UNCHANGED <<build, faults, scanVars, fileVars>>

(***************************************************************************)
(* RelayNode::run binds the listen port; an error ends main.               *)
(***************************************************************************)
BindMain(r) ==
    /\ main[r] = "binding"
    /\ IF Free(Host[r], ListenAddr[r].port)
       THEN main' = [main EXCEPT ![r] = "bound"] /\ UNCHANGED <<box, peer>>
       ELSE Exits(r)
    /\ UNCHANGED <<build, key, starts, faults, at, topology, unreachable, answers,
                   fileVars>>

(***************************************************************************)
(* The task with pull_listener::serve binds the mailbox port; an error is  *)
(* logged, and the relay goes on without a mailbox.                        *)
(***************************************************************************)
BindBox(r) ==
    /\ box[r] = "binding"
    /\ box' = [box EXCEPT ![r] = IF Free(Host[r], MailboxPort(ListenAddr[r].port))
                                 THEN "bound" ELSE "stopped"]
    /\ UNCHANGED <<build, main, key, starts, faults, scanVars, fileVars>>

(***************************************************************************)
(* An error of accept ends serve, but no connection that it has accepted;  *)
(* one in run, like a crash, ends the process.                             *)
(***************************************************************************)
BoxStops(r) ==
    /\ box[r] = "bound"
    /\ faults < MaxFaults
    /\ faults' = faults + 1
    /\ box' = [box EXCEPT ![r] = "stopped"]
    /\ peer' \in IF peer = <<r, "box">> THEN {peer, Gone} ELSE {peer}
    /\ UNCHANGED <<build, main, key, starts, at, topology, unreachable, answers,
                   fileVars>>

Stop(r) ==
    /\ main[r] # "down"
    /\ faults < MaxFaults
    /\ faults' = faults + 1
    /\ Exits(r)
    /\ UNCHANGED <<build, key, starts, at, topology, unreachable, answers, fileVars>>

------------------------------------------------------------------------------
Scanning == at <= Len(Addresses)

(***************************************************************************)
(* describe: connect and send the request byte.                            *)
(***************************************************************************)
Connect ==
    /\ Scanning
    /\ peer = NoPeer
    /\ peer' \in ListenersAt(Addresses[at])
    /\ UNCHANGED <<relayVars, at, topology, unreachable, answers, fileVars>>

\* Defect: the relay describes itself with the address it was asked at.
IdentityWithMailbox(r) == [id |-> RelayId[r], address |-> Addresses[at],
                           key |-> <<r, key[r]>>]

(***************************************************************************)
(* RelayIdentity as main creates it, with the listen address as the config *)
(* has it, a wildcard too; and Topology::add_relay, which replaces an      *)
(* entry with the same id.                                                 *)
(***************************************************************************)
Identity(r) == [id |-> RelayId[r], address |-> ListenAddr[r], key |-> <<r, key[r]>>]

\* Defect: the first entry with an id stays.
AddRelayOnce(t, info) ==
    [id \in DOMAIN t \cup {info.id} |-> IF id \in DOMAIN t THEN t[id] ELSE info]

AddRelay(t, info) ==
    [id \in DOMAIN t \cup {info.id} |-> IF id = info.id THEN info ELSE t[id]]

(***************************************************************************)
(* handle_request answers, and discover_topology adds the relay.  A        *)
(* connection to a listen port gets no answer: handle_connection there     *)
(* waits for the rest of a length prefix, and describe has no timeout.     *)
(***************************************************************************)
DescribeOk ==
    \E r \in Relays :
        /\ peer = <<r, "box">>
        /\ topology' = AddRelay(topology, Identity(r))
        /\ answers' = [answers EXCEPT ![at] = {Identity(r)}]
        /\ peer' = NoPeer
        /\ at' = at + 1
        /\ UNCHANGED <<relayVars, unreachable, fileVars>>

\* Defect: an error also skips the next address.
NextAfterErrorSkips == at + 2

NextAfterError == at + 1

\* Defect: a connection that breaks is not taken for an error.
DescribeErrRefused ==
    /\ Scanning
    /\ peer = NoPeer /\ ListenersAt(Addresses[at]) = {}
    /\ unreachable' = Append(unreachable, Addresses[at])
    /\ peer' = NoPeer
    /\ at' = NextAfterError
    /\ UNCHANGED <<relayVars, topology, answers, fileVars>>

(***************************************************************************)
(* Nobody listens, or the connection broke before the answer.              *)
(***************************************************************************)
DescribeErr ==
    /\ Scanning
    /\ \/ peer = NoPeer /\ ListenersAt(Addresses[at]) = {}
       \/ peer = Gone
    /\ unreachable' = Append(unreachable, Addresses[at])
    /\ peer' = NoPeer
    /\ at' = NextAfterError
    /\ UNCHANGED <<relayVars, topology, answers, fileVars>>

------------------------------------------------------------------------------
(***************************************************************************)
(* to_json: the entries in the arbitrary order of a HashMap.               *)
(***************************************************************************)
ToJson(t) ==
    {[version |-> Version, relays |-> s] : s \in SetToSeqs({t[id] : id \in DOMAIN t})}

(***************************************************************************)
(* save_to_file: fs::write opens the file, which may fail and leaves the   *)
(* old one as it is; opening truncates it; then it is written, which may   *)
(* fail too.                                                               *)
(***************************************************************************)
SaveRefused ==
    /\ ~Scanning
    /\ saved = "no"
    /\ saved' = "refused"
    /\ UNCHANGED <<relayVars, scanVars, file, loaded>>

SaveBegins ==
    /\ ~Scanning
    /\ saved = "no"
    /\ saved' = "writing"
    /\ file' = Truncated
    /\ UNCHANGED <<relayVars, scanVars, loaded>>

SaveEnds ==
    /\ saved = "writing"
    /\ \/ saved' = "ok" /\ file' \in ToJson(topology)
       \/ saved' = "broken" /\ UNCHANGED file
    /\ UNCHANGED <<relayVars, scanVars, loaded>>

\* Defect: a file that does not parse counts as one without relays.
EmptyForUnparsed == [res |-> "ok", relays |-> NoRelays]

Unparsed == Failed("Parse")

(***************************************************************************)
(* The loop of from_json that adds the entries in the order of the file.   *)
(***************************************************************************)
FromEntries(relays) ==
    LET added[n \in 0 .. Len(relays)] ==
            IF n = 0 THEN NoRelays ELSE AddRelay(added[n - 1], relays[n])
    IN  added[Len(relays)]

(***************************************************************************)
(* load_from_file and from_json, which gives up at the first invalid key   *)
(* (here the empty one).                                                   *)
(***************************************************************************)
FromJson(f) ==
    IF f = Absent THEN Failed("Read")
    ELSE IF f = Truncated THEN Unparsed
    ELSE IF f.version # Version THEN Failed("UnsupportedVersion")
    ELSE IF \E i \in DOMAIN f.relays : f.relays[i].key = <<>>
         THEN Failed("InvalidPublicKey")
    ELSE [res |-> "ok", relays |-> FromEntries(f.relays)]

Load ==
    /\ loaded' = FromJson(file)
    /\ UNCHANGED <<relayVars, scanVars, file, saved>>

(***************************************************************************)
(* run_external: the mailbox address for an entry of a loaded topology,    *)
(* where a checked addition may panic.                                     *)
(***************************************************************************)
MailboxAddressFrom(a) == [a EXCEPT !.port = MailboxPort(a.port)]

DerivePanics ==
    \E id \in DOMAIN loaded.relays : Overflows(Client, loaded.relays[id].address.port)

------------------------------------------------------------------------------
Scan == Connect \/ DescribeOk \/ DescribeErr

Next == \/ \E r \in Relays : \/ Start(r) \/ BindMain(r) \/ BindBox(r)
                             \/ BoxStops(r) \/ Stop(r)
        \/ Scan
        \/ SaveRefused \/ SaveBegins \/ SaveEnds \/ Load

Spec == Init /\ [][Next]_vars

(***************************************************************************)
(* The client and the handlers of the relays are scheduled.                *)
(***************************************************************************)
FairSpec == Spec /\ WF_vars(Scan)

------------------------------------------------------------------------------
(***************************************************************************)
(* Type invariant.                                                         *)
(***************************************************************************)
TypeOK ==
    /\ main \in [Relays -> {"down", "binding", "bound"}]
    /\ box \in [Relays -> {"off", "binding", "bound", "stopped"}]
    /\ key \in [Relays -> Nat]
    /\ at \in 1 .. Len(Addresses) + 1
    /\ peer \in (Relays \X {"main", "box"}) \cup {NoPeer, Gone}
    /\ DOMAIN topology \subseteq {RelayId[r] : r \in Relays}
    /\ unreachable \in Seq(SocketAddrs)
    /\ loaded.res \in {"none", "ok", "Read", "Parse", "UnsupportedVersion",
                       "InvalidPublicKey"}

(***************************************************************************)
(* No address is forgotten, whatever fails and restarts during the scan:   *)
(* one that was asked is among the unreachable, or the topology has what   *)
(* it answered, unless a later one answered with the same id.              *)
(***************************************************************************)
Replaces(j, i) ==
    j > i /\ \E a \in answers[i], b \in answers[j] : a.id = b.id

EveryAddressAccounted ==
    /\ Len(unreachable) = Cardinality({i \in 1 .. at - 1 : answers[i] = {}})
    /\ \A i \in 1 .. at - 1 :
           \/ answers[i] = {} /\ Addresses[i] \in {unreachable[k] : k \in DOMAIN unreachable}
           \/ \E j \in DOMAIN Addresses : Replaces(j, i)
           \/ \E a \in answers[i] : a.id \in DOMAIN topology /\ topology[a.id] = a

(***************************************************************************)
(* load_from_file returns all of a topology or an error, also while the    *)
(* file is being written: the operator's file as long as fs::write has not *)
(* touched it, then the discovered topology once it has been written, and  *)
(* nothing at all in between or after a write that broke off.              *)
(***************************************************************************)
LoadsWhole ==
    [][/\ Load
       /\ loaded'.res = "ok"
       => CASE saved \in {"no", "refused"} -> \E f \in InitialFiles : loaded' = FromJson(f)
            [] saved = "ok"               -> loaded'.relays = topology
            [] OTHER                      -> FALSE]_vars

(***************************************************************************)
(* Which relays of a discovered topology a client that has loaded it can   *)
(* poll: for each it derives (mailbox_address_from) the host and port that *)
(* answered discovery, the wrap of the port included, exactly if the relay *)
(* listens on an address of its own or runs on the client's host.  One     *)
(* that listens on 0.0.0.0 (docker/config) describes itself so, and the    *)
(* client asks its own host instead.  (A client with checked additions     *)
(* panics where the port wraps.)                                           *)
(***************************************************************************)
AnsweredAt(e) == {j \in DOMAIN Addresses : e \in answers[j]}

PollsReach(e, j) ==
    Reached(LoadHost, MailboxAddressFrom(e.address)) = Reached(ScanHost, Addresses[j])

PollsWhereAnswered ==
    /\ saved = "ok" /\ loaded.res = "ok" /\ loaded.relays = topology
    /\ ~DerivePanics
    => \A id \in DOMAIN loaded.relays :
          LET e == loaded.relays[id]
          IN  /\ AnsweredAt(e) # {}
              /\ \A j \in AnsweredAt(e) :
                     PollsReach(e, j)
                         <=> \/ e.address.host # AnyHost
                             \/ Reached(ScanHost, Addresses[j]).host = LoadHost

(***************************************************************************)
(* The scan ends, with an answer or an error for each address.             *)
(***************************************************************************)
ScanEnds == <>(~Scanning)
==============================================================================
