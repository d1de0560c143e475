--------------------------- MODULE DiscoveryProofs ---------------------------
(***************************************************************************)
(* Proofs about Discovery, for any hosts, relays, builds, ids, addresses,  *)
(* files and faults: its invariants, and that a file is loaded whole.      *)
(***************************************************************************)
EXTENDS Discovery, FiniteSetTheorems, WellFoundedInduction, TLAPS

(***************************************************************************)
(* The inductive invariant.  Of the scan: only addresses already asked     *)
(* have an answer, each at most one, and it came from the mailbox at that  *)
(* address; the others are among the unreachable.  Of the topology: each   *)
(* entry is an answer, filed under its id, and each answer is there or was *)
(* replaced.  Of the file: what it holds at each stage of saving.          *)
(***************************************************************************)
Types ==
    /\ main \in [Relays -> {"down", "binding", "bound"}]
    /\ box \in [Relays -> {"off", "binding", "bound", "stopped"}]
    /\ key \in [Relays -> Nat]
    /\ at \in 1 .. Len(Addresses) + 1
    /\ peer \in (Relays \X {"main", "box"}) \cup {NoPeer, Gone}
    /\ unreachable \in Seq(SocketAddrs)
    /\ loaded.res \in {"none", "ok", "Read", "Parse", "UnsupportedVersion",
                       "InvalidPublicKey"}

\* The mailbox of a relay is at the i-th address.
Serves(r, i) == /\ Host[r] = Reached(ScanHost, Addresses[i]).host
                /\ MailboxPort(ListenAddr[r].port) = Addresses[i].port

\* A client is connected to the mailbox it asked for.
RightPeer == \A r \in Relays : peer = <<r, "box">> => Scanning /\ Serves(r, at)

Asked == 1 .. at - 1

Silent == {i \in Asked : answers[i] = {}}

Answers ==
    /\ answers = [i \in DOMAIN Addresses |-> answers[i]]
    /\ \A i \in DOMAIN Addresses : \A a \in answers[i] :
           /\ i \in Asked
           /\ answers[i] = {a}
           /\ \E r \in Relays : a.address = ListenAddr[r] /\ Serves(r, i)

Reported ==
    /\ Len(unreachable) = Cardinality(Silent)
    /\ \A i \in Silent : Addresses[i] \in {unreachable[k] : k \in DOMAIN unreachable}

Entries ==
    /\ topology = [id \in DOMAIN topology |-> topology[id]]
    /\ IsFiniteSet(DOMAIN topology)
    /\ \A id \in DOMAIN topology :
           /\ id \in {RelayId[r] : r \in Relays}
           /\ topology[id].id = id
           /\ \E i \in DOMAIN Addresses : topology[id] \in answers[i]

Entered ==
    \A i \in DOMAIN Addresses : \A a \in answers[i] :
        /\ a.id \in DOMAIN topology
        /\ topology[a.id] = a \/ \E j \in DOMAIN Addresses : Replaces(j, i)

Stage ==
    /\ saved \in {"no", "refused", "writing", "ok", "broken"}
    /\ saved \in {"no", "refused"} => file \in InitialFiles
    /\ saved \in {"writing", "broken"} => file = Truncated
    /\ saved = "ok" => file \in ToJson(topology)
    /\ saved # "no" => ~Scanning

ScanInv == Answers /\ Reported /\ Entries /\ Entered

IInv == Types /\ RightPeer /\ ScanInv /\ Stage

\* The addresses of the list.
LEMMA AddressFacts ==
    /\ Len(Addresses) \in Nat /\ DOMAIN Addresses = 1 .. Len(Addresses)
    /\ \A i \in DOMAIN Addresses : Addresses[i] \in SocketAddrs
  BY DiscoveryAssumption

\* The invariant holds at the start.
LEMMA InitInv == Init => IInv
  <1> SUFFICES ASSUME Init PROVE IInv
    OBVIOUS
  <1>1. Types
    BY AddressFacts DEF Init, Types, Keygen, Failed
  <1>2. RightPeer
    BY DiscoveryAssumption DEF Init, RightPeer
  <1>3. Answers
    BY DEF Init, Answers
  <1>4. Silent = {}
    BY DEF Init, Silent, Asked
  <1>5. Reported
    BY <1>4, FS_EmptySet DEF Init, Reported
  <1>6. DOMAIN topology = {}
    BY DEF Init, NoRelays
  <1>7. topology = [id \in DOMAIN topology |-> topology[id]]
    BY DEF Init, NoRelays
  <1>8. Entries
    BY <1>6, <1>7, FS_EmptySet DEF Entries
  <1>9. Entered
    BY DEF Init, Entered
  <1>10. Stage
    BY DEF Init, Stage
  <1>11. QED
    BY <1>1, <1>2, <1>3, <1>5, <1>8, <1>9, <1>10 DEF IInv, ScanInv

\* Steps outside the scan and the file.
LEMMA RelaySteps ==
    ASSUME IInv, UNCHANGED <<at, topology, unreachable, answers, file, saved, loaded>>,
           main' \in [Relays -> {"down", "binding", "bound"}],
           box' \in [Relays -> {"off", "binding", "bound", "stopped"}],
           key' \in [Relays -> Nat],
           peer' = peer \/ peer' = Gone
    PROVE  IInv'
  <1>1. Types'
    BY DEF IInv, Types
  <1>2. RightPeer'
    <2>1. \A r \in Relays : <<r, "box">> # Gone
      BY DiscoveryAssumption
    <2>2. QED
      BY <2>1 DEF IInv, RightPeer, Scanning, Serves
  <1>3. Silent' = Silent /\ Asked' = Asked
    BY DEF Silent, Asked
  <1>4. ScanInv'
    BY <1>3 DEF IInv, ScanInv, Answers, Reported, Entries, Entered, Replaces, Serves
  <1>5. Stage'
    BY DEF IInv, Stage, Scanning, ToJson
  <1>6. QED
    BY <1>1, <1>2, <1>4, <1>5 DEF IInv

\* Starts, binds, stops and crashes of relays.
LEMMA RelayInv ==
    ASSUME IInv, NEW r \in Relays,
           Start(r) \/ BindMain(r) \/ BindBox(r) \/ BoxStops(r) \/ Stop(r)
    PROVE  IInv'
  <1>1. /\ main \in [Relays -> {"down", "binding", "bound"}]
        /\ box \in [Relays -> {"off", "binding", "bound", "stopped"}]
        /\ key \in [Relays -> Nat]
    BY DEF IInv, Types
  <1>2. CASE Start(r)
    <2>1. UNCHANGED <<peer, at, topology, unreachable, answers, file, saved, loaded>>
      BY <1>2 DEF Start, scanVars, fileVars
    <2>2. key' \in [Relays -> Nat]
      BY <1>1, <1>2 DEF Start, KeyAfterStart, Keygen
    <2>3. /\ main' \in [Relays -> {"down", "binding", "bound"}]
          /\ box' \in [Relays -> {"off", "binding", "bound", "stopped"}]
      BY <1>1, <1>2 DEF Start
    <2>4. QED
      BY <2>1, <2>2, <2>3, RelaySteps
  <1>3. CASE BindMain(r)
    <2>1. UNCHANGED <<key, at, topology, unreachable, answers, file, saved, loaded>>
      BY <1>3 DEF BindMain, fileVars
    <2>2. /\ main' \in [Relays -> {"down", "binding", "bound"}]
          /\ box' \in [Relays -> {"off", "binding", "bound", "stopped"}]
          /\ peer' = peer \/ peer' = Gone
      BY <1>1, <1>3 DEF BindMain, Exits
    <2>3. QED
      BY <1>1, <2>1, <2>2, RelaySteps
  <1>4. CASE BindBox(r)
    <2>1. UNCHANGED <<main, key, peer, at, topology, unreachable, answers, file, saved, loaded>>
      BY <1>4 DEF BindBox, scanVars, fileVars
    <2>2. box' \in [Relays -> {"off", "binding", "bound", "stopped"}]
      BY <1>1, <1>4 DEF BindBox
    <2>3. QED
      BY <1>1, <2>1, <2>2, RelaySteps
  <1>5. CASE BoxStops(r)
    <2>1. UNCHANGED <<main, key, at, topology, unreachable, answers, file, saved, loaded>>
      BY <1>5 DEF BoxStops, fileVars
    <2>2. /\ box' \in [Relays -> {"off", "binding", "bound", "stopped"}]
          /\ peer' = peer \/ peer' = Gone
      BY <1>1, <1>5 DEF BoxStops
    <2>3. QED
      BY <1>1, <2>1, <2>2, RelaySteps
  <1>6. CASE Stop(r)
    <2>1. UNCHANGED <<key, at, topology, unreachable, answers, file, saved, loaded>>
      BY <1>6 DEF Stop, fileVars
    <2>2. /\ main' \in [Relays -> {"down", "binding", "bound"}]
          /\ box' \in [Relays -> {"off", "binding", "bound", "stopped"}]
          /\ peer' = peer \/ peer' = Gone
      BY <1>1, <1>6 DEF Stop, Exits
    <2>3. QED
      BY <1>1, <2>1, <2>2, RelaySteps
  <1>7. QED
    BY <1>2, <1>3, <1>4, <1>5, <1>6

\* describe connects.
LEMMA ConnectInv == ASSUME IInv, Connect PROVE IInv'
  <1>1. /\ Scanning /\ peer = NoPeer /\ peer' \in ListenersAt(Addresses[at])
        /\ UNCHANGED <<main, box, key, at, topology, unreachable, answers, file, saved, loaded>>
    BY DEF Connect, relayVars, fileVars
  <1>2. \E q \in Relays : \/ peer' = <<q, "main">>
                          \/ peer' = <<q, "box">> /\ Serves(q, at)
    <2> DEFINE to == Reached(ScanHost, Addresses[at])
    <2>1. peer' \in Listeners(to.host, to.port) /\ to.port = Addresses[at].port
      BY <1>1, AddressFacts DEF ListenersAt, Reached, SocketAddrs, IInv, Types, Scanning
    <2> HIDE DEF to
    <2>2. QED
      BY <2>1 DEF Listeners, Serves, to
  <1>3. peer' \in Relays \X {"main", "box"}
    BY <1>2
  <1>4. Types'
    BY <1>1, <1>3 DEF IInv, Types
  <1>5. RightPeer'
    <2>1. \A r \in Relays : peer' = <<r, "box">> => Serves(r, at)
      BY <1>2
    <2>2. QED
      BY <1>1, <2>1 DEF RightPeer, Scanning, Serves
  <1>6. Silent' = Silent /\ Asked' = Asked
    BY <1>1 DEF Silent, Asked
  <1>7. ScanInv'
    BY <1>1, <1>6 DEF IInv, ScanInv, Answers, Reported, Entries, Entered, Replaces, Serves
  <1>8. Stage'
    BY <1>1 DEF IInv, Stage, Scanning, ToJson
  <1>9. QED
    BY <1>4, <1>5, <1>7, <1>8 DEF IInv

\* A relay answers, and its identity goes into the topology.
LEMMA DescribeOkInv == ASSUME IInv, DescribeOk PROVE IInv'
  <1>1. PICK r \in Relays :
            /\ peer = <<r, "box">>
            /\ topology' = AddRelay(topology, Identity(r))
            /\ answers' = [answers EXCEPT ![at] = {Identity(r)}]
            /\ peer' = NoPeer
            /\ at' = at + 1
            /\ UNCHANGED <<main, box, key, unreachable, file, saved, loaded>>
    BY DEF DescribeOk, relayVars, fileVars
  <1> DEFINE b == Identity(r)
  <1>2. b.id = RelayId[r] /\ b.address = ListenAddr[r]
    BY DEF Identity
  <1> HIDE DEF b
  <1>3. Scanning /\ Serves(r, at)
    BY <1>1 DEF IInv, RightPeer
  <1>4. at \in DOMAIN Addresses /\ at \in Nat
    BY <1>3, AddressFacts DEF IInv, Types, Scanning
  <1>5. Types'
    BY <1>1, <1>4, AddressFacts DEF IInv, Types
  <1>6. RightPeer'
    BY <1>1, DiscoveryAssumption DEF RightPeer
  <1>7. /\ Asked' = Asked \cup {at} /\ at \notin Asked
        /\ Asked \subseteq DOMAIN Addresses
    BY <1>1, <1>4, AddressFacts DEF Asked
  <1>8. /\ answers' = [i \in DOMAIN Addresses |-> answers'[i]]
        /\ answers'[at] = {b}
        /\ \A i \in DOMAIN Addresses : i # at => answers'[i] = answers[i]
    BY <1>1, <1>4 DEF IInv, ScanInv, Answers, b
  <1>9. Answers'
    <2>1. \A i \in DOMAIN Addresses : \A a \in answers'[i] :
              /\ i \in Asked'
              /\ answers'[i] = {a}
              /\ \E q \in Relays : a.address = ListenAddr[q] /\ Serves(q, i)
      BY <1>2, <1>3, <1>7, <1>8 DEF IInv, ScanInv, Answers
    <2>2. QED
      BY <1>8, <2>1 DEF Answers, Serves
  <1>10. Silent' = Silent
    BY <1>7, <1>8 DEF Silent
  <1>11. Reported'
    BY <1>1, <1>10 DEF IInv, ScanInv, Reported
  <1>12. answers[at] = {}
    BY <1>4, <1>7 DEF IInv, ScanInv, Answers
  <1>13. /\ topology' = [id \in DOMAIN topology' |-> topology'[id]]
         /\ DOMAIN topology' = DOMAIN topology \cup {b.id}
         /\ topology'[b.id] = b
         /\ \A id \in DOMAIN topology : id # b.id => topology'[id] = topology[id]
    BY <1>1 DEF AddRelay, b
  <1>14. Entries'
    <2>1. IsFiniteSet(DOMAIN topology')
      BY <1>13, FS_AddElement DEF IInv, ScanInv, Entries
    <2>2. ASSUME NEW id \in DOMAIN topology'
          PROVE  /\ id \in {RelayId[q] : q \in Relays}
                 /\ topology'[id].id = id
                 /\ \E i \in DOMAIN Addresses : topology'[id] \in answers'[i]
      <3>1. CASE id = b.id
        BY <1>2, <1>4, <1>8, <1>13, <3>1
      <3>2. CASE id # b.id
        <4>1. id \in DOMAIN topology /\ topology'[id] = topology[id]
          BY <1>13, <2>2, <3>2
        <4>2. PICK i \in DOMAIN Addresses : topology[id] \in answers[i]
          BY <4>1 DEF IInv, ScanInv, Entries
        <4>3. i # at
          BY <1>12, <4>2
        <4>4. QED
          BY <1>8, <4>1, <4>2, <4>3 DEF IInv, ScanInv, Entries
      <3>3. QED
        BY <3>1, <3>2
    <2>3. QED
      BY <1>13, <2>1, <2>2 DEF Entries
  <1>15. Entered'
    <2>1. ASSUME NEW i \in DOMAIN Addresses, NEW a \in answers'[i]
          PROVE  /\ a.id \in DOMAIN topology'
                 /\ \/ topology'[a.id] = a
                    \/ \E j \in DOMAIN Addresses :
                          j > i /\ \E x \in answers'[i], y \in answers'[j] : x.id = y.id
      <3>1. CASE i = at
        BY <1>8, <1>13, <2>1, <3>1
      <3>2. CASE i # at
        <4>1. a \in answers[i] /\ answers'[i] = answers[i]
          BY <1>8, <2>1, <3>2
        <4>2. a.id \in DOMAIN topology /\ i \in Asked
          BY <4>1 DEF IInv, ScanInv, Entered, Answers
        <4>3. at > i
          BY <1>4, <4>2 DEF Asked
        <4>4. CASE a.id = b.id
          BY <1>4, <1>8, <1>13, <2>1, <4>2, <4>3, <4>4
        <4>5. CASE a.id # b.id /\ topology[a.id] = a
          BY <1>13, <4>2, <4>5
        <4>6. CASE \E j \in DOMAIN Addresses : Replaces(j, i)
          <5>1. PICK j \in DOMAIN Addresses : Replaces(j, i)
            BY <4>6
          <5>2. PICK x \in answers[i], y \in answers[j] : j > i /\ x.id = y.id
            BY <5>1 DEF Replaces
          <5>3. j # at /\ y \in answers'[j] /\ x \in answers'[i]
            BY <1>8, <1>12, <4>1, <5>2
          <5>4. QED
            BY <1>13, <4>2, <5>2, <5>3
        <4>7. QED
          BY <4>1, <4>4, <4>5, <4>6 DEF IInv, ScanInv, Entered
      <3>3. QED
        BY <3>1, <3>2
    <2>2. QED
      BY <2>1 DEF Entered, Replaces
  <1>16. Stage'
    BY <1>1, <1>3 DEF IInv, Stage, Scanning
  <1>17. QED
    BY <1>5, <1>6, <1>9, <1>11, <1>14, <1>15, <1>16 DEF IInv, ScanInv

\* An address is refused, or its connection breaks.
LEMMA DescribeErrInv == ASSUME IInv, DescribeErr PROVE IInv'
  <1>1. /\ Scanning
        /\ unreachable' = Append(unreachable, Addresses[at])
        /\ peer' = NoPeer
        /\ at' = at + 1
        /\ UNCHANGED <<main, box, key, topology, answers, file, saved, loaded>>
    BY DEF DescribeErr, NextAfterError, relayVars, fileVars
  <1>2. at \in DOMAIN Addresses /\ at \in Nat
    BY <1>1, AddressFacts DEF IInv, Types, Scanning
  <1>3. unreachable \in Seq(SocketAddrs) /\ Addresses[at] \in SocketAddrs
    BY <1>2, AddressFacts DEF IInv, Types
  <1>4. /\ unreachable' \in Seq(SocketAddrs)
        /\ Len(unreachable') = Len(unreachable) + 1
        /\ \A k \in DOMAIN unreachable : k \in DOMAIN unreachable' /\ unreachable'[k] = unreachable[k]
        /\ Len(unreachable) + 1 \in DOMAIN unreachable'
        /\ unreachable'[Len(unreachable) + 1] = Addresses[at]
    BY <1>1, <1>3
  <1>5. Types'
    BY <1>1, <1>2, <1>4, AddressFacts DEF IInv, Types
  <1>6. RightPeer'
    BY <1>1, DiscoveryAssumption DEF RightPeer
  <1>7. Asked' = Asked \cup {at} /\ at \notin Asked
    BY <1>1, <1>2 DEF Asked
  <1>8. answers[at] = {}
    BY <1>2, <1>7 DEF IInv, ScanInv, Answers
  <1>9. Answers' /\ Entries' /\ Entered'
    <2>1. Answers'
      BY <1>1, <1>7 DEF IInv, ScanInv, Answers, Serves
    <2>2. Entries' /\ Entered'
      BY <1>1 DEF IInv, ScanInv, Entries, Entered, Replaces
    <2>3. QED
      BY <2>1, <2>2
  <1>10. Silent' = Silent \cup {at} /\ at \notin Silent
    BY <1>1, <1>7, <1>8 DEF Silent
  <1>11. IsFiniteSet(Silent)
    <2>1. IsFiniteSet(Asked)
      BY <1>2, FS_Interval DEF Asked
    <2>2. QED
      BY <2>1, FS_Subset DEF Silent
  <1>12. Reported'
    <2>1. Len(unreachable') = Cardinality(Silent')
      <3>1. Cardinality(Silent') = Cardinality(Silent) + 1
        BY <1>10, <1>11, FS_AddElement
      <3>2. QED
        BY <1>4, <3>1 DEF IInv, ScanInv, Reported
    <2>2. \A i \in Silent' : Addresses[i] \in {unreachable'[k] : k \in DOMAIN unreachable'}
      <3>1. ASSUME NEW i \in Silent
            PROVE  Addresses[i] \in {unreachable'[k] : k \in DOMAIN unreachable'}
        <4>1. PICK k \in DOMAIN unreachable : Addresses[i] = unreachable[k]
          BY <3>1 DEF IInv, ScanInv, Reported
        <4>2. QED
          BY <1>4, <4>1
      <3>2. QED
        BY <1>4, <1>10, <3>1
    <2>3. QED
      BY <2>1, <2>2 DEF Reported
  <1>13. Stage'
    BY <1>1 DEF IInv, Stage
  <1>14. QED
    BY <1>5, <1>6, <1>9, <1>12, <1>13 DEF IInv, ScanInv

\* save_to_file and load_from_file.
LEMMA FileInv ==
    ASSUME IInv, SaveRefused \/ SaveBegins \/ SaveEnds \/ Load
    PROVE  IInv'
  <1>1. UNCHANGED <<main, box, key, at, peer, topology, unreachable, answers>>
    BY DEF SaveRefused, SaveBegins, SaveEnds, Load, relayVars, scanVars
  <1>2. loaded'.res \in {"none", "ok", "Read", "Parse", "UnsupportedVersion",
                         "InvalidPublicKey"}
    <2>1. CASE Load
      BY <2>1 DEF Load, FromJson, Failed, Unparsed
    <2>2. CASE SaveRefused \/ SaveBegins \/ SaveEnds
      BY <2>2 DEF SaveRefused, SaveBegins, SaveEnds, IInv, Types
    <2>3. QED
      BY <2>1, <2>2
  <1>3. Types'
    BY <1>1, <1>2 DEF IInv, Types
  <1>4. RightPeer'
    BY <1>1 DEF IInv, RightPeer, Scanning, Serves
  <1>5. Silent' = Silent /\ Asked' = Asked
    BY <1>1 DEF Silent, Asked
  <1>6. ScanInv'
    BY <1>1, <1>5 DEF IInv, ScanInv, Answers, Reported, Entries, Entered, Replaces, Serves
  <1>7. ToJson(topology)' = ToJson(topology) /\ (Scanning' <=> Scanning)
    BY <1>1 DEF ToJson, Scanning
  <1>8. Stage'
    <2>1. CASE SaveBegins
      BY <1>7, <2>1 DEF SaveBegins, Stage
    <2>2. CASE SaveEnds
      BY <1>7, <2>2 DEF SaveEnds, IInv, Stage
    <2>3. CASE Load
      BY <1>7, <2>3 DEF Load, IInv, Stage
    <2>4. CASE SaveRefused
      BY <1>7, <2>4 DEF SaveRefused, IInv, Stage
    <2>5. QED
      BY <2>1, <2>2, <2>3, <2>4
  <1>9. QED
    BY <1>3, <1>4, <1>6, <1>8 DEF IInv

\* Every step keeps the invariant.
LEMMA NextInv == IInv /\ [Next]_vars => IInv'
  <1> SUFFICES ASSUME IInv, [Next]_vars PROVE IInv'
    OBVIOUS
  <1>1. ASSUME NEW r \in Relays,
               Start(r) \/ BindMain(r) \/ BindBox(r) \/ BoxStops(r) \/ Stop(r)
        PROVE  IInv'
    BY <1>1, RelayInv
  <1>2. CASE Scan
    BY <1>2, ConnectInv, DescribeOkInv, DescribeErrInv DEF Scan
  <1>3. CASE SaveRefused \/ SaveBegins \/ SaveEnds \/ Load
    BY <1>3, FileInv
  <1>4. CASE UNCHANGED vars
    <2>1. UNCHANGED <<main, box, key, peer, at, topology, unreachable, answers, file, saved, loaded>>
      BY <1>4 DEF vars, relayVars, scanVars, fileVars
    <2>2. QED
      BY <2>1, RelaySteps DEF IInv, Types
  <1>5. QED
    BY <1>1, <1>2, <1>3, <1>4 DEF Next

\* The invariant holds throughout.
LEMMA Invariance == Spec => []IInv
  BY InitInv, NextInv, PTL DEF Spec

------------------------------------------------------------------------------
(***************************************************************************)
(* The variables of the relays' start-up, of the scan and of the file keep *)
(* their types (main.rs, discovery.rs, topology_file.rs).                  *)
(***************************************************************************)
THEOREM DiscoveryTypes == Spec => []TypeOK
  <1>1. IInv => TypeOK
    BY DEF IInv, Types, ScanInv, Entries, TypeOK
  <1>2. QED
    BY <1>1, Invariance, PTL

(***************************************************************************)
(* discover_topology forgets no address, whatever fails and restarts       *)
(* during the scan (discovery.rs).                                         *)
(***************************************************************************)
THEOREM NoAddressForgotten == Spec => []EveryAddressAccounted
  <1>1. ASSUME IInv PROVE EveryAddressAccounted
    <2>1. Len(unreachable) = Cardinality({i \in 1 .. at - 1 : answers[i] = {}})
      BY <1>1 DEF IInv, ScanInv, Reported, Silent, Asked
    <2>2. ASSUME NEW i \in 1 .. at - 1
          PROVE  \/ /\ answers[i] = {}
                    /\ Addresses[i] \in {unreachable[k] : k \in DOMAIN unreachable}
                 \/ \E j \in DOMAIN Addresses : Replaces(j, i)
                 \/ \E a \in answers[i] : a.id \in DOMAIN topology /\ topology[a.id] = a
      <3>1. i \in DOMAIN Addresses
        BY <1>1, AddressFacts DEF IInv, Types
      <3>2. CASE answers[i] = {}
        BY <1>1, <3>2 DEF IInv, ScanInv, Reported, Silent, Asked
      <3>3. CASE answers[i] # {}
        BY <1>1, <3>1, <3>3 DEF IInv, ScanInv, Entered
      <3>4. QED
        BY <3>2, <3>3
    <2>3. QED
      BY <2>1, <2>2 DEF EveryAddressAccounted
  <1>2. QED
    BY <1>1, Invariance, PTL

(***************************************************************************)
(* What the mailbox address that a client derives from the description of  *)
(* a relay leads to (veil-relay main.rs, discovery.rs, veil-cli main.rs):  *)
(* the host and port that answered discovery, unless the relay listens on  *)
(* the wildcard address of another host; then never.  The port survives    *)
(* the scan and the file, also where it wraps.                             *)
(***************************************************************************)
THEOREM PollsAnswered == Spec => []PollsWhereAnswered
  <1>1. ASSUME IInv, loaded.relays = topology, NEW id \in DOMAIN loaded.relays
        PROVE  LET e == loaded.relays[id]
               IN  /\ AnsweredAt(e) # {}
                   /\ \A j \in AnsweredAt(e) :
                          PollsReach(e, j)
                              <=> \/ e.address.host # AnyHost
                                  \/ Reached(ScanHost, Addresses[j]).host = LoadHost
    <2> DEFINE e == loaded.relays[id]
    <2>1. AnsweredAt(e) # {}
      BY <1>1 DEF IInv, ScanInv, Entries, AnsweredAt
    <2>2. ASSUME NEW j \in AnsweredAt(e)
          PROVE  PollsReach(e, j) <=> \/ e.address.host # AnyHost
                                      \/ Reached(ScanHost, Addresses[j]).host = LoadHost
      <3> DEFINE to   == Reached(ScanHost, Addresses[j])
                 from == Reached(LoadHost, MailboxAddressFrom(e.address))
      <3>1. j \in DOMAIN Addresses /\ e \in answers[j]
        BY <2>2 DEF AnsweredAt
      <3>2. PICK r \in Relays : e.address = ListenAddr[r] /\ Serves(r, j)
        BY <1>1, <3>1 DEF IInv, ScanInv, Answers
      <3>3. /\ ListenAddr[r] \in SocketAddrs /\ Addresses[j] \in SocketAddrs
            /\ ListenAddr[r].host \in {Host[r], AnyHost} /\ Host[r] # AnyHost
        BY <3>1, AddressFacts, DiscoveryAssumption
      <3>4. to = [host |-> Host[r], port |-> MailboxPort(ListenAddr[r].port)]
        BY <3>2, <3>3 DEF Serves, Reached, SocketAddrs
      <3>5. from = [host |-> IF ListenAddr[r].host = AnyHost THEN LoadHost ELSE Host[r],
                    port |-> MailboxPort(ListenAddr[r].port)]
        <4>1. MailboxAddressFrom(ListenAddr[r])
                  = [host |-> ListenAddr[r].host, port |-> MailboxPort(ListenAddr[r].port)]
          BY <3>3 DEF MailboxAddressFrom, SocketAddrs
        <4>2. from = Reached(LoadHost, [host |-> ListenAddr[r].host,
                                        port |-> MailboxPort(ListenAddr[r].port)])
          BY <3>2, <4>1
        <4> HIDE DEF from
        <4>3. QED
          BY <3>3, <4>2 DEF Reached
      <3>6. PollsReach(e, j) <=> from = to
        BY DEF PollsReach
      <3> HIDE DEF e, to, from
      <3>7. QED
        BY <3>2, <3>3, <3>4, <3>5, <3>6 DEF to
    <2>3. QED
      BY <2>1, <2>2
  <1>2. IInv => PollsWhereAnswered
    BY <1>1 DEF PollsWhereAnswered
  <1>3. QED
    BY <1>2, Invariance, PTL

------------------------------------------------------------------------------
(***************************************************************************)
(* to_json and from_json.  Whatever order to_json writes the entries of a  *)
(* topology in, the loop of from_json puts the same topology together.     *)
(***************************************************************************)
Less == {ss \in Nat \X Nat : ss[1] < ss[2]}

\* The order of the naturals is well founded.
LEMMA LessWellFounded == IsWellFoundedOn(Less, Nat)
  BY NatLessThanWellFounded, Zenon DEF OpToRel, Less

\* Two functions that start alike and go on alike are the same.
LEMMA SameSteps ==
    ASSUME NEW L \in Nat, NEW f, NEW g, f[0] = g[0],
           \A n \in 1 .. L : f[n - 1] = g[n - 1] => f[n] = g[n]
    PROVE  f[L] = g[L]
  <1> DEFINE T == {n \in 0 .. L : f[n] # g[n]}
  <1> SUFFICES ASSUME f[L] # g[L] PROVE FALSE
    OBVIOUS
  <1>1. T \subseteq Nat /\ L \in T
    OBVIOUS
  <1>2. PICK x \in T : \A y \in T : <<y, x>> \notin Less
    <2> HIDE DEF T
    <2>1. QED
      BY <1>1, LessWellFounded, WFMin
  <1>3. x \in 1 .. L /\ x - 1 \in 0 .. L /\ <<x - 1, x>> \in Less
    BY <1>1, <1>2 DEF Less
  <1>4. f[x - 1] = g[x - 1]
    BY <1>2, <1>3
  <1>5. QED
    BY <1>2, <1>3, <1>4

\* Entries of a topology, each filed under its id, in any order, load as that
\* topology.
LEMMA FromEntriesOfTopology ==
    ASSUME NEW t, t = [id \in DOMAIN t |-> t[id]], IsFiniteSet(DOMAIN t),
           \A id \in DOMAIN t : t[id].id = id,
           NEW s \in SetToSeqs({t[id] : id \in DOMAIN t})
    PROVE  FromEntries(s) = t
  <1> DEFINE E == {t[id] : id \in DOMAIN t}
             L == Cardinality(E)
             First(n) == {s[k].id : k \in 1 .. n}
             Part(n) == [id \in First(n) |-> t[id]]
             h == [n \in 0 .. L |-> Part(n)]
             f == CHOOSE g : g = [n \in 0 .. L |-> IF n = 0 THEN NoRelays
                                                   ELSE AddRelay(g[n - 1], s[n])]
  <1>1. t \in Surjection(DOMAIN t, E)
    BY DEF Surjection
  <1>2. IsFiniteSet(E)
    BY <1>1, FS_Surjection
  <1>3. L \in Nat
    BY <1>2, FS_CardinalityType
  <1>4. s \in [1 .. L -> E] /\ \A i, j \in 1 .. L : i # j => s[i] # s[j]
    BY DEF SetToSeqs
  <1> HIDE DEF E, L
  <1>5. \A e \in E : \E k \in 1 .. L : s[k] = e
    <2>1. s \in Injection(1 .. L, E)
      BY <1>4 DEF Injection, IsInjective
    <2>2. Cardinality(1 .. L) = L
      BY <1>3, FS_Interval, SMT
    <2>3. s \in Surjection(1 .. L, E)
      BY <1>2, <2>1, <2>2, FS_Injection DEF L
    <2>4. QED
      BY <2>3 DEF Surjection
  <1>6. \A k \in 1 .. L : s[k].id \in DOMAIN t /\ t[s[k].id] = s[k]
    BY <1>4 DEF E
  <1>7. Len(s) = L /\ FromEntries(s) = f[L]
    <2>1. Len(s) = L
      BY <1>3, <1>4
    <2>2. QED
      BY <2>1 DEF FromEntries
  <1>8. Part(0) = NoRelays
    <2>1. First(0) = {}
      OBVIOUS
    <2>2. QED
      BY <2>1 DEF NoRelays
  <1>9. ASSUME NEW n \in 1 .. L PROVE Part(n) = AddRelay(Part(n - 1), s[n])
    <2>1. First(n) = First(n - 1) \cup {s[n].id}
      <3>1. 1 .. n = (1 .. n - 1) \cup {n}
        BY <1>3
      <3>2. QED
        BY <3>1
    <2>2. t[s[n].id] = s[n]
      BY <1>6
    <2>3. DOMAIN Part(n - 1) = First(n - 1) /\ \A id \in First(n - 1) : Part(n - 1)[id] = t[id]
      OBVIOUS
    <2>4. Part(n) = [id \in First(n) |-> t[id]]
      OBVIOUS
    <2> HIDE DEF First, Part
    <2>5. QED
      BY <2>1, <2>2, <2>3, <2>4 DEF AddRelay
  <1>10. h = [n \in 0 .. L |-> IF n = 0 THEN NoRelays ELSE AddRelay(h[n - 1], s[n])]
    <2>1. \A n \in 0 .. L : h[n] = Part(n)
      OBVIOUS
    <2>2. h = [n \in 0 .. L |-> h[n]]
      OBVIOUS
    <2>3. \A n \in 0 .. L : n # 0 => n \in 1 .. L /\ n - 1 \in 0 .. L
      BY <1>3
    <2> HIDE DEF h, Part
    <2>4. \A n \in 0 .. L : h[n] = IF n = 0 THEN NoRelays ELSE AddRelay(h[n - 1], s[n])
      BY <1>8, <1>9, <2>1, <2>3
    <2>5. QED
      BY <2>2, <2>4
  <1>11. f = [n \in 0 .. L |-> IF n = 0 THEN NoRelays ELSE AddRelay(f[n - 1], s[n])]
    <2> HIDE DEF h
    <2>1. QED
      BY <1>10
  <1> HIDE DEF f, h
  <1>12. f[L] = h[L]
    <2>1. 0 \in 0 .. L /\ \A n \in 1 .. L : n \in 0 .. L /\ n # 0
      BY <1>3
    <2>2. f[0] = h[0]
      BY <1>10, <1>11, <2>1
    <2>3. \A n \in 1 .. L : /\ f[n] = AddRelay(f[n - 1], s[n])
                            /\ h[n] = AddRelay(h[n - 1], s[n])
      BY <1>10, <1>11, <2>1
    <2>4. QED
      BY <1>3, <2>2, <2>3, SameSteps
  <1>13. First(L) = DOMAIN t
    <2>1. ASSUME NEW id \in DOMAIN t PROVE id \in First(L)
      <3>1. PICK k \in 1 .. L : s[k] = t[id]
        BY <1>5 DEF E
      <3>2. QED
        BY <3>1
    <2>2. First(L) \subseteq DOMAIN t
      BY <1>6
    <2> HIDE DEF First
    <2>3. QED
      BY <2>1, <2>2
  <1>14. h[L] = t
    BY <1>3, <1>13 DEF h
  <1>15. QED
    BY <1>7, <1>12, <1>14

(***************************************************************************)
(* load_from_file returns a whole topology or an error (topology_file.rs): *)
(* one that an operator wrote, as long as fs::write has not truncated the  *)
(* file, or the discovered one, and nothing while fs::write is at work or  *)
(* after it broke off.                                                     *)
(***************************************************************************)
THEOREM FilesLoadWhole == Spec => LoadsWhole
  <1> DEFINE Right ==
        CASE saved \in {"no", "refused"} -> \E f \in InitialFiles : loaded' = FromJson(f)
          [] saved = "ok"               -> loaded'.relays = topology
          [] OTHER                      -> FALSE
  <1>1. ASSUME IInv, Load, loaded'.res = "ok" PROVE Right
    <2>1. loaded' = FromJson(file)
      BY <1>1 DEF Load
    <2>2. CASE saved \in {"no", "refused"}
      BY <1>1, <2>1, <2>2 DEF IInv, Stage
    <2>3. file # Truncated /\ loaded'.relays = FromEntries(file.relays)
      BY <1>1, <2>1 DEF FromJson, Failed, Unparsed
    <2>4. CASE saved \notin {"no", "refused"}
      <3>1. saved = "ok" /\ file \in ToJson(topology)
        BY <1>1, <2>3, <2>4 DEF IInv, Stage
      <3>2. file.relays \in SetToSeqs({topology[id] : id \in DOMAIN topology})
        BY <3>1 DEF ToJson
      <3>3. FromEntries(file.relays) = topology
        BY <1>1, <3>2, FromEntriesOfTopology DEF IInv, ScanInv, Entries
      <3>4. QED
        BY <2>3, <3>1, <3>3
    <2>5. QED
      BY <2>2, <2>4
  <1>2. IInv /\ [Next]_vars => [Load /\ loaded'.res = "ok" => Right]_vars
    BY <1>1
  <1>3. QED
    BY <1>2, Invariance, PTL DEF Spec, LoadsWhole
==============================================================================
