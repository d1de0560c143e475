# ORF-Veil: TLA+ models and proofs

ORF-Veil sends a message as fixed-size *cells*.  Each cell travels over a
random circuit of relays of its own, wrapped in one encryption layer per relay;
the last relay (the exit) keeps it in a mailbox until the recipient, who polls
every relay, pulls, decrypts and reassembles it.  This directory models that
system in TLA+, from `VeilClient::send` to `Receiver::poll` and the command line
around them, checks small instances with TLC and proves the central invariants
with TLAPS for all values of the constants.

Run a configuration with `tlc -config RelayPool.cfg MCRelayNode` (the module of
each configuration is in the table below) and check a proof with
`tlapm ReassemblyProofs.tla`.

## 1. The system

| Part | State it keeps | Operations | What makes it correct |
|---|---|---|---|
| veil-core `cell.rs`, `fragmentation.rs` | none | `fragment_message`, `Cell::new_data`, `new_dummy`, `to_bytes`, `from_bytes` | the number of cells fits a `u16`; only lengths are refused; another version is not read |
| veil-core `crypto/` | a key pair | `diffie_hellman`, `derive_key`, `encrypt_cell`, `decrypt_cell`, `to_hex`, `from_hex` | a box opens for the key it was closed with; a saved key pair is the same one |
| veil-core `reassembly.rs` | `in_flight`: per message id the slots, `received`, `seq_total` | `insert` (pending, complete, mismatch), `evict`, `pending_count` | what is returned is one sent message, whole; nothing is counted twice |
| veil-relay `node.rs` | `outbound` pool (mutex), one mutex per stream, semaphore of permits, metrics | accept loop, `handle_connection`, `forward`, `get_or_connect` | permits and frames are neither lost nor doubled; frames do not mix on a stream; no deadlock |
| veil-relay `forwarding.rs` | none | `peel_onion_layer`, `write_frame`, `read_frame` | a layer opens only for its relay |
| veil-relay `mailbox.rs`, `pull_listener.rs`, pump task of `main.rs` | delivery channel, `queue` | `push`, `drain`, PULL, DESCRIBE | a cell is handed out once |
| veil-relay `main.rs`, `config.rs`, `veil-relay-keygen.rs` | the key pair | loading the config, choice of identity, two binds | a configured secret survives restarts |
| veil-routing `path_selection.rs` | locals of one call | `select_path`, `select_diverse_path` | exact length, no relay twice, networks repeated only when forced |
| veil-routing `lib.rs` | none | `build_circuit` | the cell follows the path and surfaces at its end |
| veil-routing `topology*.rs`, `discovery.rs` | the topology | add, load, save, discover | every live relay of the seed list is known |
| veil-routing `dummy_traffic.rs`, veil-sdk `cover_traffic.rs` | a timer | `next_dummy`, the loop of `spawn`, `abort` | the interval is kept whatever fails; a dummy never reaches a reader |
| veil-sdk `client.rs` | the topology, `hop_count` | `send` | the circuits reported are the ones used; an error leaves no complete message |
| veil-sdk `receiver.rs` | a `Reassembler` | `receive`, `Receiver::poll` | a cell is taken once, a message returned once, when it is complete |
| veil-sdk `session.rs`, `envelope.rs` | the key of a session | `establish`, `wrap`, `unwrap` | only the recipient opens a cell |
| veil-cli | none | `run_self_hosted`, `run_external`, `send_and_receive` | it ends if its peers answer, and prints what reached its mailboxes |

How they interact: `send` calls `fragment_message`, then for each cell
`select_diverse_path` and `build_circuit`, and writes the onion to the first
relay.  A relay runs one task per inbound connection; the tasks share the pool
and its streams.  The exit's task sends the cell down a channel, a pump task
moves it to the mailbox, and the pull listener drains the mailbox to whichever
client asks.  The receiver goes through the relays one after the other, and a
failure of any pull ends its call.

What is hard: tasks of a relay interleave between taking the pool lock, dialling,
locking a stream and the two writes of a frame; streams die unnoticed; a write
is retried; `send` and `receive` can fail half-way; several clients drain the
same mailboxes; cells arrive in any order, repeatedly or not at all; relays
restart with a new key and an empty mailbox; connections between relays fill up.
`PROJECT.json` lists these hazards with their lines and the properties aimed at
them.

## 2. The modules

`Cells` – fragmentation as arithmetic: a cell is the message id, the position,
the number of cells and the range of bytes it carries.  The 16-bit fields are
kept as `% (SeqMax + 1)`, so a wrap would show.  `MAX_MESSAGE_SIZE` is
`Capacity * SeqMax`.

`Reassembler` – `insert` and `evict` as operators on the map `in_flight`:
`Mismatched`, `Completes`, `Inserted` and `Message` follow the code's
comparison, counter and `remove`.  Used by the next two modules.

`Reassembly` – messages are fragmented, the fabric reorders, loses and repeats
their cells, and one reassembler puts them together.  One action per result of
`insert`.

`RelayNode` – one relay.  `task[c]` is the program counter of the task of
connection `c`; a step ends at an await or at the release of a lock:

| Action | Code (`node.rs` unless said otherwise) |
|---|---|
| `Connect`, `PeerWrites`, `PeerCloses` | the peers on the inbound side |
| `Accept`, `Reject` | `try_acquire_owned` in the accept loop |
| `ReadForward`, `ReadDeliver`, `ReadBad`, `ReadEnd` | the reads, `peel_onion_layer` and the match in `handle_connection` |
| `GetPooled`, `GetMissing`, `DialOk`, `DialFails` | `get_or_connect`, which keeps the pool lock while it dials |
| `LockStream` | `lock().await` on the pooled stream |
| `WriteLen`, `WriteBody` | the two `write_all` of `write_frame` (`forwarding.rs`) |
| `WriteFailsOnce`, `WriteFailsTwice` | an error of either, in the first and in the second attempt |
| `Evict` | `remove(next_hop)` and the start of the second attempt |
| `HopCloses` | the next hop goes away; a write to the stale stream may still succeed until one fails |

`BackPressure` – several relays of the same kind whose connections hold a bounded
number of frames.  A task is named by what it reads from (a client's frame or the
link from another relay), has at most one frame in its hand, and keeps the lock of
the outgoing stream while `write_frame` waits for room.  It is kept apart from
`RelayNode` because the two ask different questions: there one relay and
connections that fail, here many relays and connections that are full.

`Envelopes` – what is inside a frame when it leaves the fabric: sessions and their
keys, `to_bytes`, `encrypt_cell`, `wrap`, and on the other side `unwrap`,
`decrypt_cell` and the checks of `from_bytes`.  Cryptography is ideal: an exchange
is the set of its two key pairs, a key is the exchange and the context string, and a
box has the key it was closed with.  So a dummy is not *declared* unreadable: it is
closed with a key that no exchange yields.

`Delivery` – channels, pump, mailboxes, pulls and `Receiver::poll`.  A pull can
fail before the request, while it waits and while it reads the reply; a client
that goes away after its request leaves an *orphan* which may still drain the
mailbox (`orphans` counts them per relay); a relay that restarts loses its channel,
its mailbox and its requests, and cuts off the polls that wait for its reply and any
that are reading one (`CutOff`).

`Handover` – the abstract specification of `Delivery`: each part of a message is in
one place (the fabric, a mailbox, a user's hands, a user's store, or lost), moves
only forward, and the part that makes a message complete returns it.  There are no
relays, connections, polls or reassemblers in it.  `Delivery!ImplementsHandover` is
the refinement; `PlaceOf` is the mapping: a cell is *kept* once it is inserted,
*held* while it is in a reply or in `decrypted`, *queued* in a channel or a mailbox,
and otherwise lost.

`Paths`, `PathSelection` – the first states what a diverse path is in terms of
the shuffled order (the relays whose network no earlier one has, then the others,
cut at the hop count), with `subnet_key` and the wider set that `select_path` may
return; the second runs the two loops of `select_diverse_path` step by step for
every topology, hop count and shuffle.

`Sending` – the loop of `VeilClient::send`, `build_circuit`, the task of
`spawn_cover_traffic` and relays that peel and pass on, with frames that get lost
and relays that restart.  A path is any member of `Paths!DiversePaths`, which
`LoopsMatchReference` proves to be what the loops produce.  A send that fails drops the
exits it has collected (`GivenUp`: `?` returns before `sent` does), while the cells
that left travel on.  A layer opens with the key
that the relay derives from its *present* key pair, so a restart without a
configured secret shows as frames that no longer peel.

`EndToEnd` – `Sending` and `Delivery` composed: it extends `Delivery` and instantiates
`Sending`, so the whole is called `System` (`SystemInit`, `SystemNext`).  They share two
steps: the exit relay's delivery (`PeelDeliver` of one, `Exit` of the other) and the
restart of a relay (`RestartRelay`).  On top runs either an application with a `VeilClient` and a `Receiver` or one
run of `veil-cli` in either mode, including its panics and exit codes.

`Discovery` – relays that start, bind their two ports, stop and restart; the scan
of `discover_topology`; saving, loading and the mailbox addresses the command line
derives.  The two binds of a relay are separate steps, because they are made by
different tasks: the listen port decides whether the process lives, the mailbox
port only whether it can be polled.  A config file may be unreadable, without a
secret, or have a valid or an invalid one.  An address is a host and a port: a relay
reports its `listen_addr` as configured, so one that listens on the wildcard reports
the wildcard, and whoever connects to that reaches the host he is on (`Reached`).  The
client that loads the file may run on another host than the scan, and in a build of its
own: each process is built with checked additions, which panic, or without, which wrap.
`fs::write` may fail at open, with the old file intact (`SaveRefused`), or later, with
the file cut short (`SaveEnds`).

`MC…` modules only give constants their values.  `…Proofs` modules hold
theorems; `CellLemmas` has the facts about cells, stored fragments and filtered
sequences that several of them use.

### What is abstracted

* Bytes.  A chunk is its message and its range of bytes; a serialized cell, an
  envelope and an onion are records; nonces, tags and padding do not occur, only the
  lengths that the code compares.
* A frame in `RelayNode` is its outcome under peeling.
* Names of streams are reused once neither the pool nor a task refers to them.
* Histories (`frame`, `arrivals`, `returned`, `route`, `visits`, `surfaced`,
  `inserted`, …) are written, never read, by the actions that model code; the
  environment reads some to send each frame or cell only once.

## 3. The runs

| Run | Module, configuration | Instance | What it shows |
|---|---|---|---|
| `reassembly` | `MCReassembly` | chunks of 2 bytes, sequence fields up to 3; five messages: one of exactly the maximal length, one with the same id and another number of cells, one of one cell, an empty and an oversized one; 1 repeated cell | integrity, exact counter, no index out of bounds, no replay, nothing left behind, refusals only for length |
| `relay_pool` | `MCRelayNode`, `RelayPool` | 3 connections for 2 permits; two frames for one hop, one to deliver, one that does not peel; 3 streams | frames never mix, arrive at most once and only at their hop, locks are taken in one order, permits and frames are accounted for on every way out |
| `relay_live` | `MCRelayNode`, `RelayLive` | 2 connections, 2 frames for one hop | forwarding ends; a permit returns after the peer has closed |
| `back_pressure` | `MCBackPressure`, `BackPressure` | 3 relays, 6 frames, connections that hold 1; circuits all around a ring, or crossing | relays block each other in a circle of full links and in no other way; without one every frame drains |
| `delivery_shared` | `MCDelivery`, `DeliveryShared` | 2 relays, 2 identities that poll (one both relays, one the second), 1 failed pull or restart; a message of two cells, a cell of a newer version, a dummy | `Delivery` implements `Handover`; a reader gets only whole messages of its own |
| `path_selection` | `MCPathSelection`, `PathSelection` | every topology of 5 relays (two pairs in one network each, one of unknown network), 0 to 6 hops, every shuffle | exact paths, networks repeated only when forced, loops equal to the reference |
| `sending` | `MCSending`, `Sending` | 3 relays, two in one network, 3 hops, a message of two cells and a dummy, a topology too small, three interval settings (in half milliseconds: one that leaves room, one reversed, one of less than a millisecond), 2 faults | circuits are followed, exits are as reported unless the send failed, restarts harm only relays without a configured secret, cover traffic keeps its interval |
| `end_to_end` | `MCEndToEnd`, `EndToEnd` | 2 relays, a message of two cells, 1 and 2 hops, topologies of 0 to 2 relays, 2 faults of any kind; an application or `veil-cli` | what was sent is returned if pulls are answered, what failed is not, `veil-cli` prints exactly what reached its mailboxes and ends, unless one peer never answers it |
| `discovery` | `MCDiscovery`, `Discovery` | 4 relays on 2 hosts, two with the same port (one of them on the wildcard address), some with the same id, one whose mailbox port wraps, one with an invalid secret; relays with checked additions or without, and the client like them or not; 3 addresses, one of them asked again through the wildcard; 3 starts, 2 stops; the file loaded on the other host; files that are absent, malformed or hand-written | every address is accounted for, the scan ends, a file is loaded whole or not at all, and which relays a client polls where discovery got its answer: those that listen on an address of their own, and those on its own host |
| `delivery_failed_pull` | `MCDelivery`, `DeliveryFailedPull` | 1 identity, 1 failed pull | *violation*, see below |
| `cli_fragments` | `MCEndToEnd`, `CliFragments` | no fault at all | *violation* |
| `discovery_stall` | `MCDiscovery`, `DiscoveryStall` | a listen port among the addresses | *violation* |

### Why the bounds are enough

* Two tasks suffice for every race on a pool entry and on a stream: a third one
  could only repeat what the second does.  Three connections for two permits
  reach the limit and free a permit while another connection waits.
* Streams: with two tasks served at a time and one hop, a dial never lacks a name.
* Six frames and buffers of one fill a ring of three links and the hands of their
  readers, the least a circular wait takes; TLC reaches one.
* `Capacity = 2` and `SeqMax = 3` give full and short last cells, messages of
  one, two and the maximal number of cells, and lengths just past both limits.
* `MaxDups = 1`: a repeated cell can come before completion (ignored), after
  completion (opens an entry that nothing closes) and into a mismatch.
* `MaxFails = 1`: a failed pull before, between and after the drains of two
  mailboxes, including one whose request was already sent, or a restart at any of
  these times.
* `MaxTroubles = 2` in `EndToEnd`: two faults in a behaviour, of any kind and in either
  half; without faults (0) in `cli_fragments`.
* `MaxFaults = 2`: a loss and a restart, two of either, in any order.
* Five relays and up to six hops: enough to make the first pass run past the hop
  count, to force repetitions, and to ask for more hops than there are.
* `discovery`: the two relays on one port can win one port each, so that one runs
  without a mailbox and the other exits; an address asked again can be answered by
  a restarted relay or by the other one.  A relay on the client's host and one that is
  not both listen on the wildcard, one listens on its own address, and a release relay
  with a wrapped port meets a client of either build.

### Fairness

* `RelayNode`: weak fairness of the accept loop, strong fairness of each task.
  A tokio `Mutex` is FIFO, so a task that waits for it gets it even when others
  take it again and again.  A dial and a write are assumed to end, that is, the
  next hop keeps reading; `BackPressure` drops that assumption.  Peers need not
  connect, write or close.
* `BackPressure`: some task that can read, lock or write does so.  No client has to
  send.
* `EndToEnd`: what waits for nobody goes on: relays read their sockets, the pump task
  runs, an application polls again and again, as the comment on `Mailbox::drain`
  expects, and `veil-cli` takes its own steps.  Nothing makes a peer answer: `connect`,
  `write_frame` and `pull` have no timeout, so a cell being sent (`SendOut`) and a pull
  (`Pull`) may wait for ever, as they do at an address like the one of
  `discovery_stall`.  `EventuallyReturned` states as its hypothesis that pulls are
  answered, by the relay or by an error (`PullsAnswered`); `CliEnds` needs none and says
  instead that one such wait is the only thing that keeps `veil-cli` from its end.  No
  application has to send, one that has begun need not go on, and no fault has to happen.
* `Discovery`: the client runs and a mailbox listener answers what it accepted.
  Relays need not start or stop.

`Sending` and `Delivery` are checked for safety; their liveness is that of `EndToEnd`.

### Where code and documents disagree

1. `delivery_failed_pull` – `receive` returns on the first pull that fails
   (`receiver.rs:40`) and drops the cells it has already taken out of other
   mailboxes and decrypted.  The comment on `Receiver` says that fragments
   accumulate until a message is complete.
2. `cli_fragments` – `veil-cli` receives once, 300 ms after sending
   (`main.rs:213`), and prints every cell as a payload of its own, so a message of
   several cells comes out in pieces, in the order of the mailboxes, or incomplete,
   and the exit code is 0.  The program prints "fragments took independent paths by
   design — receive polls every relay, so this is still fine" (`main.rs:210`).
   `CliOutput` is what does hold.
3. `discovery_stall` – `describe` has no timeout (`discovery.rs:35`), so an
   address that accepts and stays silent, such as a listen port given by mistake,
   stops the scan, although unreachable relays are meant to be collected "rather
   than aborting the whole scan".

4. `sending` – `docs/ARCHITECTURE.md:143-146` says that "every relay generates a fresh
   ephemeral keypair on startup (`static_secret_hex` loading is a stub)" and that a
   restarted relay is a different identity.  `main.rs:28-34` loads the configured
   secret; `PersistentRelaysPeel` shows the opposite of the document for such a
   relay: it never turns frames away, however often it restarts.  For a relay without
   a secret the document is right.

Noticed while modelling, without a run of their own:

* `docs/ARCHITECTURE.md:136-142` lists two more things as missing that the code has:
  a receiving client (`receiver.rs`, `pull_listener.rs`, modelled in `Delivery`) and
  the scheduling of cover traffic (`cover_traffic.rs`, modelled in `Sending`).
* A relay describes itself with `listen_addr` (`main.rs:45`).  The relays of
  `docker/config/` listen on `0.0.0.0:9001`, so a topology discovered from them has
  `0.0.0.0:9001` for each, which clients and previous hops on other hosts would dial at
  their own host.  The containers come with a topology file of service names instead
  (`topology/local-docker.json`).  `PollsWhereAnswered` says for which relays a
  discovered topology works.
* A client built with checked additions panics on the entry of a relay whose mailbox
  port wraps (`veil-cli` `main.rs:182`), although a release build of that relay serves
  it (`DerivePanics`).
* A frame for a full hop holds up all frames behind it on the same inbound connection,
  also those for other hops: `handle_connection` waits for `forward` before it reads on
  (`node.rs:125`).
* Eviction is by address (`node.rs:146`), so a task that noticed a stale stream
  late removes the fresh one another task has dialled in the meantime.  Nothing is
  lost (`ArrivesOnceOnly` and `FramesIntact` hold); a connection is wasted.
* A mailbox gives its cells to whoever asks first and forgets them (`mailbox.rs:40`),
  so polls of different identities take each other's cells for good.  The module
  comment calls a pull by others safe; it is so for secrecy only.  `Handover!Take`
  and `Handover!Lose` allow it.
* Relays that forward to each other in a ring can block each other for good: the task
  that waits to write is the one that would read (`node.rs:140`), and no timeout ends
  it.  `CircularWait` in `BackPressure` is reachable.
* ARCHITECTURE.md:103-105 concludes from a fresh path per cell that no relay sees
  more than one fragment of a message.  The draws are independent (`client.rs:74`):
  with three relays and three hops each relay sees every fragment.
* `config.rs:20-21` still calls `max_connections` "not yet enforced";
  `RelayNode!Reject` is where it is.
* `main.rs:64` only logs that the mailbox port could not be bound; the relay goes
  on delivering into a mailbox that nobody can pull.

## 4. The proofs

Each theorem says that `Spec` (`System` for `EndToEnd`) implies the property always (or the action property,
or the refinement), for every value of the constants that the assumptions allow.

| Module | Theorem: property |
|---|---|
| `ReassemblyProofs` | `TypeCorrect`: `TypeOK`; `CounterIsExact`: `CounterExact`; `NeverOutOfBounds`: `IndexInBounds`; `ReassemblyIntegrity`: `Integrity`; `RefusalsAreLengths`: `RefusedOnlyForLength`; `NothingIsReplayed`: `NoReplay`; `WhatArrivedIsReturned`: `ArrivedMeansReturned`; `NothingIsLeft`: `NoResidue`; `FragmentsAreKept`: `FragmentsStick` |
| `RelayNodeProofs` | `TypeCorrect`: `TypeOK`; `PermitsAreConserved`: `PermitsConserved`; `LocksAreOrdered`: `LocksOrdered`; `FramesAreIntact`: `FramesIntact`; `FramesArriveOnce`: `ArrivesOnceOnly`; `FramesAreAccounted`: `FramesAccounted` |
| `BackPressureProofs` | `OnlyCirclesBlock`: `StuckOnlyInCircle` |
| `DeliveryProofs` | `DeliveryTypes`: `TypeOK`; `ReturnsOwnWhole`: `OnlyOwnWhole`; `DeliveryHandsOver`: `ImplementsHandover`; about `EndToEnd`, `OnlySentIsReturned`: `ReturnedWasSent`; `CliPrintsWhatArrived`: `CliOutput` |
| `PathSelectionProofs` | `TypeCorrect`: `TypeOK`; `PathIsExact`: `ExactPath`; `RepeatsAreForced`: `RepeatsOnlyIfForced`; `LoopsMatchReference`: `MatchesReference` |
| `SendingProofs` | `SendingTypes`: `TypeOK`; `CircuitsAreFollowed`: `CircuitFollowed`; `ExitsAreAsReported`: `ExitAsReported`; `PersistentRelaysStay`: `PersistentRelaysPeel`; `CoverKeepsInterval`: `CoverInterval` |
| `DiscoveryProofs` | `DiscoveryTypes`: `TypeOK`; `NoAddressForgotten`: `EveryAddressAccounted`; `PollsAnswered`: `PollsWhereAnswered`; `FilesLoadWhole`: `LoadsWhole` |

**Reassembly.**  Assumed: `Capacity` and `SeqMax` are positive, and two messages
that share an id differ in their number of cells (ids are 16 random bytes; this
is the case that `MismatchedMessageId` detects).  `Integrity` speaks about
outputs only and is not inductive.  `IInv` adds: a message counted as fragmented
has an acceptable length (`OutcomeInv`), only cells of such messages are on their
way (`NetInv`), and every entry of `in_flight` belongs to one such message, its
filled slots hold that message's cells, `received` is their number and is less
than the total (`StoreInv`).  The key step is `EntryIsOwn`: a cell that passes
the comparison of `seq_total` meets an entry of its own message.  Lemmas on
ceiling division show that the cast to 16 bits loses nothing.

The properties that compare arrivals with returns need an account of every cell:
the times it arrived are at least the times its message was returned, plus one if
it fills a slot (`ReplayInv`); nothing arrived of a message that was not fragmented
(`FreshInv`), and without repetitions nothing that is still on its way (`OnceInv`); a
cell that arrived is in its slot, or its message was returned, evicted or shares its
id (`ArrivedInv`).  `NoReplay` follows from the first, `ArrivedMeansReturned` from the
last because an entry with every slot filled does not exist.

**RelayNode.**  Assumed: finitely many connections.  `PermitsConserved` needs the
types and `TaskShape` (a task that forwards has a frame, one that writes has a
stream); the lemmas on `Serving` say how a step that moves one task in or out of
`handle_connection` changes its cardinality.

On top of these, `StreamInv` makes the locks and the wire inductive.
`LocksOrdered` says that an owner writes to what it owns; `Held` adds the converse, a
task that writes owns its stream.  Together they make writing exclusive
(`Exclusive`), so the wire is empty before a length prefix and holds the writer's own
prefix before the body.  A dial is harmless because it takes a name no task refers
to, and a failed write because the stream it leaves is broken.

`FrameInv` follows a frame through the relay: it is in one inbound queue
(`QueueInv`), in the hand of one task (`HandInv`) or settled, and a settled frame is
in nobody's queue or hand, so no retry can write it again.  That it arrives at its
own hop also needs `RouteInv`: a pooled stream leads to the hop it is filed under,
and a task writes to a stream of its frame's hop, even if the pool has changed since
it looked.  The sum of the counters is the number of settled frames (`CountInv`).

**BackPressure.**  Assumed: no circuit passes a relay twice, which `PathIsExact`
proves of the paths the client selects.  `IInv` says that a frame in transit is in a
task's hand or in the queue of the link it is to be read from (`Hands`, `Queues`,
`Somewhere`) and that the holder of a lock has a frame for that link (`Locks`).  In a
state where no task moves, the reader of every full link holds a frame and waits for
another full link; the set of these links is closed under waiting, which is the
circle.

**Delivery.**  Assumed: ids of messages differ, and every message is one that
`fragment_message` accepts.  `Sites` are all the places a cell can be: channels,
mailboxes, replies, the `decrypted` vectors of polls and what was inserted.
`IInv` states that a site has only cells that left the fabric (`Known`), that no two
sites share one (`Apart`) and none has one twice (`NoRepeats`), that after decryption
only cells for that reader remain (`OwnOnly`), and that the entries of a reassembler
are exactly what the inserted cells amount to (`Stores`, by `StoreOk`): a message
with some but not all of its cells inserted has an entry with those.  Hence the cell
that completes an entry is the last one of its message, and a message is returned
once.  For the refinement the mapping is written with functions (`Places`, `Held`,
`Queue`), `PlaceFacts` relates them to the sites, and each action is matched with
its step of `Handover`: an exit with `Surface`, a drain with `Take`, an insertion
with `Keep`, a failed poll, cells that do not decrypt, an orphan's drain or a restart
with `Lose`, the others with no step.

**EndToEnd.**  Assumed: what `Sending` and `Delivery` assume, finitely many relays, and
that `veil-cli` sends a data message to the identity it polls for, as it does.
`SystemInv` is the invariant of `Delivery`, the one of `Sending` (through
`SP == INSTANCE SendingProofs`; `SenderStep` shows that the sender's half takes steps of
`Sending` only) and what links the two.  `Launched`: a cell that left the fabric was
given a path.  `Earned`: a message was returned for cells that are all inserted.
`Unfinished`: a send that failed has cells left.  So a returned message has a path for
every cell, by `Unsent` its send has none left to do, and by `Unfinished` it did not
fail.  This would break if a frame were complete when its error is reported.

For `CliOutput`, `CliAlone` says that while `veil-cli` runs only its message has paths
and only its user receives, without a `Receiver`; `EmptyHands` that nothing is kept
between two calls of `receive`.  `CliDrained` is the accounting: unless a pull failed or
a relay restarted, every cell that left the fabric waits in a queue, is in the hands of
the user or is printed.  A step may move a cell only from one of these to the next;
decryption drops none because all of them are for that user.  `CliPrinted` says that a
printed cell is in no queue, which follows from `Apart` when `receive` returns.

**PathSelection.**  Assumed: finitely many relays.  `IInv` states how the
shuffled order splits, at every step, into what is in the path, what is set aside
and what is still to come, without repetition (`Split`); that `used` is the set of
networks in the path during the first pass (`Networks`); and that repetitions
enter the path only when the first pass is over (`RepeatsLate`).  From these it
follows that the final cut gives exactly `hop_count` relays, and that whatever was
left out repeats a network if anything in the path does.

For `MatchesReference`, `Matches` says what the loops have computed after `k` relays
of the order: the path is the part of the first `k` that repeats no network and the
leftover the part that does (`PassMatches`); in the second pass path and leftover
together are the whole reference (`FillMatches`).  `Kept` names the intermediate
values of the recursive function in `Paths!Chosen`, `KeptSteps` how one follows from
the one before, and `TogetherShuffle` shows that the two parts are again a shuffle,
so that the result is one `select_path` might return.

**Sending.**  Assumed: a dummy is one cell, as `new_dummy` makes it; cryptography is
ideal.  `Layers` describes the onion of a path from the inside out, and `LayersExist`
shows that the recursion in `build_circuit` yields it.  `IInv` states that a frame on
its way has the rest of the layers of its cell's route and is addressed to the relay
after those that have peeled it (`Frames`, `Follow`), that a cell has at most one
frame (`OneFrame`), that cells not yet reached by `send` have no route (`Unsent`), and
that the exits a send that has not failed has collected so far are the last relays of
the routes (`Reports`).
`Identities` says that only relays without a configured secret have changed their key
pair, and `Drawn` that the delay was drawn from one of the intervals.

**Discovery.**  Assumed: the values that stand for no peer and for a closed one differ from
each other and from listeners.  `IInv` relates the scan to what it was told: an address asked was
answered or is among the unreachable (`Answers`, `Reported`), an entry of the
topology is the last answer with its id and every answer is entered or replaced
(`Entries`, `Entered`), and a connection to a mailbox listener leads to a relay that
runs on the host, and has the mailbox port, that was asked for (`RightPeer`).  A relay
listens on its own host's address or on the wildcard; this is what turns the host that
answered into the condition of `PollsWhereAnswered`.  `Stage` says what the file holds
before, while and after it is saved, or if saving was refused.
`FromEntriesOfTopology` shows that loading the entries of a saved topology gives
that topology back.

**Induction over data.**  The recursive functions of `Sending` and `Delivery`
are handled by `Induction` of `CellLemmas`, which is about a set of
naturals instead of a predicate: the set has 0 and every successor, so it has them
all, because a set that misses some misses a least one (`Smallest`).  `Paths` and
`Discovery` use the well-foundedness of `<` directly.

Only model-checked: liveness (`ForwardingEnds`, `PermitReturns`, `FramesDrain`,
`EventuallyReturned`, `CliEnds`, `ScanEnds`), which the proof system does not
handle under fairness.  Every invariant and every action property of the passing runs
is proved.

## 5. Not modelled

* The arithmetic of the cryptography, nonces, the wiping of secrets, byte layouts
  and error texts.
* Time.  A sleep ends at some point; the 300 ms of `veil-cli` may be too short.
  How often two cells of a message share a relay is a matter of chance, not of
  reachable states.
* A connection that stays open and silent keeps its permit for ever; there is no
  idle timeout to model, and `PermitReturns` speaks of peers that close.
* Cover traffic in `EndToEnd`: the task is in `Sending`, its dummies in `Delivery`.
* Connection failures in `BackPressure`.
* Names that hosts resolve to different addresses, and hosts with several, in
  `Discovery`; circuits through relays whose reported address is a wildcard in `Sending`.
* Mailboxes that are not served (`main.rs:64`) are in `Discovery` only.
* Metrics logging, containers, scripts and benchmarks.

## 6. Plan

Done: `Cells`, `Reassembler`, `Reassembly` → `RelayNode` → `Envelopes`, `Delivery`,
`Handover` → `Paths`, `PathSelection` → `Sending` → `Discovery` → `EndToEnd` →
`BackPressure`, and the proofs above.  Nothing of it is left.  When the code changes,
the places to look at first are the findings of section 3: a timeout in `describe`, a
`receive` that keeps what it has decrypted, and a `Receiver` in `veil-cli` would each
turn a run that expects a violation into one that passes.
