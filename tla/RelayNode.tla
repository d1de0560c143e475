------------------------------ MODULE RelayNode ------------------------------
(***************************************************************************)
(* veil-relay: one relay (node.rs).  The accept loop of RelayNode::run     *)
(* hands each inbound connection a permit and a task; the task runs        *)
(* handle_connection, which reads one frame at a time, peels it and        *)
(* delivers or forwards it.  All tasks share the pool of outbound          *)
(* connections (`outbound`, behind a tokio Mutex) and the streams in it    *)
(* (each behind a Mutex of its own).                                       *)
(*                                                                         *)
(* A step ends where the code may be suspended or overtaken: at an await   *)
(* or at the release of a lock.  A frame stands for its outcome under      *)
(* peel_onion_layer: FrameKind "forward" (to NextHop), "deliver" or "bad". *)
(***************************************************************************)
EXTENDS Naturals, Sequences, FiniteSets

CONSTANTS
    Conns,           \* inbound connections; also names the task of each
    Frames,          \* frames that peers may write
    FrameKind,       \* what peeling the frame yields
    NextHop,         \* next_hop of a forward frame
    Hops,            \* addresses of the next hops
    Streams,         \* names of outbound streams, reused when dropped
    MaxConnections,  \* config.max_connections
    NoConn, NoFrame, NoStream

ASSUME RelayAssumption ==
    /\ IsFiniteSet(Conns)
    /\ Hops # {}
    /\ FrameKind \in [Frames -> {"forward", "deliver", "bad"}]
    /\ NextHop \in [Frames -> Hops]
    /\ MaxConnections \in Nat
    /\ NoConn \notin Conns /\ NoFrame \notin Frames /\ NoStream \notin Streams

VARIABLES
    task,      \* of each connection: pc, and in forward the frame in hand,
               \* the attempt (try) and the stream got from get_or_connect
    inbound,   \* of each connection: unread frames, and is the peer there
    poolLock,  \* task that holds `outbound` across an await
    pool,      \* `outbound`: stream of each hop
    stream,    \* of each stream: its hop, the holder of its lock, its life
               \* ("up", "stale": closed by the hop, or "broken": known to
               \* be) and the length prefixes whose body the hop waits for
    permits,   \* available permits of connection_limiter
    metrics,   \* Metrics
    frame      \* history of each frame: its fate, and the hops it reached

vars == <<task, inbound, poolLock, pool, stream, permits, metrics, frame>>

Forwarding == {"get", "dial", "lock", "wlen", "wbody", "evict"}

Serving == {c \in Conns : task[c].pc \in Forwarding \cup {"read"}}

AtRest(where) == [pc |-> where, hand |-> NoFrame, try |-> 1, conn |-> NoStream]

Init ==
    /\ task = [c \in Conns |-> AtRest("away")]
    /\ inbound = [c \in Conns |-> [queue |-> <<>>, open |-> TRUE]]
    /\ poolLock = NoConn
    /\ pool = [h \in Hops |-> NoStream]
    /\ stream = [s \in Streams |-> [hop |-> CHOOSE h \in Hops : TRUE,
                                    owner |-> NoConn, life |-> "broken",
                                    wire |-> <<>>]]
    /\ permits = MaxConnections
    /\ metrics = [forwarded |-> 0, delivered |-> 0, failures |-> 0, rejected |-> 0]
    /\ frame = [f \in Frames |-> [fate |-> "unsent", hops |-> <<>>]]

At(c, where) == task[c].pc = where

GoTo(c, where) == task' = [task EXCEPT ![c].pc = where]

------------------------------------------------------------------------------
(***************************************************************************)
(* The peers on the inbound side, clients and other relays: they connect,  *)
(* write frames, and close, after a frame or in the middle of one.         *)
(***************************************************************************)
Connect(c) ==
    /\ At(c, "away")
    /\ GoTo(c, "backlog")
    /\ UNCHANGED <<inbound, poolLock, pool, stream, permits, metrics, frame>>

Attached(c) == task[c].pc \notin {"away", "refused", "closed"} /\ inbound[c].open

PeerWrites(c, f) ==
    /\ Attached(c)
    /\ frame[f].fate = "unsent"
    /\ inbound' = [inbound EXCEPT ![c].queue = Append(@, f)]
    /\ frame' = [frame EXCEPT ![f].fate = "queued"]
    /\ UNCHANGED <<task, poolLock, pool, stream, permits, metrics>>

PeerCloses(c) ==
    /\ Attached(c)
    /\ inbound' = [inbound EXCEPT ![c].open = FALSE]
    /\ UNCHANGED <<task, poolLock, pool, stream, permits, metrics, frame>>

(***************************************************************************)
(* A stream no task and no pool entry refers to has been dropped, and its  *)
(* name may stand for a new one.                                           *)
(***************************************************************************)
Dropped(s) == /\ \A c \in Conns : task[c].conn # s
              /\ \A h \in Hops : pool[h] # s

NewStream == CHOOSE s \in Streams : Dropped(s)

(***************************************************************************)
(* The hop at the other end of a stream goes away; writes notice later.    *)
(***************************************************************************)
HopCloses(s) ==
    /\ stream[s].life = "up"
    /\ ~Dropped(s)
    /\ stream' = [stream EXCEPT ![s].life = "stale"]
    /\ UNCHANGED <<task, inbound, poolLock, pool, permits, metrics, frame>>

------------------------------------------------------------------------------
\* Defect: `let _ = permit` gives the permit back before the task runs.
PermitsDropped == permits

(***************************************************************************)
(* The permits left when a task holds one more: `let _permit = permit`.    *)
(***************************************************************************)
PermitsTaken == permits - 1

(***************************************************************************)
(* RelayNode::run: try_acquire_owned, then a task or a refusal.  Frames    *)
(* still unread when a socket is closed are lost with it.                  *)
(***************************************************************************)
Unread(c) == {inbound[c].queue[i] : i \in DOMAIN inbound[c].queue}

Discarded(c) ==
    [f \in Frames |-> IF f \in Unread(c) THEN [frame[f] EXCEPT !.fate = "dropped"]
                      ELSE IF f = task[c].hand
                      THEN [frame[f] EXCEPT !.fate = "failed"] ELSE frame[f]]

Accept(c) ==
    /\ At(c, "backlog")
    /\ permits > 0
    /\ permits' = PermitsTaken
    /\ GoTo(c, "read")
    /\ UNCHANGED <<inbound, poolLock, pool, stream, metrics, frame>>

Reject(c) ==
    /\ At(c, "backlog")
    /\ permits = 0
    /\ GoTo(c, "refused")
    /\ inbound' = [inbound EXCEPT ![c].queue = <<>>]
    /\ frame' = Discarded(c)
    /\ metrics' = [metrics EXCEPT !.rejected = @ + 1]
    /\ UNCHANGED <<poolLock, pool, stream, permits>>

(***************************************************************************)
(* The task returns, with Ok or Err: `_permit` and the socket are dropped. *)
(***************************************************************************)
EndTask(c) ==
    /\ task' = [task EXCEPT ![c] = AtRest("closed")]
    /\ inbound' = [inbound EXCEPT ![c].queue = <<>>]
    /\ permits' = permits + 1
    /\ frame' = Discarded(c)

\* Defect: a failed read is skipped like a frame that does not peel.
ReadEndContinues(c) == At(c, "read") /\ UNCHANGED vars

(***************************************************************************)
(* handle_connection meets the end of the stream and returns: Ok(()) where *)
(* a length prefix should start, Err inside a frame.                       *)
(***************************************************************************)
ReadEnd(c) ==
    /\ At(c, "read")
    /\ inbound[c].queue = <<>>
    /\ ~inbound[c].open
    /\ EndTask(c)
    /\ UNCHANGED <<poolLock, pool, stream, metrics>>

(***************************************************************************)
(* It reads and peels a frame.  One that does not peel is counted and the  *)
(* loop continues; the exit hop sends the body to the delivery channel.    *)
(***************************************************************************)
TakeFrame(c, kind, fate) ==
    /\ At(c, "read")
    /\ inbound[c].queue # <<>>
    /\ FrameKind[Head(inbound[c].queue)] = kind
    /\ inbound' = [inbound EXCEPT ![c].queue = Tail(@)]
    /\ frame' = [frame EXCEPT ![Head(inbound[c].queue)].fate = fate]

ReadBad(c) ==
    /\ TakeFrame(c, "bad", "bad")
    /\ metrics' = [metrics EXCEPT !.failures = @ + 1]
    /\ UNCHANGED <<task, poolLock, pool, stream, permits>>

ReadDeliver(c) ==
    /\ TakeFrame(c, "deliver", "delivered")
    /\ metrics' = [metrics EXCEPT !.delivered = @ + 1]
    /\ UNCHANGED <<task, poolLock, pool, stream, permits>>

ReadForward(c) ==
    /\ TakeFrame(c, "forward", "hand")
    /\ task' = [task EXCEPT ![c].pc = "get", ![c].hand = Head(inbound[c].queue)]
    /\ UNCHANGED <<poolLock, pool, stream, permits, metrics>>

------------------------------------------------------------------------------
Hop(c) == NextHop[task[c].hand]

(***************************************************************************)
(* get_or_connect.  A pooled stream is cloned under the lock; otherwise    *)
(* the lock stays held while TcpStream::connect is awaited.                *)
(***************************************************************************)
GetPooled(c) ==
    /\ At(c, "get")
    /\ poolLock = NoConn
    /\ pool[Hop(c)] # NoStream
    /\ task' = [task EXCEPT ![c].pc = "lock", ![c].conn = pool[Hop(c)]]
    /\ UNCHANGED <<inbound, poolLock, pool, stream, permits, metrics, frame>>

GetMissing(c) ==
    /\ At(c, "get")
    /\ poolLock = NoConn
    /\ pool[Hop(c)] = NoStream
    /\ poolLock' = c
    /\ GoTo(c, "dial")
    /\ UNCHANGED <<inbound, pool, stream, permits, metrics, frame>>

DialOk(c) ==
    /\ At(c, "dial")
    /\ \E s \in Streams : Dropped(s)
    /\ stream' = [stream EXCEPT ![NewStream] = [hop |-> Hop(c), owner |-> NoConn,
                                                life |-> "up", wire |-> <<>>]]
    /\ pool' = [pool EXCEPT ![Hop(c)] = NewStream]
    /\ poolLock' = NoConn
    /\ task' = [task EXCEPT ![c].pc = "lock", ![c].conn = NewStream]
    /\ UNCHANGED <<inbound, permits, metrics, frame>>

DialFails(c) ==
    /\ At(c, "dial")
    /\ poolLock' = NoConn
    /\ EndTask(c)
    /\ UNCHANGED <<pool, stream, metrics>>

------------------------------------------------------------------------------
\* Defect: the stream is written to without its lock.
StreamUnlocked(s) == s \in Streams

(***************************************************************************)
(* forward: lock the stream, then write_frame, which is two write_all      *)
(* calls, the length prefix and the body, under one guard.                 *)
(***************************************************************************)
StreamFree(s) == stream[s].owner = NoConn

LockStream(c) ==
    /\ At(c, "lock")
    /\ StreamFree(task[c].conn)
    /\ stream' = [stream EXCEPT ![task[c].conn].owner = c]
    /\ GoTo(c, "wlen")
    /\ UNCHANGED <<inbound, poolLock, pool, permits, metrics, frame>>

WriteLen(c) ==
    /\ At(c, "wlen")
    /\ stream[task[c].conn].life # "broken"
    /\ stream' = IF stream[task[c].conn].life = "up"
                 THEN [stream EXCEPT ![task[c].conn].wire = Append(@, task[c].hand)]
                 ELSE stream
    /\ GoTo(c, "wbody")
    /\ UNCHANGED <<inbound, poolLock, pool, permits, metrics, frame>>

(***************************************************************************)
(* The body is accepted: a hop that is up and waits for exactly this body  *)
(* has received the frame; a stale stream swallows it without an error.    *)
(***************************************************************************)
Received(c) ==
    LET s == stream[task[c].conn] IN s.life = "up" /\ s.wire = <<task[c].hand>>

\* Defect: the first attempt goes on to the retry although it succeeded.
AfterWriteFallsThrough(c) ==
    IF task[c].try = 1 THEN [task[c] EXCEPT !.pc = "evict"] ELSE AtRest("read")

AfterWrite(c) == AtRest("read")

WriteBody(c) ==
    /\ At(c, "wbody")
    /\ stream[task[c].conn].life # "broken"
    /\ stream' = [stream EXCEPT
                    ![task[c].conn].owner = NoConn,
                    ![task[c].conn].wire = IF Received(c) THEN <<>> ELSE @]
    /\ frame' = [frame EXCEPT
                    ![task[c].hand].fate = "forwarded",
                    ![task[c].hand].hops = IF Received(c)
                        THEN Append(@, stream[task[c].conn].hop) ELSE @]
    /\ metrics' = [metrics EXCEPT !.forwarded = @ + 1]
    /\ task' = [task EXCEPT ![c] = AfterWrite(c)]
    /\ UNCHANGED <<inbound, poolLock, pool, permits>>

\* Defect: the guard of the first attempt outlives it.
BrokenStillLocked(c) == [stream EXCEPT ![task[c].conn].life = "broken"]

(***************************************************************************)
(* Either write_all fails: the stream is unusable from now on.  The first  *)
(* attempt drops the guard and goes on to evict; the second one returns    *)
(* the error, which ends the task and leaves the stream in the pool.       *)
(***************************************************************************)
Broken(c) == [stream EXCEPT ![task[c].conn].life = "broken",
                            ![task[c].conn].owner = NoConn]

WriteFails(c) ==
    /\ task[c].pc \in {"wlen", "wbody"}
    /\ stream[task[c].conn].life # "up"
    /\ stream' = Broken(c)

\* Defect: forward retries for as long as writes fail.
RetriesAlways(c) == c \in Conns

Retries(c) == task[c].try = 1

\* Defect: a failed write is given up without a retry and without an error.
ToReading(c) == [task EXCEPT ![c] = AtRest("read")]

ToEviction(c) == [task EXCEPT ![c].pc = "evict"]

WriteFailsOnce(c) ==
    /\ WriteFails(c)
    /\ Retries(c)
    /\ task' = ToEviction(c)
    /\ UNCHANGED <<inbound, poolLock, pool, permits, metrics, frame>>

WriteFailsTwice(c) ==
    /\ WriteFails(c)
    /\ ~Retries(c)
    /\ EndTask(c)
    /\ UNCHANGED <<poolLock, pool, metrics>>

(***************************************************************************)
(* outbound.lock().remove(next_hop): by key, whatever stream is there.     *)
(* The failed stream itself lives on while any task has a clone of it.     *)
(***************************************************************************)
Evicted(h) == [pool EXCEPT ![h] = NoStream]

Evict(c) ==
    /\ At(c, "evict")
    /\ poolLock = NoConn
    /\ pool' = Evicted(Hop(c))
    /\ task' = [task EXCEPT ![c].pc = "get", ![c].try = 2]
    /\ UNCHANGED <<inbound, poolLock, stream, permits, metrics, frame>>

------------------------------------------------------------------------------
Task(c) == \/ ReadEnd(c) \/ ReadBad(c) \/ ReadDeliver(c) \/ ReadForward(c)
           \/ GetPooled(c) \/ GetMissing(c) \/ DialOk(c) \/ DialFails(c)
           \/ LockStream(c) \/ WriteLen(c) \/ WriteBody(c)
           \/ WriteFailsOnce(c) \/ WriteFailsTwice(c) \/ Evict(c)

Next == \/ \E c \in Conns : \/ Connect(c) \/ PeerCloses(c)
                            \/ \E f \in Frames : PeerWrites(c, f)
                            \/ Accept(c) \/ Reject(c) \/ Task(c)
        \/ \E s \in Streams : HopCloses(s)

Spec == Init /\ [][Next]_vars

(***************************************************************************)
(* A ready task is polled again, a dial and a write come to an end.  A     *)
(* tokio Mutex is handed over in the order of the requests, so a task that *)
(* waits for one gets it even if others keep taking it: strong fairness.   *)
(***************************************************************************)
Fairness == \A c \in Conns : /\ WF_vars(Accept(c) \/ Reject(c))
                             /\ SF_vars(Task(c))

FairSpec == Spec /\ Fairness

------------------------------------------------------------------------------
TaskSet == [pc   : Forwarding \cup {"away", "backlog", "read", "refused", "closed"},
            hand : Frames \cup {NoFrame},
            try  : {1, 2},
            conn : Streams \cup {NoStream}]

InboundSet == [queue : Seq(Frames), open : BOOLEAN]

StreamSet == [hop   : Hops,
              owner : Conns \cup {NoConn},
              life  : {"up", "stale", "broken"},
              wire  : Seq(Frames)]

FrameSet == [fate : {"unsent", "queued", "hand", "bad", "delivered", "forwarded",
                     "failed", "dropped"},
             hops : Seq(Hops)]

MetricsSet == [forwarded : Nat, delivered : Nat, failures : Nat, rejected : Nat]

(***************************************************************************)
(* Type invariant.                                                         *)
(***************************************************************************)
TypeOK ==
    /\ task \in [Conns -> TaskSet]
    /\ inbound \in [Conns -> InboundSet]
    /\ poolLock \in Conns \cup {NoConn}
    /\ pool \in [Hops -> Streams \cup {NoStream}]
    /\ stream \in [Streams -> StreamSet]
    /\ permits \in 0 .. MaxConnections
    /\ metrics \in MetricsSet
    /\ frame \in [Frames -> FrameSet]

(***************************************************************************)
(* No path through handle_connection loses or doubles a permit: the free   *)
(* permits and the running tasks always add up to max_connections.         *)
(***************************************************************************)
PermitsConserved == permits + Cardinality(Serving) = MaxConnections

(***************************************************************************)
(* Frames of different tasks never interleave on a shared stream: a live   *)
(* hop waits for a body only while the task that wrote the length prefix   *)
(* is about to write that very body.                                       *)
(***************************************************************************)
FramesIntact ==
    \A s \in Streams :
        stream[s].life = "up" /\ stream[s].wire # <<>> =>
            \E c \in Conns : /\ At(c, "wbody")
                             /\ task[c].conn = s
                             /\ stream[s].wire = <<task[c].hand>>

(***************************************************************************)
(* The retry of forward never duplicates a frame and the pool never mixes  *)
(* up hops: a frame arrives at most once, at the hop it names, and only if *)
(* the relay counts it as forwarded (a frame whose task gave up with an    *)
(* error has arrived nowhere).                                             *)
(***************************************************************************)
ArrivesOnceOnly ==
    \A f \in Frames :
        frame[f].hops # <<>> =>
            frame[f].hops = <<NextHop[f]>> /\ frame[f].fate = "forwarded"

(***************************************************************************)
(* The locks are taken in one order: a task that waits for the pool, or    *)
(* holds it across a dial, holds no stream; a stream is locked only by a   *)
(* task that is writing to it.                                             *)
(***************************************************************************)
LocksOrdered ==
    /\ \A c \in Conns : poolLock = c => At(c, "dial")
    /\ \A s \in Streams, c \in Conns :
           stream[s].owner = c =>
               task[c].pc \in {"wlen", "wbody"} /\ task[c].conn = s

(***************************************************************************)
(* No frame is forgotten or held twice: one that a peer wrote waits in one *)
(* socket the relay still reads, or is in the hand of one task, or has     *)
(* been counted by one metric, or was lost with its connection.            *)
(***************************************************************************)
WaitingIn(f) ==
    UNION {{<<c, i>> : i \in {j \in DOMAIN inbound[c].queue :
                                 inbound[c].queue[j] = f}} : c \in Conns}

HeldBy(f) == {c \in Conns : task[c].pc \in Forwarding /\ task[c].hand = f}

FramesAccounted ==
    /\ \A f \in Frames :
           /\ Cardinality(WaitingIn(f)) = IF frame[f].fate = "queued" THEN 1 ELSE 0
           /\ Cardinality(HeldBy(f)) = IF frame[f].fate = "hand" THEN 1 ELSE 0
    /\ metrics.forwarded + metrics.delivered + metrics.failures
         = Cardinality({f \in Frames :
                            frame[f].fate \in {"forwarded", "delivered", "bad"}})

(***************************************************************************)
(* Every frame in the hand of a task is eventually dealt with: the task    *)
(* returns to reading or ends, though it shares two kinds of locks with    *)
(* the other tasks and streams die under it.                               *)
(***************************************************************************)
ForwardingEnds ==
    \A c \in Conns :
        task[c].pc \in Forwarding ~> task[c].pc \in {"read", "closed"}

(***************************************************************************)
(* A peer that closes gives its permit back: the relay finishes what it    *)
(* has read and ends the task.                                             *)
(***************************************************************************)
PermitReturns ==
    \A c \in Conns : c \in Serving /\ ~inbound[c].open ~> At(c, "closed")
==============================================================================
