--------------------------- MODULE RelayNodeProofs ---------------------------
(***************************************************************************)
(* Proofs about RelayNode, for any number of connections, frames, hops,    *)
(* streams and permits.                                                    *)
(***************************************************************************)
EXTENDS RelayNode, Integers, FiniteSetTheorems, TLAPS

(***************************************************************************)
(* The inductive invariant.  In forward a task has a frame in hand, and    *)
(* from the first get_or_connect on a stream; free permits and running     *)
(* tasks add up, which is what bounds the permits.                         *)
(***************************************************************************)
Types ==
    /\ task \in [Conns -> TaskSet]
    /\ inbound \in [Conns -> InboundSet]
    /\ poolLock \in Conns \cup {NoConn}
    /\ pool \in [Hops -> Streams \cup {NoStream}]
    /\ stream \in [Streams -> StreamSet]
    /\ metrics \in MetricsSet
    /\ frame \in [Frames -> FrameSet]

TaskShape ==
    \A c \in Conns :
        /\ task[c].pc \in Forwarding => task[c].hand \in Frames
        /\ task[c].pc \in {"lock", "wlen", "wbody", "evict"}
               => task[c].conn \in Streams

PermitInv == permits \in Nat /\ PermitsConserved

Typed == Types /\ TaskShape

IInv == Typed /\ PermitInv

------------------------------------------------------------------------------
(***************************************************************************)
(* Types and shape, action by action.                                      *)
(***************************************************************************)

\* The types hold when the relay starts.
LEMMA InitTyped == Init => Typed
  <1> SUFFICES ASSUME Init PROVE Typed
    OBVIOUS
  <1>1. (CHOOSE h \in Hops : TRUE) \in Hops
    BY RelayAssumption
  <1>2. stream \in [Streams -> StreamSet]
    BY <1>1 DEF Init, StreamSet
  <1>3. task \in [Conns -> TaskSet] /\ TaskShape
    BY DEF Init, AtRest, TaskSet, TaskShape, Forwarding
  <1>4. frame \in [Frames -> FrameSet] /\ metrics \in MetricsSet
    BY DEF Init, FrameSet, MetricsSet
  <1>5. inbound \in [Conns -> InboundSet]
    BY DEF Init, InboundSet
  <1>6. QED
    BY <1>2, <1>3, <1>4, <1>5 DEF Init, Typed, Types

(***************************************************************************)
(* The state of one task after it moved, with or without a new frame or    *)
(* stream.                                                                 *)
(***************************************************************************)
LEMMA Moves ==
    ASSUME Typed, NEW c \in Conns, NEW t \in TaskSet,
           task' = [task EXCEPT ![c] = t],
           t.pc \in Forwarding => t.hand \in Frames,
           t.pc \in {"lock", "wlen", "wbody", "evict"} => t.conn \in Streams
    PROVE  task' \in [Conns -> TaskSet] /\ TaskShape'
  BY DEF Typed, Types, TaskShape

\* A task that has let go of its frame is well typed.
LEMMA RestIsTask ==
    ASSUME NEW where \in {"read", "closed", "away"}
    PROVE  /\ AtRest(where) \in TaskSet
           /\ AtRest(where).pc = where
           /\ AtRest(where).pc \notin Forwarding
  BY DEF AtRest, TaskSet, Forwarding

\* Closing a socket changes the fate of its frames only.
LEMMA DiscardedIsFrame ==
    ASSUME Typed, NEW c \in Conns
    PROVE  Discarded(c) \in [Frames -> FrameSet]
  BY DEF Discarded, Typed, Types, FrameSet

\* Writing to and reading from a socket keeps its type.
LEMMA QueueChanges ==
    ASSUME Typed, NEW c \in Conns, NEW q \in Seq(Frames),
           inbound' = [inbound EXCEPT ![c].queue = q]
    PROVE  inbound' \in [Conns -> InboundSet]
  <1>1. inbound \in [Conns -> InboundSet]
    BY DEF Typed, Types
  <1>2. inbound[c] \in InboundSet
    BY <1>1
  <1>3. [inbound[c] EXCEPT !.queue = q] \in InboundSet
    BY <1>2, Zenon DEF InboundSet
  <1>4. inbound' = [inbound EXCEPT ![c] = [inbound[c] EXCEPT !.queue = q]]
    OBVIOUS
  <1>5. QED
    BY <1>1, <1>3, <1>4

\* The end of a task preserves the types.
LEMMA EndTaskTyped ==
    ASSUME Typed, NEW c \in Conns, EndTask(c)
    PROVE  /\ task' \in [Conns -> TaskSet] /\ TaskShape'
           /\ inbound' \in [Conns -> InboundSet]
           /\ frame' \in [Frames -> FrameSet]
  <1>1. task' = [task EXCEPT ![c] = AtRest("closed")]
    BY DEF EndTask
  <1>2. task' \in [Conns -> TaskSet] /\ TaskShape'
    BY <1>1, Moves, RestIsTask, Zenon DEF Forwarding
  <1>3. inbound' \in [Conns -> InboundSet]
    <2>1. inbound' = [inbound EXCEPT ![c].queue = <<>>] /\ <<>> \in Seq(Frames)
      BY DEF EndTask
    <2>2. QED
      BY <2>1, QueueChanges
  <1>4. QED
    BY <1>2, <1>3, DiscardedIsFrame DEF EndTask

(***************************************************************************)
(* The peers and the accept loop.                                          *)
(***************************************************************************)
LEMMA PeersTyped ==
    ASSUME Typed, NEW c \in Conns,
           \/ Connect(c) \/ PeerCloses(c) \/ (\E f \in Frames : PeerWrites(c, f))
           \/ Accept(c) \/ Reject(c)
    PROVE  Typed'
  <1>1. ASSUME Connect(c) \/ Accept(c) PROVE Typed'
    <2>1. task' \in [Conns -> TaskSet] /\ TaskShape'
      BY <1>1 DEF Connect, Accept, At, GoTo, Typed, Types, TaskSet, TaskShape,
                  Forwarding
    <2>2. QED
      BY <1>1, <2>1 DEF Connect, Accept, Typed, Types
  <1>2. ASSUME PeerCloses(c) PROVE Typed'
    <2>1. inbound \in [Conns -> InboundSet]
      BY DEF Typed, Types
    <2>2. [inbound[c] EXCEPT !.open = FALSE] \in InboundSet
      BY <2>1, Zenon DEF InboundSet
    <2>3. inbound' = [inbound EXCEPT ![c] = [inbound[c] EXCEPT !.open = FALSE]]
      BY <1>2 DEF PeerCloses
    <2>4. inbound' \in [Conns -> InboundSet]
      BY <2>1, <2>2, <2>3
    <2>5. QED
      BY <1>2, <2>4 DEF PeerCloses, Typed, Types, TaskShape
  <1>3. ASSUME NEW f \in Frames, PeerWrites(c, f) PROVE Typed'
    <2>1. inbound[c].queue \in Seq(Frames)
      BY DEF Typed, Types, InboundSet
    <2>2. Append(inbound[c].queue, f) \in Seq(Frames)
      BY <2>1
    <2>3. inbound' = [inbound EXCEPT ![c].queue = Append(inbound[c].queue, f)]
      BY <1>3 DEF PeerWrites
    <2>4. inbound' \in [Conns -> InboundSet]
      BY <2>2, <2>3, QueueChanges
    <2>5. frame' \in [Frames -> FrameSet]
      BY <1>3 DEF PeerWrites, Typed, Types, FrameSet
    <2>6. QED
      BY <1>3, <2>4, <2>5 DEF PeerWrites, Typed, Types, TaskShape
  <1>4. ASSUME Reject(c) PROVE Typed'
    <2>1. task' \in [Conns -> TaskSet] /\ TaskShape'
      BY <1>4 DEF Reject, At, GoTo, Typed, Types, TaskSet, TaskShape, Forwarding
    <2>2. inbound' = [inbound EXCEPT ![c].queue = <<>>] /\ <<>> \in Seq(Frames)
      BY <1>4 DEF Reject
    <2>3. inbound' \in [Conns -> InboundSet]
      BY <2>2, QueueChanges
    <2>4. metrics' \in MetricsSet
      BY <1>4 DEF Reject, Typed, Types, MetricsSet
    <2>5. QED
      BY <1>4, <2>1, <2>3, <2>4, DiscardedIsFrame DEF Reject, Typed, Types
  <1>5. QED
    BY <1>1, <1>2, <1>3, <1>4

(***************************************************************************)
(* handle_connection takes a frame off the socket.                         *)
(***************************************************************************)
LEMMA TakeFrameTyped ==
    ASSUME Typed, NEW c \in Conns, NEW kind,
           NEW fate \in {"bad", "delivered", "hand"}, TakeFrame(c, kind, fate)
    PROVE  /\ Head(inbound[c].queue) \in Frames
           /\ inbound' \in [Conns -> InboundSet]
           /\ frame' \in [Frames -> FrameSet]
  <1>1. inbound[c].queue \in Seq(Frames) /\ inbound[c].queue # <<>>
    BY DEF Typed, Types, InboundSet, TakeFrame
  <1>2. Head(inbound[c].queue) \in Frames /\ Tail(inbound[c].queue) \in Seq(Frames)
    BY <1>1
  <1>3. inbound' = [inbound EXCEPT ![c].queue = Tail(inbound[c].queue)]
    BY DEF TakeFrame
  <1>4. inbound' \in [Conns -> InboundSet]
    BY <1>2, <1>3, QueueChanges
  <1>5. frame' \in [Frames -> FrameSet]
    BY <1>2 DEF TakeFrame, Typed, Types, FrameSet
  <1>6. QED
    BY <1>2, <1>4, <1>5

\* Reading a frame preserves the types.
LEMMA ReadTyped ==
    ASSUME Typed, NEW c \in Conns,
           ReadEnd(c) \/ ReadBad(c) \/ ReadDeliver(c) \/ ReadForward(c)
    PROVE  Typed'
  <1>1. CASE ReadEnd(c)
    BY <1>1, EndTaskTyped DEF ReadEnd, Typed, Types
  <1>2. CASE ReadBad(c)
    <2>1. metrics' \in MetricsSet
      BY <1>2 DEF ReadBad, Typed, Types, MetricsSet
    <2>2. QED
      BY <1>2, <2>1, TakeFrameTyped DEF ReadBad, Typed, Types, TaskShape
  <1>3. CASE ReadDeliver(c)
    <2>1. metrics' \in MetricsSet
      BY <1>3 DEF ReadDeliver, Typed, Types, MetricsSet
    <2>2. QED
      BY <1>3, <2>1, TakeFrameTyped DEF ReadDeliver, Typed, Types, TaskShape
  <1>4. CASE ReadForward(c)
    <2>1. /\ Head(inbound[c].queue) \in Frames
          /\ inbound' \in [Conns -> InboundSet]
          /\ frame' \in [Frames -> FrameSet]
      BY <1>4, TakeFrameTyped DEF ReadForward
    <2>2. task' \in [Conns -> TaskSet] /\ TaskShape'
      <3> DEFINE f == Head(inbound[c].queue)
                 t == [task[c] EXCEPT !.pc = "get", !.hand = f]
      <3>1. f \in Frames /\ task[c] \in TaskSet
        BY <2>1 DEF Typed, Types
      <3>2. task' = [task EXCEPT ![c] = t]
        BY <1>4 DEF ReadForward
      <3> HIDE DEF f
      <3>3. t \in TaskSet /\ t.pc = "get" /\ t.hand = f
        BY <3>1 DEF TaskSet, Forwarding
      <3> HIDE DEF t
      <3>4. QED
        BY <3>1, <3>2, <3>3, Moves
    <2>3. QED
      BY <1>4, <2>1, <2>2 DEF ReadForward, Typed, Types
  <1>5. QED
    BY <1>1, <1>2, <1>3, <1>4

(***************************************************************************)
(* get_or_connect and the eviction.                                        *)
(***************************************************************************)
LEMMA PoolTyped ==
    ASSUME Typed, NEW c \in Conns,
           GetPooled(c) \/ GetMissing(c) \/ DialOk(c) \/ DialFails(c) \/ Evict(c)
    PROVE  Typed'
  <1>1. task[c].pc \in Forwarding => Hop(c) \in Hops
    BY RelayAssumption DEF Typed, TaskShape, Hop
  <1>2. CASE GetPooled(c)
    <2>1. pool[Hop(c)] \in Streams
      BY <1>1, <1>2 DEF GetPooled, At, Forwarding, Typed, Types
    <2>2. task' \in [Conns -> TaskSet] /\ TaskShape'
      BY <1>2, <2>1 DEF GetPooled, At, Typed, Types, TaskSet, TaskShape, Forwarding
    <2>3. QED
      BY <1>2, <2>2 DEF GetPooled, Typed, Types
  <1>3. CASE GetMissing(c)
    <2>1. task' \in [Conns -> TaskSet] /\ TaskShape'
      BY <1>3 DEF GetMissing, GoTo, At, Typed, Types, TaskSet, TaskShape, Forwarding
    <2>2. QED
      BY <1>3, <2>1 DEF GetMissing, Typed, Types
  <1>4. CASE DialOk(c)
    <2>1. NewStream \in Streams
      BY <1>4 DEF DialOk, NewStream
    <2>2. Hop(c) \in Hops
      BY <1>1, <1>4 DEF DialOk, At, Forwarding
    <2>3. stream' \in [Streams -> StreamSet]
      BY <1>4, <2>1, <2>2 DEF DialOk, Typed, Types, StreamSet
    <2>4. task' \in [Conns -> TaskSet] /\ TaskShape'
      BY <1>4, <2>1 DEF DialOk, At, Typed, Types, TaskSet, TaskShape, Forwarding
    <2>5. pool' \in [Hops -> Streams \cup {NoStream}]
      BY <1>4, <2>1, <2>2 DEF DialOk, Typed, Types
    <2>6. QED
      BY <1>4, <2>3, <2>4, <2>5 DEF DialOk, Typed, Types
  <1>5. CASE DialFails(c)
    BY <1>5, EndTaskTyped DEF DialFails, Typed, Types
  <1>6. CASE Evict(c)
    <2>1. task' \in [Conns -> TaskSet] /\ TaskShape'
      BY <1>6 DEF Evict, At, Typed, Types, TaskSet, TaskShape, Forwarding
    <2>2. pool' \in [Hops -> Streams \cup {NoStream}]
      BY <1>6 DEF Evict, Evicted, Typed, Types
    <2>3. QED
      BY <1>6, <2>1, <2>2 DEF Evict, Typed, Types
  <1>7. QED
    BY <1>2, <1>3, <1>4, <1>5, <1>6

(***************************************************************************)
(* write_frame.                                                            *)
(***************************************************************************)
LEMMA WireChanges ==
    ASSUME Typed, NEW s \in Streams, NEW w \in Seq(Frames), NEW o \in Conns \cup {NoConn},
           stream' = [stream EXCEPT ![s] = [stream[s] EXCEPT !.owner = o, !.wire = w]]
    PROVE  stream' \in [Streams -> StreamSet]
  <1>1. stream \in [Streams -> StreamSet]
    BY DEF Typed, Types
  <1>2. [stream[s] EXCEPT !.owner = o, !.wire = w] \in StreamSet
    BY <1>1 DEF StreamSet
  <1>3. QED
    BY <1>1, <1>2

\* Writing a frame, or failing to, preserves the types.
LEMMA WriteTyped ==
    ASSUME Typed, NEW c \in Conns,
           \/ LockStream(c) \/ WriteLen(c) \/ WriteBody(c)
           \/ WriteFailsOnce(c) \/ WriteFailsTwice(c)
    PROVE  Typed'
  <1>1. /\ task[c].pc \in {"lock", "wlen", "wbody"}
        /\ task[c].hand \in Frames
        /\ task[c].conn \in Streams
    BY DEF LockStream, WriteLen, WriteBody, WriteFailsOnce, WriteFailsTwice,
           WriteFails, At, Typed, TaskShape, Forwarding
  <1>2. stream[task[c].conn] \in StreamSet /\ task[c] \in TaskSet
    BY <1>1 DEF Typed, Types
  <1>3. CASE LockStream(c)
    <2>1. stream' \in [Streams -> StreamSet]
      BY <1>1, <1>3 DEF LockStream, Typed, Types, StreamSet
    <2>2. task' \in [Conns -> TaskSet] /\ TaskShape'
      BY <1>1, <1>3 DEF LockStream, GoTo, Typed, Types, TaskSet, TaskShape, Forwarding
    <2>3. QED
      BY <1>3, <2>1, <2>2 DEF LockStream, Typed, Types
  <1>4. CASE WriteLen(c)
    <2>1. Append(stream[task[c].conn].wire, task[c].hand) \in Seq(Frames)
      BY <1>1, <1>2 DEF StreamSet
    <2>2. stream' \in [Streams -> StreamSet]
      <3> DEFINE s == task[c].conn
                 w == Append(stream[s].wire, task[c].hand)
      <3>1. CASE stream[s].life = "up"
        <4>1. stream[s] = [stream[s] EXCEPT !.owner = stream[s].owner]
              /\ stream[s].owner \in Conns \cup {NoConn}
          BY <1>2 DEF StreamSet
        <4>2. stream' = [stream EXCEPT ![s].wire = w]
          BY <1>4, <3>1 DEF WriteLen
        <4>3. stream' = [stream EXCEPT ![s] = [stream[s] EXCEPT !.wire = w]]
          BY <4>2
        <4> HIDE DEF s, w
        <4>4. stream' = [stream EXCEPT ![s] =
                  [stream[s] EXCEPT !.owner = stream[s].owner, !.wire = w]]
          BY <4>1, <4>3
        <4>5. s \in Streams /\ w \in Seq(Frames)
          BY <1>1, <2>1 DEF s, w
        <4>6. QED
          BY <4>1, <4>4, <4>5, WireChanges
      <3>2. CASE stream[s].life # "up"
        BY <1>4, <3>2 DEF WriteLen, Typed, Types
      <3>3. QED
        BY <3>1, <3>2
    <2>3. task' \in [Conns -> TaskSet] /\ TaskShape'
      BY <1>1, <1>4 DEF WriteLen, GoTo, Typed, Types, TaskSet, TaskShape, Forwarding
    <2>4. QED
      BY <1>4, <2>2, <2>3 DEF WriteLen, Typed, Types
  <1>5. CASE WriteBody(c)
    <2>1. stream' \in [Streams -> StreamSet]
      <3> DEFINE s == task[c].conn
                 w == IF Received(c) THEN <<>> ELSE stream[s].wire
      <3>1. w \in Seq(Frames)
        BY <1>2 DEF StreamSet
      <3>2. stream' = [stream EXCEPT ![s].owner = NoConn, ![s].wire = w]
        BY <1>5 DEF WriteBody
      <3> HIDE DEF w
      <3>3. stream' = [stream EXCEPT ![s] =
                           [stream[s] EXCEPT !.owner = NoConn, !.wire = w]]
        BY <3>2
      <3>4. QED
        BY <1>1, <3>1, <3>3, WireChanges
    <2>2. Append(frame[task[c].hand].hops, stream[task[c].conn].hop) \in Seq(Hops)
      BY <1>1, <1>2 DEF Typed, Types, FrameSet, StreamSet
    <2>3. frame' \in [Frames -> FrameSet]
      BY <1>1, <1>5, <2>2 DEF WriteBody, Typed, Types, FrameSet
    <2>4. metrics' \in MetricsSet
      BY <1>5 DEF WriteBody, Typed, Types, MetricsSet
    <2>5. task' = [task EXCEPT ![c] = AtRest("read")]
      BY <1>5 DEF WriteBody, AfterWrite
    <2>6. task' \in [Conns -> TaskSet] /\ TaskShape'
      BY <2>5, Moves, RestIsTask, Zenon DEF Forwarding
    <2>7. QED
      BY <1>5, <2>1, <2>3, <2>4, <2>6 DEF WriteBody, Typed, Types
  <1>6. ASSUME WriteFails(c) PROVE stream' \in [Streams -> StreamSet]
    BY <1>1, <1>6 DEF WriteFails, Broken, Typed, Types, StreamSet
  <1>7. CASE WriteFailsOnce(c)
    <2>1. task' \in [Conns -> TaskSet] /\ TaskShape'
      BY <1>1, <1>7 DEF WriteFailsOnce, ToEviction, Typed, Types, TaskSet,
                        TaskShape, Forwarding
    <2>2. QED
      BY <1>6, <1>7, <2>1 DEF WriteFailsOnce, Typed, Types
  <1>8. CASE WriteFailsTwice(c)
    BY <1>6, <1>8, EndTaskTyped DEF WriteFailsTwice, Typed, Types
  <1>9. QED
    BY <1>3, <1>4, <1>5, <1>7, <1>8

\* A hop that goes away preserves the types.
LEMMA HopClosesTyped ==
    ASSUME Typed, NEW s \in Streams, HopCloses(s)
    PROVE  Typed'
  <1>1. stream' \in [Streams -> StreamSet]
    BY DEF HopCloses, Typed, Types, StreamSet
  <1>2. QED
    BY <1>1 DEF HopCloses, Typed, Types, TaskShape

\* The types are inductive.
LEMMA NextTyped == Typed /\ [Next]_vars => Typed'
  <1> SUFFICES ASSUME Typed, [Next]_vars PROVE Typed'
    OBVIOUS
  <1>1. ASSUME NEW c \in Conns, Task(c) PROVE Typed'
    BY <1>1, ReadTyped, PoolTyped, WriteTyped DEF Task
  <1>2. CASE UNCHANGED vars
    BY <1>2 DEF vars, Typed, Types, TaskShape
  <1>3. QED
    BY <1>1, <1>2, PeersTyped, HopClosesTyped DEF Next

------------------------------------------------------------------------------
(***************************************************************************)
(* Permits.                                                                *)
(***************************************************************************)
LEMMA ServingFinite == IsFiniteSet(Serving) /\ Cardinality(Serving) \in Nat
  <1>1. Serving \subseteq Conns
    BY DEF Serving
  <1>2. IsFiniteSet(Serving)
    BY <1>1, RelayAssumption, FS_Subset
  <1>3. QED
    BY <1>2, FS_CardinalityType

(***************************************************************************)
(* A step that changes neither which tasks serve nor the permits.          *)
(***************************************************************************)
LEMMA SameServing ==
    ASSUME IInv, permits' = permits,
           \A x \in Conns : task'[x].pc \in Forwarding \cup {"read"}
                               <=> task[x].pc \in Forwarding \cup {"read"}
    PROVE  PermitInv'
  <1>1. Serving' = Serving
    BY DEF Serving
  <1>2. QED
    BY <1>1 DEF IInv, PermitInv, PermitsConserved

(***************************************************************************)
(* The end of a task gives exactly one permit back.                        *)
(***************************************************************************)
LEMMA EndTaskPermits ==
    ASSUME IInv, NEW c \in Serving, EndTask(c)
    PROVE  PermitInv'
  <1>1. c \in Conns
    BY DEF Serving
  <1>2. /\ task'[c].pc = "closed"
        /\ \A x \in Conns \ {c} : task'[x] = task[x]
    BY <1>1 DEF EndTask, AtRest, IInv, Typed, Types
  <1>3. Serving' = Serving \ {c}
    BY <1>1, <1>2 DEF Serving, Forwarding
  <1>4. Cardinality(Serving') = Cardinality(Serving) - 1
    BY <1>3, ServingFinite, FS_RemoveElement
  <1>5. permits' = permits + 1
    BY DEF EndTask
  <1>6. QED
    BY <1>4, <1>5, ServingFinite, RelayAssumption
       DEF IInv, PermitInv, PermitsConserved

\* Accepting a connection moves one permit to one task.
LEMMA AcceptPermits ==
    ASSUME IInv, NEW c \in Conns, Accept(c)
    PROVE  PermitInv'
  <1>1. /\ task[c].pc = "backlog"
        /\ task'[c].pc = "read"
        /\ \A x \in Conns \ {c} : task'[x] = task[x]
    BY DEF Accept, At, GoTo, IInv, Typed, Types, TaskSet
  <1>2. c \notin Serving /\ Serving' = Serving \cup {c}
    BY <1>1 DEF Serving, Forwarding
  <1>3. Cardinality(Serving') = Cardinality(Serving) + 1
    BY <1>2, ServingFinite, FS_AddElement
  <1>4. permits > 0 /\ permits' = permits - 1
    BY DEF Accept, PermitsTaken
  <1>5. QED
    BY <1>3, <1>4, ServingFinite, RelayAssumption
       DEF IInv, PermitInv, PermitsConserved

(***************************************************************************)
(* A step of a task that does not end it keeps it among those that serve.  *)
(***************************************************************************)
LEMMA TaskPermits ==
    ASSUME IInv, NEW c \in Conns, Task(c)
    PROVE  PermitInv'
  <1> USE DEF At, GoTo, Forwarding
  <1>1. CASE ReadEnd(c) \/ DialFails(c) \/ WriteFailsTwice(c)
    <2>1. c \in Serving
      BY <1>1 DEF ReadEnd, DialFails, WriteFailsTwice, WriteFails, Serving
    <2>2. EndTask(c)
      BY <1>1 DEF ReadEnd, DialFails, WriteFailsTwice
    <2>3. QED
      BY <2>1, <2>2, EndTaskPermits
  <1>2. CASE ReadBad(c) \/ ReadDeliver(c)
    BY <1>2, SameServing DEF ReadBad, ReadDeliver
  <1>3. CASE ReadForward(c)
    BY <1>3, SameServing DEF ReadForward, TakeFrame, IInv, Typed, Types, TaskSet
  <1>4. CASE GetPooled(c) \/ GetMissing(c) \/ DialOk(c)
    BY <1>4, SameServing DEF GetPooled, GetMissing, DialOk, IInv, Typed, Types, TaskSet
  <1>5. CASE LockStream(c) \/ WriteLen(c)
    BY <1>5, SameServing DEF LockStream, WriteLen, IInv, Typed, Types, TaskSet
  <1>6. CASE WriteBody(c)
    BY <1>6, SameServing DEF WriteBody, AfterWrite, AtRest, IInv, Typed, Types
  <1>7. CASE WriteFailsOnce(c)
    BY <1>7, SameServing
       DEF WriteFailsOnce, WriteFails, ToEviction, IInv, Typed, Types, TaskSet
  <1>8. CASE Evict(c)
    BY <1>8, SameServing DEF Evict, IInv, Typed, Types, TaskSet
  <1>9. QED
    BY <1>1, <1>2, <1>3, <1>4, <1>5, <1>6, <1>7, <1>8 DEF Task

\* The count of permits and tasks is inductive.
LEMMA NextPermits == IInv /\ [Next]_vars => PermitInv'
  <1> SUFFICES ASSUME IInv, [Next]_vars PROVE PermitInv'
    OBVIOUS
  <1> USE DEF At, GoTo, Forwarding
  <1>1. ASSUME NEW c \in Conns, Connect(c) PROVE PermitInv'
    BY <1>1, SameServing DEF Connect, IInv, Typed, Types, TaskSet
  <1>2. ASSUME NEW c \in Conns, PeerCloses(c) PROVE PermitInv'
    BY <1>2, SameServing DEF PeerCloses
  <1>3. ASSUME NEW c \in Conns, NEW f \in Frames, PeerWrites(c, f) PROVE PermitInv'
    BY <1>3, SameServing DEF PeerWrites
  <1>4. ASSUME NEW c \in Conns, Reject(c) PROVE PermitInv'
    BY <1>4, SameServing DEF Reject, IInv, Typed, Types, TaskSet
  <1>5. ASSUME NEW s \in Streams, HopCloses(s) PROVE PermitInv'
    BY <1>5, SameServing DEF HopCloses
  <1>6. CASE UNCHANGED vars
    BY <1>6, SameServing DEF vars
  <1>7. QED
    BY <1>1, <1>2, <1>3, <1>4, <1>5, <1>6, AcceptPermits, TaskPermits DEF Next

\* The invariant holds in every reachable state.
LEMMA Invariance == Spec => []IInv
  <1>1. Init => IInv
    <2> SUFFICES ASSUME Init PROVE IInv
      OBVIOUS
    <2>1. Serving = {}
      BY DEF Init, AtRest, Serving, Forwarding
    <2>2. Cardinality(Serving) = 0
      BY <2>1, FS_EmptySet
    <2>3. PermitInv
      BY <2>2, RelayAssumption DEF Init, PermitInv, PermitsConserved
    <2>4. QED
      BY <2>3, InitTyped DEF IInv
  <1>2. IInv /\ [Next]_vars => IInv'
    BY NextTyped, NextPermits DEF IInv
  <1>3. QED
    BY <1>1, <1>2, PTL DEF Spec

(***************************************************************************)
(* Permits are conserved: whatever way a connection ends, its task gives   *)
(* back the one permit that run took for it.                               *)
(***************************************************************************)
THEOREM PermitsAreConserved == Spec => []PermitsConserved
  <1>1. IInv => PermitsConserved
    BY DEF IInv, PermitInv
  <1>2. QED
    BY <1>1, Invariance, PTL

(***************************************************************************)
(* Type correctness of the relay; the bound on the permits rests on their  *)
(* conservation.                                                           *)
(***************************************************************************)
THEOREM TypeCorrect == Spec => []TypeOK
  <1>1. IInv => TypeOK
    <2> SUFFICES ASSUME IInv PROVE TypeOK
      OBVIOUS
    <2>1. permits \in 0 .. MaxConnections
      BY ServingFinite, RelayAssumption DEF IInv, PermitInv, PermitsConserved
    <2>2. QED
      BY <2>1 DEF IInv, Typed, Types, TypeOK
  <1>2. QED
    BY <1>1, Invariance, PTL

------------------------------------------------------------------------------
(***************************************************************************)
(* The locks and the streams that tasks share.                             *)
(***************************************************************************)

Writing == {"wlen", "wbody"}

(***************************************************************************)
(* A task that writes has the lock of the stream it writes to.  With the   *)
(* order of the locks this makes writing exclusive.                        *)
(***************************************************************************)
Held == \A c \in Conns : task[c].pc \in Writing => stream[task[c].conn].owner = c

StreamInv == Held /\ LocksOrdered /\ FramesIntact

------------------------------------------------------------------------------
\* At the start nobody holds a lock and nothing is on the wire.
LEMMA InitStream == Init => StreamInv
  BY RelayAssumption
     DEF Init, StreamInv, Held, LocksOrdered, FramesIntact, AtRest, Writing, At

\* Two tasks never write to one stream.
LEMMA Exclusive ==
    ASSUME StreamInv, NEW c \in Conns, NEW d \in Conns,
           task[c].pc \in Writing, task[d].pc \in Writing,
           task[c].conn = task[d].conn
    PROVE  c = d
  BY DEF StreamInv, Held

(***************************************************************************)
(* A step aside: one task moves without touching a stream, and may take or *)
(* release the pool.                                                       *)
(***************************************************************************)
LEMMA Aside ==
    ASSUME Typed, StreamInv, NEW c \in Conns, NEW t,
           task' = [task EXCEPT ![c] = t],
           task[c].pc \notin Writing, t.pc \notin Writing,
           UNCHANGED stream,
           \/ poolLock' = NoConn
           \/ poolLock' = c /\ t.pc = "dial"
           \/ poolLock' = poolLock /\ task[c].pc # "dial"
    PROVE  StreamInv'
  <1> USE DEF Typed, Types, Writing, At
  <1>1. task'[c] = t /\ \A d \in Conns \ {c} : task'[d] = task[d]
    OBVIOUS
  <1>2. Held'
    BY <1>1 DEF StreamInv, Held
  <1>3. \A d \in Conns : poolLock' = d => task'[d].pc = "dial"
    BY <1>1, RelayAssumption DEF StreamInv, LocksOrdered
  <1>4. LocksOrdered'
    BY <1>1, <1>3 DEF StreamInv, LocksOrdered
  <1>5. FramesIntact'
    BY <1>1 DEF StreamInv, FramesIntact
  <1>6. QED
    BY <1>2, <1>4, <1>5 DEF StreamInv

\* Steps of the peers, and of a task that only reads, leave the locks alone.
LEMMA SameTasks ==
    ASSUME StreamInv, UNCHANGED <<task, stream, poolLock>>
    PROVE  StreamInv'
  BY DEF StreamInv, Held, LocksOrdered, FramesIntact, Writing, At

\* The hop goes away: its stream is no longer up.
LEMMA HopClosesStream ==
    ASSUME Typed, StreamInv, NEW s \in Streams, HopCloses(s)
    PROVE  StreamInv'
  <1>1. /\ stream'[s].life = "stale"
        /\ \A x \in Streams : stream'[x].owner = stream[x].owner
        /\ \A x \in Streams : stream'[x].wire = stream[x].wire
        /\ \A x \in Streams \ {s} : stream'[x].life = stream[x].life
    BY DEF HopCloses, Typed, Types, StreamSet
  <1>2. UNCHANGED <<task, poolLock>>
    BY DEF HopCloses
  <1>3. Held'
    BY <1>1, <1>2 DEF StreamInv, Held, Typed, TaskShape, Writing
  <1>4. LocksOrdered'
    BY <1>1, <1>2 DEF StreamInv, LocksOrdered, At
  <1>5. FramesIntact'
    BY <1>1, <1>2 DEF StreamInv, FramesIntact, At
  <1>6. QED
    BY <1>3, <1>4, <1>5 DEF StreamInv

(***************************************************************************)
(* A dial takes a name that no task refers to, so the new stream is        *)
(* nobody's.                                                               *)
(***************************************************************************)
LEMMA DialOkStream ==
    ASSUME Typed, StreamInv, NEW c \in Conns, DialOk(c)
    PROVE  StreamInv'
  <1> USE DEF Writing, At
  <1>1. NewStream \in Streams /\ Dropped(NewStream)
    BY DEF DialOk, NewStream
  <1>2. /\ stream'[NewStream].owner = NoConn
        /\ stream'[NewStream].wire = <<>>
        /\ \A s \in Streams \ {NewStream} : stream'[s] = stream[s]
    BY <1>1 DEF DialOk, Typed, Types
  <1>3. /\ task'[c].pc = "lock" /\ task[c].pc = "dial"
        /\ \A d \in Conns \ {c} : task'[d] = task[d]
    BY DEF DialOk, Typed, Types, TaskSet
  <1>4. \A d \in Conns : task[d].conn # NewStream
    BY <1>1 DEF Dropped
  <1>5. Held'
    BY <1>2, <1>3, <1>4 DEF StreamInv, Held, Typed, TaskShape
  <1>6. poolLock' = NoConn
    BY DEF DialOk
  <1>7. LocksOrdered'
    BY <1>2, <1>3, <1>6, RelayAssumption DEF StreamInv, LocksOrdered
  <1>8. FramesIntact'
    BY <1>2, <1>3 DEF StreamInv, FramesIntact
  <1>9. QED
    BY <1>5, <1>7, <1>8 DEF StreamInv

\* A task takes the lock of a stream that is free.
LEMMA LockStreamStream ==
    ASSUME Typed, StreamInv, NEW c \in Conns, LockStream(c)
    PROVE  StreamInv'
  <1> USE DEF Writing, At
  <1> DEFINE s == task[c].conn
  <1>1. s \in Streams /\ task[c].pc = "lock" /\ stream[s].owner = NoConn
    BY DEF LockStream, StreamFree, Typed, TaskShape
  <1>2. /\ task'[c].pc = "wlen" /\ task'[c].conn = s /\ task'[c].hand = task[c].hand
        /\ \A d \in Conns \ {c} : task'[d] = task[d]
    BY DEF LockStream, GoTo, Typed, Types, TaskSet
  <1>3. /\ stream'[s].owner = c
        /\ \A x \in Streams \ {s} : stream'[x].owner = stream[x].owner
        /\ \A x \in Streams : /\ stream'[x].life = stream[x].life
                              /\ stream'[x].wire = stream[x].wire
    BY <1>1 DEF LockStream, Typed, Types, StreamSet
  <1>4. poolLock' = poolLock
    BY DEF LockStream
  <1>5. \A d \in Conns : task[d].pc \in Writing => task[d].conn # s
    BY <1>1, RelayAssumption DEF StreamInv, Held
  <1> HIDE DEF s
  <1>6. Held'
    BY <1>1, <1>2, <1>3, <1>5 DEF StreamInv, Held, Typed, TaskShape
  <1>7. LocksOrdered'
    BY <1>1, <1>2, <1>3, <1>4 DEF StreamInv, LocksOrdered
  <1>8. FramesIntact'
    BY <1>1, <1>2, <1>3 DEF StreamInv, FramesIntact
  <1>9. QED
    BY <1>6, <1>7, <1>8 DEF StreamInv

(***************************************************************************)
(* The length prefix: the wire is empty, for whoever waits on it would     *)
(* have the lock.                                                          *)
(***************************************************************************)
LEMMA WriteLenStream ==
    ASSUME Typed, StreamInv, NEW c \in Conns, WriteLen(c)
    PROVE  StreamInv'
  <1> USE DEF Writing, At
  <1> DEFINE s == task[c].conn
  <1>1. s \in Streams /\ task[c].pc = "wlen" /\ task[c].hand \in Frames
    BY DEF WriteLen, Typed, TaskShape, Forwarding
  <1>2. /\ task'[c].pc = "wbody" /\ task'[c].conn = s /\ task'[c].hand = task[c].hand
        /\ \A d \in Conns \ {c} : task'[d] = task[d]
    BY DEF WriteLen, GoTo, Typed, Types, TaskSet
  <1>3. stream[s].life = "up" => stream[s].wire = <<>>
    <2>1. SUFFICES ASSUME stream[s].life = "up", stream[s].wire # <<>> PROVE FALSE
      OBVIOUS
    <2>2. PICK d \in Conns : task[d].pc = "wbody" /\ task[d].conn = s
      BY <1>1, <2>1 DEF StreamInv, FramesIntact
    <2>3. c = d
      BY <1>1, <2>2, Exclusive
    <2>4. QED
      BY <1>1, <2>2, <2>3
  <1>4. /\ \A x \in Streams : /\ stream'[x].owner = stream[x].owner
                              /\ stream'[x].life = stream[x].life
        /\ \A x \in Streams \ {s} : stream'[x].wire = stream[x].wire
        /\ stream'[s].wire = IF stream[s].life = "up"
                             THEN Append(stream[s].wire, task[c].hand)
                             ELSE stream[s].wire
    BY <1>1 DEF WriteLen, Typed, Types, StreamSet
  <1>5. stream[s].life = "up" => stream'[s].wire = <<task'[c].hand>>
    <2>1. Append(<<>>, task[c].hand) = <<task[c].hand>>
      BY <1>1
    <2> HIDE DEF s
    <2>2. QED
      BY <2>1, <1>2, <1>3, <1>4
  <1>6. poolLock' = poolLock
    BY DEF WriteLen
  <1> HIDE DEF s
  <1>7. Held'
    BY <1>1, <1>2, <1>4 DEF StreamInv, Held, Typed, TaskShape, s
  <1>8. LocksOrdered'
    <2>1. \A d \in Conns : poolLock' = d => task'[d].pc = "dial"
      BY <1>1, <1>2, <1>6 DEF StreamInv, LocksOrdered
    <2>2. \A x \in Streams : stream[x].owner = c => x = s
      BY DEF StreamInv, LocksOrdered, s
    <2>3. ASSUME NEW x \in Streams, NEW d \in Conns, stream'[x].owner = d
          PROVE  task'[d].pc \in {"wlen", "wbody"} /\ task'[d].conn = x
      <3>1. stream[x].owner = d
        BY <2>3, <1>4
      <3>2. task[d].pc \in {"wlen", "wbody"} /\ task[d].conn = x
        BY <3>1 DEF StreamInv, LocksOrdered
      <3>3. QED
        BY <3>1, <3>2, <2>2, <1>2
    <2>4. QED
      BY <2>1, <2>3 DEF LocksOrdered
  <1>9. FramesIntact'
    <2> SUFFICES ASSUME NEW x \in Streams, stream'[x].life = "up", stream'[x].wire # <<>>
                 PROVE  \E d \in Conns : /\ task'[d].pc = "wbody" /\ task'[d].conn = x
                                         /\ stream'[x].wire = <<task'[d].hand>>
      BY DEF FramesIntact
    <2>1. CASE x = s
      BY <2>1, <1>2, <1>4, <1>5
    <2>2. CASE x # s
      BY <2>2, <1>1, <1>2, <1>4 DEF StreamInv, FramesIntact
    <2>3. QED
      BY <2>1, <2>2
  <1>10. QED
    BY <1>7, <1>8, <1>9 DEF StreamInv

(***************************************************************************)
(* A task leaves its stream, with the frame received or the stream no      *)
(* longer up, and gives its lock back.                                     *)
(***************************************************************************)
LEMMA LeaveStream ==
    ASSUME Typed, StreamInv, NEW c \in Conns, NEW t, NEW s \in Streams,
           task[c].pc \in Writing, task[c].conn = s,
           task' = [task EXCEPT ![c] = t], t.pc \notin Writing,
           UNCHANGED poolLock,
           \A x \in Streams \ {s} : stream'[x] = stream[x],
           stream'[s].owner = NoConn,
           stream'[s].life = "up" => stream'[s].wire = <<>>
    PROVE  StreamInv'
  <1> USE DEF Writing, At
  <1>1. task'[c] = t /\ \A d \in Conns \ {c} : task'[d] = task[d]
    BY DEF Typed, Types
  <1>2. \A d \in Conns \ {c} : task[d].pc \in Writing => task[d].conn # s
    BY Exclusive
  <1>3. Held'
    BY <1>1, <1>2 DEF StreamInv, Held, Typed, TaskShape
  <1>4. \A x \in Streams : stream[x].owner = c => x = s
    BY DEF StreamInv, LocksOrdered
  <1>5. LocksOrdered'
    BY <1>1, <1>4, RelayAssumption DEF StreamInv, LocksOrdered
  <1>6. FramesIntact'
    BY <1>1, <1>2 DEF StreamInv, FramesIntact
  <1>7. QED
    BY <1>3, <1>5, <1>6 DEF StreamInv

\* The body: what waits on the wire is the prefix of this very frame.
LEMMA WriteBodyStream ==
    ASSUME Typed, StreamInv, NEW c \in Conns, WriteBody(c)
    PROVE  StreamInv'
  <1> USE DEF Writing, At
  <1> DEFINE s == task[c].conn
  <1>1. s \in Streams /\ task[c].pc = "wbody"
    BY DEF WriteBody, Typed, TaskShape
  <1>2. stream[s].life = "up" /\ stream[s].wire # <<>> => Received(c)
    <2> SUFFICES ASSUME stream[s].life = "up", stream[s].wire # <<>> PROVE Received(c)
      OBVIOUS
    <2>1. PICK d \in Conns : /\ task[d].pc = "wbody" /\ task[d].conn = s
                             /\ stream[s].wire = <<task[d].hand>>
      BY <1>1 DEF StreamInv, FramesIntact
    <2>2. c = d
      BY <1>1, <2>1, Exclusive
    <2>3. QED
      BY <2>1, <2>2 DEF Received
  <1>3. /\ stream'[s].owner = NoConn
        /\ stream'[s].life = stream[s].life
        /\ stream'[s].wire = IF Received(c) THEN <<>> ELSE stream[s].wire
        /\ \A x \in Streams \ {s} : stream'[x] = stream[x]
    BY <1>1 DEF WriteBody, Typed, Types, StreamSet
  <1>4. task' = [task EXCEPT ![c] = AtRest("read")] /\ AtRest("read").pc = "read"
        /\ UNCHANGED poolLock
    BY DEF WriteBody, AfterWrite, AtRest
  <1> HIDE DEF s
  <1>5. QED
    BY <1>1, <1>2, <1>3, <1>4, LeaveStream DEF s

\* A write fails: the stream is broken and free.
LEMMA WriteFailsStream ==
    ASSUME Typed, StreamInv, NEW c \in Conns,
           WriteFailsOnce(c) \/ WriteFailsTwice(c)
    PROVE  StreamInv'
  <1> USE DEF Writing
  <1> DEFINE s == task[c].conn
  <1>1. s \in Streams /\ task[c].pc \in Writing /\ WriteFails(c) /\ UNCHANGED poolLock
    BY DEF WriteFailsOnce, WriteFailsTwice, WriteFails, Typed, TaskShape
  <1>2. /\ stream'[s].owner = NoConn
        /\ stream'[s].life = "broken"
        /\ \A x \in Streams \ {s} : stream'[x] = stream[x]
    BY <1>1 DEF WriteFails, Broken, Typed, Types, StreamSet
  <1>3. PICK t : task' = [task EXCEPT ![c] = t] /\ t.pc \notin Writing
    <2>1. CASE WriteFailsOnce(c)
      <3>1. task' = [task EXCEPT ![c] = [task[c] EXCEPT !.pc = "evict"]]
        BY <2>1 DEF WriteFailsOnce, ToEviction
      <3>2. [task[c] EXCEPT !.pc = "evict"].pc = "evict"
        BY DEF Typed, Types, TaskSet
      <3>3. QED
        BY <3>1, <3>2
    <2>2. CASE WriteFailsTwice(c)
      <3>1. task' = [task EXCEPT ![c] = AtRest("closed")]
        BY <2>2 DEF WriteFailsTwice, EndTask
      <3>2. AtRest("closed").pc = "closed"
        BY DEF AtRest
      <3>3. QED
        BY <3>1, <3>2
    <2>3. QED
      BY <2>1, <2>2
  <1> HIDE DEF s
  <1>4. QED
    BY <1>1, <1>2, <1>3, LeaveStream DEF s

------------------------------------------------------------------------------
\* The steps that only move one task, or take and release the pool.
LEMMA AsideSteps ==
    ASSUME Typed, StreamInv, NEW c \in Conns,
           \/ Connect(c) \/ Accept(c) \/ Reject(c) \/ ReadEnd(c) \/ ReadForward(c)
           \/ GetPooled(c) \/ GetMissing(c) \/ DialFails(c) \/ Evict(c)
    PROVE  StreamInv'
  <1> USE DEF At, GoTo, Writing
  <1>1. task[c] \in TaskSet
    BY DEF Typed, Types
  <1>2. ASSUME NEW where \in {"backlog", "read", "refused", "dial"},
               task' = [task EXCEPT ![c].pc = where], UNCHANGED stream,
               task[c].pc \in {"away", "backlog", "get"},
               \/ poolLock' = poolLock
               \/ poolLock' = c /\ where = "dial"
        PROVE  StreamInv'
    <2>1. task' = [task EXCEPT ![c] = [task[c] EXCEPT !.pc = where]]
      BY <1>2
    <2>2. [task[c] EXCEPT !.pc = where].pc = where
      BY <1>1 DEF TaskSet
    <2>3. QED
      BY <1>2, <2>1, <2>2, Aside
  <1>3. CASE Connect(c) \/ Accept(c) \/ Reject(c)
    BY <1>2, <1>3 DEF Connect, Accept, Reject
  <1>4. CASE GetMissing(c)
    BY <1>2, <1>4 DEF GetMissing
  <1>5. CASE ReadEnd(c) \/ DialFails(c)
    <2>1. task' = [task EXCEPT ![c] = AtRest("closed")] /\ AtRest("closed").pc = "closed"
      BY <1>5 DEF ReadEnd, DialFails, EndTask, AtRest
    <2>2. /\ task[c].pc \in {"read", "dial"}
          /\ UNCHANGED stream
          /\ poolLock' = NoConn \/ (poolLock' = poolLock /\ task[c].pc # "dial")
      BY <1>5 DEF ReadEnd, DialFails
    <2>3. QED
      BY <2>1, <2>2, Aside
  <1>6. CASE ReadForward(c) \/ GetPooled(c) \/ Evict(c)
    <2>1. PICK t : task' = [task EXCEPT ![c] = t] /\ t.pc \in {"get", "lock"}
      <3>1. CASE ReadForward(c)
        <4> DEFINE t == [task[c] EXCEPT !.pc = "get", !.hand = Head(inbound[c].queue)]
        <4>1. task' = [task EXCEPT ![c] = t] /\ t.pc = "get"
          BY <3>1, <1>1 DEF ReadForward, TaskSet
        <4>2. QED
          BY <4>1
      <3>2. CASE GetPooled(c)
        <4> DEFINE t == [task[c] EXCEPT !.pc = "lock", !.conn = pool[Hop(c)]]
        <4>1. task' = [task EXCEPT ![c] = t] /\ t.pc = "lock"
          BY <3>2, <1>1 DEF GetPooled, TaskSet
        <4>2. QED
          BY <4>1
      <3>3. CASE Evict(c)
        <4> DEFINE t == [task[c] EXCEPT !.pc = "get", !.try = 2]
        <4>1. task' = [task EXCEPT ![c] = t] /\ t.pc = "get"
          BY <3>3, <1>1 DEF Evict, TaskSet
        <4>2. QED
          BY <4>1
      <3>4. QED
        BY <1>6, <3>1, <3>2, <3>3
    <2>2. /\ task[c].pc \in {"read", "get", "evict"}
          /\ UNCHANGED <<stream, poolLock>>
      BY <1>6 DEF ReadForward, TakeFrame, GetPooled, Evict
    <2>3. QED
      BY <2>1, <2>2, Aside
  <1>7. QED
    BY <1>3, <1>4, <1>5, <1>6

\* The invariant of the streams is inductive.
LEMMA NextStream == Typed /\ StreamInv /\ [Next]_vars => StreamInv'
  <1> SUFFICES ASSUME Typed, StreamInv, [Next]_vars PROVE StreamInv'
    OBVIOUS
  <1>1. ASSUME NEW c \in Conns,
               \/ PeerCloses(c) \/ (\E f \in Frames : PeerWrites(c, f))
               \/ ReadBad(c) \/ ReadDeliver(c)
        PROVE  StreamInv'
    BY <1>1, SameTasks DEF PeerCloses, PeerWrites, ReadBad, ReadDeliver
  <1>2. CASE UNCHANGED vars
    BY <1>2, SameTasks DEF vars
  <1>3. QED
    BY <1>1, <1>2, AsideSteps, DialOkStream, LockStreamStream, WriteLenStream,
       WriteBodyStream, WriteFailsStream, HopClosesStream DEF Next, Task

\* It holds in every reachable state.
LEMMA StreamInvariance == Spec => []StreamInv
  <1>1. Init => StreamInv
    BY InitStream
  <1>2. IInv /\ StreamInv /\ [Next]_vars => StreamInv'
    BY NextStream DEF IInv
  <1>3. QED
    BY <1>1, <1>2, Invariance, PTL DEF Spec

(***************************************************************************)
(* The locks of forward and get_or_connect are taken in one order by any   *)
(* number of tasks, so they cannot wait for each other in a circle.        *)
(***************************************************************************)
THEOREM LocksAreOrdered == Spec => []LocksOrdered
  <1>1. StreamInv => LocksOrdered
    BY DEF StreamInv
  <1>2. QED
    BY <1>1, StreamInvariance, PTL

(***************************************************************************)
(* Frames are never interleaved on a stream that tasks share: between the  *)
(* two writes of write_frame the next hop gets nothing else.               *)
(***************************************************************************)
THEOREM FramesAreIntact == Spec => []FramesIntact
  <1>1. StreamInv => FramesIntact
    BY DEF StreamInv
  <1>2. QED
    BY <1>1, StreamInvariance, PTL

------------------------------------------------------------------------------
(***************************************************************************)
(* Where frames are.  A frame waits at one place of one socket exactly     *)
(* while its fate is "queued", and one task has it in hand exactly while   *)
(* its fate is "hand".                                                     *)
(***************************************************************************)
Fate(f) == frame[f].fate

Queue(c) == inbound[c].queue

InForward(c) == task[c].pc \in Forwarding

QueueInv ==
    /\ \A c \in Conns : \A i \in DOMAIN Queue(c) : Fate(Queue(c)[i]) = "queued"
    /\ \A c, d \in Conns : \A i \in DOMAIN Queue(c), j \in DOMAIN Queue(d) :
           Queue(c)[i] = Queue(d)[j] => c = d /\ i = j
    /\ \A f \in Frames : Fate(f) = "queued" =>
           \E c \in Conns : \E i \in DOMAIN Queue(c) : Queue(c)[i] = f

HandInv ==
    /\ \A c \in Conns : IF InForward(c) THEN Fate(task[c].hand) = "hand"
                                        ELSE task[c].hand = NoFrame
    /\ \A c, d \in Conns :
           InForward(c) /\ InForward(d) /\ task[c].hand = task[d].hand => c = d
    /\ \A f \in Frames : Fate(f) = "hand" =>
           \E c \in Conns : InForward(c) /\ task[c].hand = f

\* The sockets and the frames that wait in them stay as they are.
SameQueues ==
    /\ \A c \in Conns : Queue(c)' = Queue(c)
    /\ \A f \in Frames : Fate(f)' = "queued" <=> Fate(f) = "queued"

\* A step that leaves queues and fates alone keeps QueueInv.
LEMMA SameQueuesInv ==
    ASSUME Typed, QueueInv, SameQueues
    PROVE  QueueInv'
  <1>1. \A c \in Conns : Queue(c) \in Seq(Frames)
    BY DEF Typed, Types, InboundSet, Queue
  <1>2. \A c \in Conns : \A i \in DOMAIN Queue(c) : Queue(c)[i] \in Frames
    BY <1>1
  <1>3. QED
    BY <1>2 DEF QueueInv, SameQueues, Queue, Fate

\* So do the hands, and the frames in them.
SameHands ==
    /\ \A c \in Conns : /\ InForward(c)' <=> InForward(c)
                        /\ task'[c].hand = task[c].hand
    /\ \A f \in Frames : Fate(f)' = "hand" <=> Fate(f) = "hand"

\* A step that leaves hands and fates alone keeps HandInv.
LEMMA SameHandsInv ==
    ASSUME Typed, HandInv, SameHands
    PROVE  HandInv'
  <1>1. \A c \in Conns : InForward(c) => task[c].hand \in Frames
    BY DEF Typed, TaskShape, InForward
  <1>2. QED
    BY <1>1 DEF HandInv, SameHands, Fate, InForward

\* A peer writes a frame that no relay has seen.
LEMMA PeerWritesQueue ==
    ASSUME Typed, QueueInv, NEW c \in Conns, NEW f \in Frames, PeerWrites(c, f)
    PROVE  QueueInv' /\ SameHands
  <1>1. inbound \in [Conns -> InboundSet] /\ frame \in [Frames -> FrameSet]
    BY DEF Typed, Types
  <1>2. \A d \in Conns : Queue(d) \in Seq(Frames)
    BY <1>1 DEF InboundSet, Queue
  <1>3. /\ inbound'[c].queue = Append(inbound[c].queue, f)
        /\ \A d \in Conns \ {c} : inbound'[d] = inbound[d]
    BY <1>1 DEF PeerWrites, InboundSet
  <1>4. /\ Fate(f) = "unsent" /\ frame'[f].fate = "queued"
        /\ \A g \in Frames \ {f} : frame'[g] = frame[g]
    BY <1>1 DEF PeerWrites, FrameSet, Fate
  <1>5. \A d \in Conns : \A i \in DOMAIN Queue(d) : Queue(d)[i] \in Frames \ {f}
    BY <1>2, <1>4 DEF QueueInv
  <1>6. /\ DOMAIN Queue(c)' = DOMAIN Queue(c) \cup {Len(Queue(c)) + 1}
        /\ Len(Queue(c)) + 1 \notin DOMAIN Queue(c)
        /\ inbound'[c].queue[Len(Queue(c)) + 1] = f
        /\ \A i \in DOMAIN Queue(c) : inbound'[c].queue[i] = Queue(c)[i]
    BY <1>2, <1>3 DEF Queue
  <1>7. \A d \in Conns \ {c} : inbound'[d].queue = Queue(d)
    BY <1>3 DEF Queue
  <1>8. \A d \in Conns : \A i \in DOMAIN inbound'[d].queue :
            frame'[inbound'[d].queue[i]].fate = "queued"
    BY <1>4, <1>5, <1>6, <1>7 DEF QueueInv, Queue, Fate
  <1>9. \A d, e \in Conns : \A i \in DOMAIN inbound'[d].queue, j \in DOMAIN inbound'[e].queue :
            inbound'[d].queue[i] = inbound'[e].queue[j] => d = e /\ i = j
    BY <1>5, <1>6, <1>7 DEF QueueInv, Queue
  <1>10. \A g \in Frames : frame'[g].fate = "queued" =>
            \E d \in Conns : \E i \in DOMAIN inbound'[d].queue : inbound'[d].queue[i] = g
    BY <1>4, <1>6, <1>7 DEF QueueInv, Queue, Fate
  <1>11. SameHands
    BY <1>4 DEF PeerWrites, SameHands, Fate, InForward
  <1>12. QED
    BY <1>8, <1>9, <1>10, <1>11 DEF QueueInv, Queue, Fate

\* The oldest frame of a socket is taken out of it.
LEMMA TakeFrameQueue ==
    ASSUME Typed, QueueInv, NEW c \in Conns, NEW kind,
           NEW fate \in {"bad", "delivered", "hand"}, TakeFrame(c, kind, fate)
    PROVE  /\ QueueInv'
           /\ Head(Queue(c)) \in Frames /\ Fate(Head(Queue(c))) = "queued"
           /\ frame'[Head(Queue(c))].fate = fate
           /\ \A g \in Frames \ {Head(Queue(c))} : frame'[g] = frame[g]
           /\ \A g \in Frames : frame'[g].hops = frame[g].hops
  <1> DEFINE f == Head(Queue(c))
             q == Queue(c)
  <1>1. inbound \in [Conns -> InboundSet] /\ frame \in [Frames -> FrameSet]
    BY DEF Typed, Types
  <1>2. \A d \in Conns : Queue(d) \in Seq(Frames)
    BY <1>1 DEF InboundSet, Queue
  <1>3. q \in Seq(Frames) /\ q # <<>>
    BY <1>2 DEF TakeFrame, Queue
  <1>4. /\ inbound'[c].queue = Tail(q)
        /\ \A d \in Conns \ {c} : inbound'[d].queue = Queue(d)
    BY <1>1 DEF TakeFrame, InboundSet, Queue
  <1>5. 1 \in DOMAIN q /\ f = q[1] /\ f \in Frames /\ Fate(f) = "queued"
    <2>1. 1 \in DOMAIN q /\ f = q[1] /\ f \in Frames
      BY <1>3
    <2>2. QED
      BY <2>1 DEF QueueInv
  <1>6. /\ frame'[f].fate = fate
        /\ \A g \in Frames \ {f} : frame'[g] = frame[g]
        /\ \A g \in Frames : frame'[g].hops = frame[g].hops
    BY <1>1, <1>5 DEF TakeFrame, FrameSet, Queue
  <1>7. /\ DOMAIN Tail(q) = 1 .. Len(q) - 1
        /\ \A i \in 1 .. Len(q) - 1 : Tail(q)[i] = q[i + 1] /\ i + 1 \in DOMAIN q /\ i + 1 # 1
        /\ \A i \in DOMAIN q : i # 1 => i - 1 \in 1 .. Len(q) - 1 /\ (i - 1) + 1 = i
    BY <1>3
  <1>12. Tail(q) \in Seq(Frames)
    BY <1>3
  <1> HIDE DEF f, q
  <1>8. \A d \in Conns : \A i \in DOMAIN inbound'[d].queue :
            /\ inbound'[d].queue[i] \in Frames \ {f}
            /\ frame'[inbound'[d].queue[i]].fate = "queued"
    <2> SUFFICES ASSUME NEW d \in Conns, NEW i \in DOMAIN inbound'[d].queue
                 PROVE  /\ inbound'[d].queue[i] \in Frames \ {f}
                        /\ frame'[inbound'[d].queue[i]].fate = "queued"
      OBVIOUS
    <2>1. PICK j \in DOMAIN Queue(d) : inbound'[d].queue[i] = Queue(d)[j] /\ (d = c => j # 1)
      <3>1. CASE d = c
        BY <1>4, <1>7, <3>1 DEF q
      <3>2. CASE d # c
        BY <1>4, <3>2
      <3>3. QED
        BY <3>1, <3>2
    <2>2. Queue(d)[j] # f
      BY <1>5, <2>1 DEF QueueInv, q
    <2>3. Queue(d)[j] \in Frames
      BY <1>2, <2>1
    <2>4. QED
      BY <1>6, <2>1, <2>2, <2>3 DEF QueueInv, Fate
  <1>9. \A d, e \in Conns : \A i \in DOMAIN inbound'[d].queue, j \in DOMAIN inbound'[e].queue :
            inbound'[d].queue[i] = inbound'[e].queue[j] => d = e /\ i = j
    <2> SUFFICES ASSUME NEW d \in Conns, NEW e \in Conns,
                        NEW i \in DOMAIN inbound'[d].queue, NEW j \in DOMAIN inbound'[e].queue,
                        inbound'[d].queue[i] = inbound'[e].queue[j]
                 PROVE  d = e /\ i = j
      OBVIOUS
    <2> DEFINE I == IF d = c THEN i + 1 ELSE i
               J == IF e = c THEN j + 1 ELSE j
    <2>1. I \in DOMAIN Queue(d) /\ inbound'[d].queue[i] = Queue(d)[I]
      BY <1>4, <1>7 DEF q
    <2>2. J \in DOMAIN Queue(e) /\ inbound'[e].queue[j] = Queue(e)[J]
      BY <1>4, <1>7 DEF q
    <2>3. i \in Int /\ j \in Int
      <3>1. inbound'[d].queue \in Seq(Frames) /\ inbound'[e].queue \in Seq(Frames)
        BY <1>2, <1>4, <1>12
      <3>2. QED
        BY <3>1
    <2> HIDE DEF I, J
    <2>4. Queue(d)[I] = Queue(e)[J]
      BY <2>1, <2>2
    <2>5. \A x \in DOMAIN Queue(d), y \in DOMAIN Queue(e) :
              Queue(d)[x] = Queue(e)[y] => d = e /\ x = y
      BY DEF QueueInv
    <2>6. d = e /\ I = J
      BY <2>1, <2>2, <2>4, <2>5
    <2>7. QED
      BY <2>3, <2>6 DEF I, J
  <1>10. \A g \in Frames : frame'[g].fate = "queued" =>
            \E d \in Conns : \E i \in DOMAIN inbound'[d].queue : inbound'[d].queue[i] = g
    <2> SUFFICES ASSUME NEW g \in Frames, frame'[g].fate = "queued"
                 PROVE  \E d \in Conns : \E i \in DOMAIN inbound'[d].queue : inbound'[d].queue[i] = g
      OBVIOUS
    <2>1. g # f /\ Fate(g) = "queued"
      BY <1>6 DEF Fate
    <2>2. PICK d \in Conns : \E i \in DOMAIN Queue(d) : Queue(d)[i] = g
      BY <2>1 DEF QueueInv
    <2>3. PICK i \in DOMAIN Queue(d) : Queue(d)[i] = g
      BY <2>2
    <2>4. CASE d = c
      <3>1. i # 1
        BY <1>5, <2>1, <2>3, <2>4 DEF q
      <3>2. QED
        BY <1>4, <1>7, <2>3, <2>4, <3>1 DEF q
    <2>5. CASE d # c
      BY <1>4, <2>3, <2>5
    <2>6. QED
      BY <2>4, <2>5
  <1>11. QueueInv'
    BY <1>8, <1>9, <1>10 DEF QueueInv, Queue, Fate
  <1>13. QED
    BY <1>5, <1>6, <1>11 DEF f, Fate

DoneFates == {"forwarded", "delivered", "bad"}

\* A socket is closed: what was in it is lost, and so is the frame in the hand of its task.
LEMMA DiscardedQueue ==
    ASSUME Typed, QueueInv, HandInv, NEW c \in Conns,
           inbound' = [inbound EXCEPT ![c].queue = <<>>], frame' = Discarded(c)
    PROVE  /\ QueueInv'
           /\ \A g \in Frames : /\ frame'[g].hops = frame[g].hops
                                /\ frame'[g].fate \in DoneFates <=> frame[g].fate \in DoneFates
                                /\ g # task[c].hand =>
                                       (frame'[g].fate = "hand" <=> frame[g].fate = "hand")
           /\ InForward(c) => frame'[task[c].hand].fate = "failed"
           /\ \A g \in Frames : frame'[g].fate = "forwarded" <=> frame[g].fate = "forwarded"
  <1>1. inbound \in [Conns -> InboundSet] /\ frame \in [Frames -> FrameSet]
    BY DEF Typed, Types
  <1>2. \A d \in Conns : Queue(d) \in Seq(Frames)
    BY <1>1 DEF InboundSet, Queue
  <1>3. /\ inbound'[c].queue = <<>>
        /\ \A d \in Conns \ {c} : inbound'[d].queue = Queue(d)
    BY <1>1 DEF InboundSet, Queue
  <1>4. \A g \in Frames :
            /\ frame'[g].hops = frame[g].hops
            /\ g \in Unread(c) => frame'[g].fate = "dropped"
            /\ g \notin Unread(c) /\ g = task[c].hand => frame'[g].fate = "failed"
            /\ g \notin Unread(c) /\ g # task[c].hand => frame'[g].fate = frame[g].fate
    BY <1>1 DEF Discarded, FrameSet
  <1>5. Unread(c) = {Queue(c)[i] : i \in DOMAIN Queue(c)}
    BY DEF Unread, Queue
  <1>6. \A g \in Unread(c) : frame[g].fate = "queued"
    BY <1>5 DEF QueueInv, Fate
  <1>7. IF InForward(c) THEN task[c].hand \in Frames /\ frame[task[c].hand].fate = "hand"
                        ELSE task[c].hand \notin Frames
    BY RelayAssumption DEF HandInv, InForward, Typed, TaskShape, Fate
  <1>8. \A d \in Conns : \A i \in DOMAIN inbound'[d].queue :
            frame'[inbound'[d].queue[i]].fate = "queued"
    <2> SUFFICES ASSUME NEW d \in Conns \ {c}, NEW i \in DOMAIN Queue(d)
                 PROVE  frame'[Queue(d)[i]].fate = "queued"
      BY <1>3
    <2>1. frame[Queue(d)[i]].fate = "queued" /\ Queue(d)[i] \in Frames
      BY <1>2 DEF QueueInv, Fate
    <2>2. Queue(d)[i] \notin Unread(c)
      BY <1>5 DEF QueueInv
    <2>3. Queue(d)[i] # task[c].hand
      BY <1>7, <2>1
    <2>4. QED
      BY <1>4, <2>1, <2>2, <2>3
  <1>9. \A d, e \in Conns : \A i \in DOMAIN inbound'[d].queue, j \in DOMAIN inbound'[e].queue :
            inbound'[d].queue[i] = inbound'[e].queue[j] => d = e /\ i = j
    BY <1>3 DEF QueueInv
  <1>10. \A g \in Frames : frame'[g].fate = "queued" =>
            \E d \in Conns : \E i \in DOMAIN inbound'[d].queue : inbound'[d].queue[i] = g
    <2> SUFFICES ASSUME NEW g \in Frames, frame'[g].fate = "queued"
                 PROVE  \E d \in Conns : \E i \in DOMAIN inbound'[d].queue : inbound'[d].queue[i] = g
      OBVIOUS
    <2>1. g \notin Unread(c) /\ frame[g].fate = "queued"
      BY <1>4
    <2>2. PICK d \in Conns : \E i \in DOMAIN Queue(d) : Queue(d)[i] = g
      BY <2>1 DEF QueueInv, Fate
    <2>3. d # c
      BY <1>5, <2>1, <2>2
    <2>4. QED
      BY <1>3, <2>2, <2>3
  <1>11. QueueInv'
    BY <1>8, <1>9, <1>10 DEF QueueInv, Queue, Fate
  <1>12. InForward(c) => frame'[task[c].hand].fate = "failed"
    BY <1>4, <1>6, <1>7
  <1>13. \A g \in Frames : /\ frame'[g].fate \in DoneFates <=> frame[g].fate \in DoneFates
                           /\ g # task[c].hand =>
                                  (frame'[g].fate = "hand" <=> frame[g].fate = "hand")
                           /\ frame'[g].fate = "forwarded" <=> frame[g].fate = "forwarded"
    BY <1>4, <1>6, <1>7 DEF DoneFates
  <1>14. QED
    BY <1>4, <1>11, <1>12, <1>13

\* A task takes a frame into its hand.
LEMMA TakesIntoHand ==
    ASSUME Typed, HandInv, NEW c \in Conns, NEW f \in Frames,
           ~InForward(c), Fate(f) # "hand",
           task'[c].pc \in Forwarding, task'[c].hand = f,
           \A d \in Conns \ {c} : task'[d] = task[d],
           frame'[f].fate = "hand", \A g \in Frames \ {f} : frame'[g] = frame[g]
    PROVE  HandInv'
  <1>1. \A d \in Conns : InForward(d) => task[d].hand \in Frames \ {f}
    BY DEF HandInv, InForward, Typed, TaskShape
  <1>2. \A d \in Conns : IF InForward(d)' THEN frame'[task'[d].hand].fate = "hand"
                                          ELSE task'[d].hand = NoFrame
    BY <1>1 DEF HandInv, InForward, Fate
  <1>3. \A d, e \in Conns :
            InForward(d)' /\ InForward(e)' /\ task'[d].hand = task'[e].hand => d = e
    BY <1>1 DEF HandInv, InForward
  <1>4. \A g \in Frames : frame'[g].fate = "hand" =>
            \E d \in Conns : InForward(d)' /\ task'[d].hand = g
    <2> SUFFICES ASSUME NEW g \in Frames, frame'[g].fate = "hand"
                 PROVE  \E d \in Conns : task'[d].pc \in Forwarding /\ task'[d].hand = g
      BY DEF InForward
    <2>1. CASE g = f
      BY <2>1
    <2>2. CASE g # f
      <3>1. PICK d \in Conns : InForward(d) /\ task[d].hand = g
        BY <2>2 DEF HandInv, Fate
      <3>2. d # c
        BY <3>1
      <3>3. QED
        BY <3>1, <3>2 DEF InForward
    <2>3. QED
      BY <2>1, <2>2
  <1>5. QED
    BY <1>2, <1>3, <1>4 DEF HandInv, Fate

\* A task is done with the frame in its hand.
LEMMA LetsGo ==
    ASSUME Typed, HandInv, NEW c \in Conns, NEW f \in Frames,
           InForward(c), f = task[c].hand,
           task'[c].pc \notin Forwarding, task'[c].hand = NoFrame,
           \A d \in Conns \ {c} : task'[d] = task[d],
           frame'[f].fate # "hand",
           \A g \in Frames : g # f => (frame'[g].fate = "hand" <=> frame[g].fate = "hand")
    PROVE  HandInv'
  <1>1. \A d \in Conns \ {c} : InForward(d) => task[d].hand \in Frames \ {f}
    BY DEF HandInv, InForward, Typed, TaskShape
  <1>2. \A d \in Conns : IF InForward(d)' THEN frame'[task'[d].hand].fate = "hand"
                                          ELSE task'[d].hand = NoFrame
    BY <1>1 DEF HandInv, InForward, Fate
  <1>3. \A d, e \in Conns :
            InForward(d)' /\ InForward(e)' /\ task'[d].hand = task'[e].hand => d = e
    BY <1>1 DEF HandInv, InForward
  <1>4. \A g \in Frames : frame'[g].fate = "hand" =>
            \E d \in Conns : InForward(d)' /\ task'[d].hand = g
    <2> SUFFICES ASSUME NEW g \in Frames, frame'[g].fate = "hand"
                 PROVE  \E d \in Conns : task'[d].pc \in Forwarding /\ task'[d].hand = g
      BY DEF InForward
    <2>1. g # f /\ frame[g].fate = "hand"
      OBVIOUS
    <2>2. PICK d \in Conns : InForward(d) /\ task[d].hand = g
      BY <2>1 DEF HandInv, Fate
    <2>3. QED
      BY <2>1, <2>2 DEF InForward
  <1>5. QED
    BY <1>2, <1>3, <1>4 DEF HandInv, Fate

------------------------------------------------------------------------------
(***************************************************************************)
(* Where streams lead.  The pool keeps each stream under the hop at its    *)
(* other end, so what get_or_connect returns leads to the next hop of the  *)
(* frame in hand.                                                          *)
(***************************************************************************)
Ready == {"lock", "wlen", "wbody"}

RouteInv ==
    /\ \A h \in Hops : pool[h] # NoStream => stream[pool[h]].hop = h
    /\ \A c \in Conns : task[c].pc \in Ready => stream[task[c].conn].hop = Hop(c)

\* Steps that redirect no stream and take none.
LEMMA SameRoute ==
    ASSUME Typed, RouteInv, NEW c \in Conns,
           \A s \in Streams : stream'[s].hop = stream[s].hop,
           \A h \in Hops : pool'[h] \in {pool[h], NoStream},
           \A d \in Conns \ {c} : task'[d] = task[d],
           task'[c].pc \in Ready => /\ task[c].pc \in Ready
                                    /\ task'[c].conn = task[c].conn
                                    /\ task'[c].hand = task[c].hand
    PROVE  RouteInv'
  <1>1. \A d \in Conns : task[d].pc \in Ready => task[d].conn \in Streams
    BY DEF Typed, TaskShape, Ready
  <1>2. \A h \in Hops : pool[h] \in Streams \cup {NoStream}
    BY DEF Typed, Types
  <1>3. QED
    BY <1>1, <1>2 DEF RouteInv, Hop

\* A pooled stream leads to the hop it is filed under.
LEMMA GetPooledRoute ==
    ASSUME Typed, RouteInv, NEW c \in Conns, GetPooled(c)
    PROVE  RouteInv'
  <1>1. /\ task'[c].conn = pool[Hop(c)] /\ task'[c].hand = task[c].hand
        /\ \A d \in Conns \ {c} : task'[d] = task[d]
        /\ UNCHANGED <<pool, stream>> /\ pool[Hop(c)] # NoStream
    BY DEF GetPooled, Typed, Types, TaskSet
  <1>2. task[c].hand \in Frames
    BY DEF GetPooled, At, Typed, TaskShape, Forwarding
  <1>3. Hop(c) \in Hops
    BY <1>2, RelayAssumption DEF Hop
  <1>4. stream[pool[Hop(c)]].hop = Hop(c)
    BY <1>1, <1>3 DEF RouteInv
  <1>5. QED
    BY <1>1, <1>4 DEF RouteInv, Hop

\* A new stream leads to the hop that was dialled.
LEMMA DialOkRoute ==
    ASSUME Typed, RouteInv, NEW c \in Conns, DialOk(c)
    PROVE  RouteInv'
  <1> DEFINE s == NewStream
  <1>1. s \in Streams /\ Dropped(s)
    BY DEF DialOk, NewStream
  <1>2. task[c].hand \in Frames /\ Hop(c) \in Hops
    <2>1. task[c].hand \in Frames
      BY DEF DialOk, At, Typed, TaskShape, Forwarding
    <2>2. QED
      BY <2>1, RelayAssumption DEF Hop
  <1>3. /\ stream'[s].hop = Hop(c)
        /\ \A x \in Streams \ {s} : stream'[x] = stream[x]
        /\ pool'[Hop(c)] = s
        /\ \A h \in Hops \ {Hop(c)} : pool'[h] = pool[h]
    BY <1>1, <1>2 DEF DialOk, Typed, Types
  <1>4. /\ task'[c].conn = s /\ task'[c].hand = task[c].hand
        /\ \A d \in Conns \ {c} : task'[d] = task[d]
    BY DEF DialOk, Typed, Types, TaskSet
  <1>5. /\ \A d \in Conns : task[d].conn # s
        /\ \A h \in Hops : pool[h] # s
    BY <1>1 DEF Dropped
  <1>6. \A d \in Conns : task[d].pc \in Ready => task[d].conn \in Streams
    BY DEF Typed, TaskShape, Ready
  <1>7. \A h \in Hops : pool[h] \in Streams \cup {NoStream}
    BY DEF Typed, Types
  <1> HIDE DEF s
  <1>8. \A h \in Hops : pool'[h] # NoStream => stream'[pool'[h]].hop = h
    BY <1>3, <1>5, <1>7 DEF RouteInv
  <1>9. \A d \in Conns : task'[d].pc \in Ready
            => stream'[task'[d].conn].hop = NextHop[task'[d].hand]
    BY <1>3, <1>4, <1>5, <1>6 DEF RouteInv, Hop
  <1>10. QED
    BY <1>8, <1>9 DEF RouteInv, Hop

\* The other steps of connections and tasks redirect nothing.
LEMMA ConnRoute ==
    ASSUME Typed, RouteInv, NEW c \in Conns,
           \/ Connect(c) \/ PeerCloses(c) \/ (\E f \in Frames : PeerWrites(c, f))
           \/ Accept(c) \/ Reject(c) \/ Task(c)
    PROVE  RouteInv'
  <1> USE DEF At, GoTo
  <1>1. task \in [Conns -> TaskSet] /\ stream \in [Streams -> StreamSet]
        /\ pool \in [Hops -> Streams \cup {NoStream}]
    BY DEF Typed, Types
  <1>2. CASE PeerCloses(c) \/ (\E f \in Frames : PeerWrites(c, f)) \/ ReadBad(c) \/ ReadDeliver(c)
    <2>1. UNCHANGED <<task, pool, stream>>
      BY <1>2 DEF PeerCloses, PeerWrites, ReadBad, ReadDeliver
    <2>2. QED
      BY <2>1, SameRoute
  <1>3. CASE Connect(c) \/ Accept(c) \/ Reject(c) \/ GetMissing(c)
    <2>1. UNCHANGED <<pool, stream>> /\ \E where \in {"backlog", "read", "refused", "dial"} :
              task' = [task EXCEPT ![c].pc = where]
      BY <1>3 DEF Connect, Accept, Reject, GetMissing
    <2>2. task'[c].pc \notin Ready /\ \A d \in Conns \ {c} : task'[d] = task[d]
      BY <1>1, <2>1 DEF TaskSet, Ready
    <2>3. QED
      BY <2>1, <2>2, SameRoute
  <1>4. CASE ReadEnd(c) \/ DialFails(c) \/ WriteFailsTwice(c) \/ WriteBody(c)
    <2>1. \A d \in Conns \ {c} : task'[d] = task[d]
      BY <1>1, <1>4 DEF ReadEnd, DialFails, WriteFailsTwice, WriteBody, EndTask
    <2>2. task'[c].pc \in {"read", "closed"}
      BY <1>1, <1>4 DEF ReadEnd, DialFails, WriteFailsTwice, WriteBody, EndTask,
                        AfterWrite, AtRest
    <2>3. UNCHANGED pool
      BY <1>4 DEF ReadEnd, DialFails, WriteFailsTwice, WriteBody
    <2>4. \A s \in Streams : stream'[s].hop = stream[s].hop
      <3>1. CASE ReadEnd(c) \/ DialFails(c)
        BY <3>1 DEF ReadEnd, DialFails
      <3>2. CASE WriteFailsTwice(c)
        BY <1>1, <3>2 DEF WriteFailsTwice, WriteFails, Broken, StreamSet
      <3>3. CASE WriteBody(c)
        BY <1>1, <3>3 DEF WriteBody, StreamSet
      <3>4. QED
        BY <1>4, <3>1, <3>2, <3>3
    <2>5. QED
      BY <2>1, <2>2, <2>3, <2>4, SameRoute DEF Ready
  <1>5. CASE ReadForward(c) \/ Evict(c)
    <2>1. task'[c].pc = "get" /\ \A d \in Conns \ {c} : task'[d] = task[d]
      BY <1>1, <1>5 DEF ReadForward, Evict, TaskSet
    <2>2. UNCHANGED stream /\ \A h \in Hops : pool'[h] \in {pool[h], NoStream}
      BY <1>1, <1>5 DEF ReadForward, Evict, Evicted
    <2>3. QED
      BY <2>1, <2>2, SameRoute DEF Ready
  <1>6. CASE LockStream(c) \/ WriteLen(c)
    <2>1. /\ task[c].pc \in Ready /\ task'[c].conn = task[c].conn /\ task'[c].hand = task[c].hand
          /\ \A d \in Conns \ {c} : task'[d] = task[d]
      BY <1>1, <1>6 DEF LockStream, WriteLen, TaskSet, Ready
    <2>2. UNCHANGED pool
      BY <1>6 DEF LockStream, WriteLen
    <2>3. \A s \in Streams : stream'[s].hop = stream[s].hop
      <3>1. CASE LockStream(c)
        BY <1>1, <3>1 DEF LockStream, StreamSet
      <3>2. CASE WriteLen(c)
        BY <1>1, <3>2 DEF WriteLen, StreamSet
      <3>3. QED
        BY <1>6, <3>1, <3>2
    <2>4. QED
      BY <2>1, <2>2, <2>3, SameRoute
  <1>7. CASE WriteFailsOnce(c)
    <2>1. task'[c].pc = "evict" /\ \A d \in Conns \ {c} : task'[d] = task[d]
      BY <1>1, <1>7 DEF WriteFailsOnce, ToEviction, TaskSet
    <2>2. UNCHANGED pool /\ \A s \in Streams : stream'[s].hop = stream[s].hop
      BY <1>1, <1>7 DEF WriteFailsOnce, WriteFails, Broken, StreamSet
    <2>3. QED
      BY <2>1, <2>2, SameRoute DEF Ready
  <1>8. QED
    BY <1>2, <1>3, <1>4, <1>5, <1>6, <1>7, GetPooledRoute, DialOkRoute DEF Task

\* A stream that breaks leads where it led.
LEMMA HopClosesRoute ==
    ASSUME Typed, RouteInv, NEW s \in Streams, HopCloses(s)
    PROVE  RouteInv'
  <1>1. \A x \in Streams : stream'[x].hop = stream[x].hop
    BY DEF HopCloses, Typed, Types, StreamSet
  <1>2. UNCHANGED <<task, pool>>
    BY DEF HopCloses
  <1>3. \A d \in Conns : task[d].pc \in Ready => task[d].conn \in Streams
    BY DEF Typed, TaskShape, Ready
  <1>4. \A h \in Hops : pool[h] \in Streams \cup {NoStream}
    BY DEF Typed, Types
  <1>5. QED
    BY <1>1, <1>2, <1>3, <1>4 DEF RouteInv, Hop

------------------------------------------------------------------------------
(***************************************************************************)
(* The counters of Metrics count frames: each frame that was forwarded,    *)
(* delivered or found bad once, and no other.                              *)
(***************************************************************************)
Done == {f \in Frames : Fate(f) \in DoneFates}

Total == metrics.forwarded + metrics.delivered + metrics.failures

CountInv == IsFiniteSet(Done) /\ Total = Cardinality(Done)

\* A step that settles no frame and counts none.
LEMMA SameCount ==
    ASSUME CountInv, \A g \in Frames : Fate(g)' \in DoneFates <=> Fate(g) \in DoneFates,
           Total' = Total
    PROVE  CountInv'
  <1>1. Done' = Done
    BY DEF Done
  <1>2. QED
    BY <1>1 DEF CountInv

\* A step that settles one frame and counts it.
LEMMA OneMore ==
    ASSUME Typed, CountInv, NEW f \in Frames,
           Fate(f) \notin DoneFates, frame'[f].fate \in DoneFates,
           \A g \in Frames \ {f} : frame'[g] = frame[g],
           \/ metrics' = [metrics EXCEPT !.forwarded = @ + 1]
           \/ metrics' = [metrics EXCEPT !.delivered = @ + 1]
           \/ metrics' = [metrics EXCEPT !.failures = @ + 1]
    PROVE  CountInv'
  <1>1. Done' = Done \cup {f} /\ f \notin Done
    BY DEF Done, Fate
  <1>2. Cardinality(Done') = Cardinality(Done) + 1 /\ IsFiniteSet(Done')
    BY <1>1, FS_AddElement DEF CountInv
  <1>3. Total' = Total + 1
    BY DEF Total, Typed, Types, MetricsSet
  <1>4. QED
    BY <1>2, <1>3 DEF CountInv

FrameInv == QueueInv /\ HandInv /\ ArrivesOnceOnly /\ CountInv

\* Steps that leave every frame where it is.
Quiet ==
    /\ UNCHANGED <<frame, metrics>>
    /\ \A c \in Conns : /\ inbound'[c].queue = inbound[c].queue
                        /\ task'[c].pc \in Forwarding <=> task[c].pc \in Forwarding
                        /\ task'[c].hand = task[c].hand

\* Steps without a frame settled keep FrameInv.
LEMMA QuietFrame ==
    ASSUME Typed, FrameInv, Quiet
    PROVE  FrameInv'
  <1>1. SameQueues /\ SameHands
    BY DEF Quiet, SameQueues, SameHands, Queue, Fate, InForward
  <1>2. QueueInv' /\ HandInv'
    BY <1>1, SameQueuesInv, SameHandsInv DEF FrameInv
  <1>3. CountInv'
    BY SameCount DEF FrameInv, Quiet, Fate, Total
  <1>4. QED
    BY <1>2, <1>3 DEF FrameInv, Quiet, ArrivesOnceOnly

\* Which steps these are.
LEMMA QuietSteps ==
    ASSUME Typed, NEW c \in Conns,
           \/ Connect(c) \/ PeerCloses(c) \/ Accept(c) \/ GetPooled(c) \/ GetMissing(c)
           \/ DialOk(c) \/ LockStream(c) \/ WriteLen(c) \/ WriteFailsOnce(c) \/ Evict(c)
    PROVE  Quiet
  <1> USE DEF At, GoTo
  <1>1. task \in [Conns -> TaskSet] /\ inbound \in [Conns -> InboundSet]
    BY DEF Typed, Types
  <1>2. CASE PeerCloses(c)
    BY <1>1, <1>2 DEF PeerCloses, Quiet, InboundSet
  <1>3. CASE ~PeerCloses(c)
    <2>1. UNCHANGED <<frame, metrics, inbound>>
      BY <1>3 DEF Connect, Accept, GetPooled, GetMissing, DialOk, LockStream,
                  WriteLen, WriteFailsOnce, Evict
    <2>2. \A d \in Conns \ {c} : task'[d] = task[d]
      BY <1>1, <1>3 DEF Connect, Accept, GetPooled, GetMissing, DialOk, LockStream,
                        WriteLen, WriteFailsOnce, Evict, ToEviction
    <2>3. /\ task'[c].pc \in Forwarding <=> task[c].pc \in Forwarding
          /\ task'[c].hand = task[c].hand
      <3>1. CASE Connect(c) \/ Accept(c)
        BY <1>1, <3>1 DEF Connect, Accept, TaskSet, Forwarding
      <3>2. CASE GetPooled(c) \/ GetMissing(c) \/ DialOk(c)
        BY <1>1, <3>2 DEF GetPooled, GetMissing, DialOk, TaskSet, Forwarding
      <3>3. CASE LockStream(c) \/ WriteLen(c) \/ WriteFailsOnce(c) \/ Evict(c)
        BY <1>1, <3>3 DEF LockStream, WriteLen, WriteFailsOnce, WriteFails, ToEviction,
                          Evict, TaskSet, Forwarding
      <3>4. QED
        BY <1>3, <3>1, <3>2, <3>3
    <2>4. QED
      BY <2>1, <2>2, <2>3 DEF Quiet
  <1>4. QED
    BY <1>2, <1>3

\* A frame that is not forwarded has arrived nowhere.
LEMMA NotYetArrived ==
    ASSUME FrameInv, NEW f \in Frames, Fate(f) # "forwarded"
    PROVE  frame[f].hops = <<>>
  BY DEF FrameInv, ArrivesOnceOnly, Fate

\* The peers write, the accept loop refuses.
LEMMA PeersFrame ==
    ASSUME Typed, FrameInv, NEW c \in Conns,
           Reject(c) \/ \E f \in Frames : PeerWrites(c, f)
    PROVE  FrameInv'
  <1>1. ASSUME NEW f \in Frames, PeerWrites(c, f) PROVE FrameInv'
    <2>1. QueueInv' /\ HandInv'
      BY <1>1, PeerWritesQueue, SameHandsInv DEF FrameInv
    <2>2. /\ frame[f].fate = "unsent" /\ frame'[f].fate = "queued"
          /\ frame'[f].hops = frame[f].hops
          /\ \A g \in Frames \ {f} : frame'[g] = frame[g]
          /\ metrics' = metrics
      BY <1>1 DEF PeerWrites, Typed, Types, FrameSet
    <2>3. CountInv'
      BY <2>2, SameCount DEF FrameInv, Fate, DoneFates, Total
    <2>4. ArrivesOnceOnly'
      BY <2>2 DEF FrameInv, ArrivesOnceOnly
    <2>5. QED
      BY <2>1, <2>3, <2>4 DEF FrameInv
  <1>2. CASE Reject(c)
    <2>1. inbound' = [inbound EXCEPT ![c].queue = <<>>] /\ frame' = Discarded(c)
      BY <1>2 DEF Reject
    <2>2. ~InForward(c) /\ task[c].hand = NoFrame /\ NoFrame \notin Frames
      BY <1>2, RelayAssumption DEF Reject, At, Forwarding, InForward, FrameInv, HandInv
    <2>3. /\ QueueInv'
          /\ \A g \in Frames : /\ frame'[g].hops = frame[g].hops
                               /\ frame'[g].fate \in DoneFates <=> frame[g].fate \in DoneFates
                               /\ frame'[g].fate = "hand" <=> frame[g].fate = "hand"
                               /\ frame'[g].fate = "forwarded" <=> frame[g].fate = "forwarded"
      BY <2>1, <2>2, DiscardedQueue DEF FrameInv
    <2>4. Total' = Total
      BY <1>2 DEF Reject, Total, Typed, Types, MetricsSet
    <2>5. CountInv'
      BY <2>3, <2>4, SameCount DEF FrameInv, Fate
    <2>6. \A d \in Conns : /\ task'[d].pc \in Forwarding <=> task[d].pc \in Forwarding
                           /\ task'[d].hand = task[d].hand
      BY <1>2 DEF Reject, GoTo, At, Typed, Types, TaskSet, Forwarding
    <2>7. HandInv'
      BY <2>3, <2>6, SameHandsInv DEF SameHands, InForward, Fate, FrameInv
    <2>8. ArrivesOnceOnly'
      BY <2>3 DEF FrameInv, ArrivesOnceOnly
    <2>9. QED
      BY <2>3, <2>5, <2>7, <2>8 DEF FrameInv
  <1>3. QED
    BY <1>1, <1>2

\* A task ends: the frame in its hand, if any, is lost with what it has not read.
LEMMA EndTaskFrame ==
    ASSUME Typed, FrameInv, NEW c \in Conns, EndTask(c), UNCHANGED metrics
    PROVE  FrameInv'
  <1>1. /\ inbound' = [inbound EXCEPT ![c].queue = <<>>] /\ frame' = Discarded(c)
        /\ task' = [task EXCEPT ![c] = AtRest("closed")]
    BY DEF EndTask
  <1>2. /\ task'[c].pc \notin Forwarding /\ task'[c].hand = NoFrame
        /\ \A d \in Conns \ {c} : task'[d] = task[d]
    BY <1>1 DEF Typed, Types, AtRest, Forwarding
  <1>3. /\ QueueInv'
        /\ \A g \in Frames : /\ frame'[g].hops = frame[g].hops
                             /\ frame'[g].fate \in DoneFates <=> frame[g].fate \in DoneFates
                             /\ g # task[c].hand =>
                                    (frame'[g].fate = "hand" <=> frame[g].fate = "hand")
                             /\ frame'[g].fate = "forwarded" <=> frame[g].fate = "forwarded"
        /\ InForward(c) => frame'[task[c].hand].fate = "failed"
    BY <1>1, DiscardedQueue DEF FrameInv
  <1>4. CountInv'
    BY <1>3, SameCount DEF FrameInv, Fate, Total
  <1>5. HandInv'
    <2>1. CASE InForward(c)
      <3>1. task[c].hand \in Frames /\ frame'[task[c].hand].fate # "hand"
        BY <1>3, <2>1 DEF InForward, Typed, TaskShape
      <3>2. QED
        BY <1>2, <1>3, <2>1, <3>1, LetsGo DEF FrameInv
    <2>2. CASE ~InForward(c)
      <3>1. task[c].hand = NoFrame /\ NoFrame \notin Frames
        BY <2>2, RelayAssumption DEF FrameInv, HandInv
      <3>2. \A d \in Conns : /\ task'[d].pc \in Forwarding <=> task[d].pc \in Forwarding
                             /\ task'[d].hand = task[d].hand
        BY <1>2, <2>2, <3>1 DEF InForward
      <3>3. \A g \in Frames : frame'[g].fate = "hand" <=> frame[g].fate = "hand"
        BY <1>3, <3>1
      <3>4. QED
        BY <3>2, <3>3, SameHandsInv DEF SameHands, InForward, Fate, FrameInv
    <2>3. QED
      BY <2>1, <2>2
  <1>6. ArrivesOnceOnly'
    BY <1>3 DEF FrameInv, ArrivesOnceOnly
  <1>7. QED
    BY <1>3, <1>4, <1>5, <1>6 DEF FrameInv

\* handle_connection reads a frame.
LEMMA ReadFrame ==
    ASSUME Typed, FrameInv, NEW c \in Conns,
           ReadBad(c) \/ ReadDeliver(c) \/ ReadForward(c)
    PROVE  FrameInv'
  <1> DEFINE f == Head(Queue(c))
  <1>1. PICK kind \in {"bad", "deliver", "forward"}, fate \in {"bad", "delivered", "hand"} :
            /\ TakeFrame(c, kind, fate)
            /\ fate = "hand" <=> ReadForward(c)
    <2>1. CASE ReadBad(c)
      <3>1. TakeFrame(c, "bad", "bad") /\ ~ReadForward(c)
        BY <2>1 DEF ReadBad, ReadForward, TakeFrame
      <3>2. QED
        BY <3>1
    <2>2. CASE ReadDeliver(c)
      <3>1. TakeFrame(c, "deliver", "delivered") /\ ~ReadForward(c)
        BY <2>2 DEF ReadDeliver, ReadForward, TakeFrame
      <3>2. QED
        BY <3>1
    <2>3. CASE ReadForward(c)
      <3>1. TakeFrame(c, "forward", "hand")
        BY <2>3 DEF ReadForward
      <3>2. QED
        BY <2>3, <3>1
    <2>4. QED
      BY <2>1, <2>2, <2>3
  <1>2. /\ QueueInv'
        /\ f \in Frames /\ frame[f].fate = "queued"
        /\ frame'[f].fate = fate
        /\ \A g \in Frames \ {f} : frame'[g] = frame[g]
        /\ \A g \in Frames : frame'[g].hops = frame[g].hops
    BY <1>1, TakeFrameQueue DEF FrameInv, Fate
  <1>3. task[c].pc = "read" /\ ~InForward(c)
    BY <1>1 DEF TakeFrame, At, InForward, Forwarding
  <1>4. f = Head(inbound[c].queue)
    BY DEF Queue
  <1>5. ArrivesOnceOnly'
    <2>1. frame[f].hops = <<>>
      BY <1>2, NotYetArrived DEF Fate
    <2>2. QED
      BY <1>2, <2>1 DEF FrameInv, ArrivesOnceOnly
  <1>6. CASE ReadForward(c)
    <2>1. /\ task'[c].pc = "get" /\ task'[c].hand = f
          /\ \A d \in Conns \ {c} : task'[d] = task[d]
      BY <1>4, <1>6 DEF ReadForward, Typed, Types, TaskSet
    <2> HIDE DEF f
    <2>2. HandInv'
      BY <1>1, <1>2, <1>3, <1>6, <2>1, TakesIntoHand DEF FrameInv, Fate, Forwarding
    <2>3. CountInv'
      <3>1. metrics' = metrics
        BY <1>6 DEF ReadForward
      <3>2. \A g \in Frames : Fate(g)' \in DoneFates <=> Fate(g) \in DoneFates
        BY <1>1, <1>2, <1>6 DEF Fate, DoneFates
      <3>3. QED
        BY <3>1, <3>2, SameCount DEF FrameInv, Total
    <2>4. QED
      BY <1>2, <1>5, <2>2, <2>3 DEF FrameInv
  <1>7. CASE ~ReadForward(c)
    <2>1. task' = task /\ fate \in {"bad", "delivered"}
      BY <1>1, <1>7 DEF ReadBad, ReadDeliver
    <2> HIDE DEF f
    <2>2. HandInv'
      BY <1>2, <2>1, SameHandsInv DEF SameHands, InForward, Fate, FrameInv
    <2>3. \/ metrics' = [metrics EXCEPT !.delivered = @ + 1]
          \/ metrics' = [metrics EXCEPT !.failures = @ + 1]
      BY <1>7 DEF ReadBad, ReadDeliver
    <2>4. CountInv'
      BY <1>2, <2>1, <2>3, OneMore DEF FrameInv, Fate, DoneFates
    <2>5. QED
      BY <1>2, <1>5, <2>2, <2>4 DEF FrameInv
  <1>8. QED
    BY <1>6, <1>7

(***************************************************************************)
(* write_frame succeeds: the frame had arrived nowhere, and the stream     *)
(* leads to its next hop.                                                  *)
(***************************************************************************)
LEMMA WriteBodyFrame ==
    ASSUME Typed, FrameInv, RouteInv, NEW c \in Conns, WriteBody(c)
    PROVE  FrameInv'
  <1> DEFINE f == task[c].hand
  <1>1. task[c].pc = "wbody" /\ InForward(c) /\ f \in Frames
    BY DEF WriteBody, At, Typed, TaskShape, Forwarding, InForward
  <1>2. Fate(f) = "hand" /\ frame[f].hops = <<>>
    <2>1. Fate(f) = "hand"
      BY <1>1 DEF FrameInv, HandInv
    <2>2. QED
      BY <1>1, <2>1, NotYetArrived
  <1>3. stream[task[c].conn].hop = NextHop[f]
    BY <1>1 DEF RouteInv, Ready, Hop
  <1>4. /\ frame'[f].fate = "forwarded"
        /\ frame'[f].hops = IF Received(c) THEN Append(frame[f].hops, stream[task[c].conn].hop)
                                           ELSE frame[f].hops
        /\ \A g \in Frames \ {f} : frame'[g] = frame[g]
    BY <1>1 DEF WriteBody, Typed, Types, FrameSet
  <1>5. /\ task'[c].pc \notin Forwarding /\ task'[c].hand = NoFrame
        /\ \A d \in Conns \ {c} : task'[d] = task[d]
    BY DEF WriteBody, AfterWrite, AtRest, Forwarding, Typed, Types
  <1>6. metrics' = [metrics EXCEPT !.forwarded = @ + 1] /\ inbound' = inbound
    BY DEF WriteBody
  <1>7. NextHop[f] \in Hops
    BY <1>1, RelayAssumption
  <1>8. f = task[c].hand
    OBVIOUS
  <1> HIDE DEF f
  <1>9. ArrivesOnceOnly'
    <2>1. Append(<<>>, NextHop[f]) = <<NextHop[f]>>
      BY <1>7
    <2>2. QED
      BY <1>2, <1>3, <1>4, <2>1 DEF FrameInv, ArrivesOnceOnly
  <1>10. CountInv'
    BY <1>1, <1>2, <1>4, <1>6, OneMore DEF FrameInv, DoneFates
  <1>11. HandInv'
    BY <1>1, <1>4, <1>5, <1>8, LetsGo DEF FrameInv
  <1>12. QueueInv'
    BY <1>1, <1>2, <1>4, <1>6, SameQueuesInv DEF FrameInv, SameQueues, Queue, Fate
  <1>13. QED
    BY <1>9, <1>10, <1>11, <1>12 DEF FrameInv

\* The invariants of the routes and of the frames are inductive.
LEMMA NextFrame == Typed /\ RouteInv /\ FrameInv /\ [Next]_vars => RouteInv' /\ FrameInv'
  <1> SUFFICES ASSUME Typed, RouteInv, FrameInv, [Next]_vars PROVE RouteInv' /\ FrameInv'
    OBVIOUS
  <1>1. ASSUME NEW c \in Conns,
               ReadEnd(c) \/ DialFails(c) \/ WriteFailsTwice(c)
        PROVE  FrameInv'
    BY <1>1, EndTaskFrame DEF ReadEnd, DialFails, WriteFailsTwice
  <1>2. ASSUME NEW c \in Conns, Task(c) PROVE FrameInv'
    BY <1>1, <1>2, ReadFrame, WriteBodyFrame, QuietSteps, QuietFrame DEF Task
  <1>3. ASSUME NEW c \in Conns, Connect(c) \/ PeerCloses(c) \/ Accept(c) PROVE FrameInv'
    BY <1>3, QuietSteps, QuietFrame
  <1>4. ASSUME NEW s \in Streams, HopCloses(s) PROVE RouteInv' /\ FrameInv'
    BY <1>4, HopClosesRoute, QuietFrame DEF HopCloses, Quiet
  <1>5. CASE UNCHANGED vars
    <2>1. Quiet
      BY <1>5 DEF vars, Quiet
    <2>2. RouteInv'
      BY <1>5 DEF vars, RouteInv, Hop
    <2>3. QED
      BY <2>1, <2>2, QuietFrame
  <1>6. ASSUME NEW c \in Conns,
               \/ Connect(c) \/ PeerCloses(c) \/ (\E f \in Frames : PeerWrites(c, f))
               \/ Accept(c) \/ Reject(c) \/ Task(c)
        PROVE  RouteInv' /\ FrameInv'
    BY <1>2, <1>3, <1>6, ConnRoute, PeersFrame
  <1>7. QED
    BY <1>4, <1>5, <1>6 DEF Next

\* They hold in every reachable state.
LEMMA FrameInvariance == Spec => [](RouteInv /\ FrameInv)
  <1>1. Init => RouteInv /\ FrameInv
    <2> SUFFICES ASSUME Init PROVE RouteInv /\ FrameInv
      OBVIOUS
    <2>1. RouteInv
      BY DEF Init, RouteInv, AtRest, Ready
    <2>2. QueueInv /\ HandInv /\ ArrivesOnceOnly
      BY DEF Init, QueueInv, HandInv, ArrivesOnceOnly, Queue, Fate, InForward, AtRest, Forwarding
    <2>3. Done = {}
      BY DEF Init, Done, Fate, DoneFates
    <2>4. CountInv
      BY <2>3, FS_EmptySet DEF CountInv, Init, Total
    <2>5. QED
      BY <2>1, <2>2, <2>4 DEF FrameInv
  <1>2. IInv /\ (RouteInv /\ FrameInv) /\ [Next]_vars => (RouteInv /\ FrameInv)'
    BY NextFrame DEF IInv
  <1>3. QED
    BY <1>1, <1>2, Invariance, PTL DEF Spec

(***************************************************************************)
(* A frame arrives at most once, at the hop it names, and only when the    *)
(* relay counts it as forwarded: neither the retry of forward nor a shared *)
(* or evicted stream duplicates or misdirects it.                          *)
(***************************************************************************)
THEOREM FramesArriveOnce == Spec => []ArrivesOnceOnly
  <1>1. RouteInv /\ FrameInv => ArrivesOnceOnly
    BY DEF FrameInv
  <1>2. QED
    BY <1>1, FrameInvariance, PTL

(***************************************************************************)
(* Every frame that a peer wrote is in one socket, in the hand of one task *)
(* or at its end, and Metrics has counted each frame once that             *)
(* handle_connection forwarded, delivered or could not peel.               *)
(***************************************************************************)
THEOREM FramesAreAccounted == Spec => []FramesAccounted
  <1>1. IInv /\ (RouteInv /\ FrameInv) => FramesAccounted
    <2> SUFFICES ASSUME IInv, FrameInv PROVE FramesAccounted
      OBVIOUS
    <2>1. ASSUME NEW f \in Frames
          PROVE  Cardinality(WaitingIn(f)) = IF frame[f].fate = "queued" THEN 1 ELSE 0
      <3>1. CASE frame[f].fate = "queued"
        <4>1. PICK c \in Conns : \E i \in DOMAIN Queue(c) : Queue(c)[i] = f
          BY <3>1 DEF FrameInv, QueueInv, Fate
        <4>2. PICK i \in DOMAIN Queue(c) : Queue(c)[i] = f
          BY <4>1
        <4>3. \A d \in Conns : \A j \in DOMAIN Queue(d) : Queue(d)[j] = f => d = c /\ j = i
          BY <4>2 DEF FrameInv, QueueInv
        <4>4. WaitingIn(f) = {<<c, i>>}
          BY <4>2, <4>3 DEF WaitingIn, Queue
        <4>5. QED
          BY <3>1, <4>4, FS_Singleton
      <3>2. CASE frame[f].fate # "queued"
        <4>1. \A d \in Conns : \A j \in DOMAIN Queue(d) : Queue(d)[j] # f
          BY <3>2 DEF FrameInv, QueueInv, Fate
        <4>2. WaitingIn(f) = {}
          BY <4>1 DEF WaitingIn, Queue
        <4>3. QED
          BY <3>2, <4>2, FS_EmptySet
      <3>3. QED
        BY <3>1, <3>2
    <2>2. ASSUME NEW f \in Frames
          PROVE  Cardinality(HeldBy(f)) = IF frame[f].fate = "hand" THEN 1 ELSE 0
      <3>1. CASE frame[f].fate = "hand"
        <4>1. PICK c \in Conns : InForward(c) /\ task[c].hand = f
          BY <3>1 DEF FrameInv, HandInv, Fate
        <4>2. \A d \in Conns : InForward(d) /\ task[d].hand = f => d = c
          BY <4>1 DEF FrameInv, HandInv
        <4>3. HeldBy(f) = {c}
          BY <4>1, <4>2 DEF HeldBy, InForward
        <4>4. QED
          BY <3>1, <4>3, FS_Singleton
      <3>2. CASE frame[f].fate # "hand"
        <4>1. \A d \in Conns : InForward(d) => task[d].hand # f
          BY <3>2 DEF FrameInv, HandInv, Fate
        <4>2. HeldBy(f) = {}
          BY <4>1 DEF HeldBy, InForward
        <4>3. QED
          BY <3>2, <4>2, FS_EmptySet
      <3>3. QED
        BY <3>1, <3>2
    <2>3. Done = {f \in Frames : frame[f].fate \in {"forwarded", "delivered", "bad"}}
      BY DEF Done, Fate, DoneFates
    <2>4. QED
      BY <2>1, <2>2, <2>3 DEF FramesAccounted, FrameInv, CountInv, Total
  <1>2. QED
    BY <1>1, Invariance, FrameInvariance, PTL
==============================================================================
