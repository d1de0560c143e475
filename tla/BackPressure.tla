---------------------------- MODULE BackPressure -----------------------------
(***************************************************************************)
(* veil-relay: several relays (node.rs) joined by TCP connections that     *)
(* hold a bounded number of frames.  A task reads a frame and does not     *)
(* read the next one until write_frame has put the first into the          *)
(* connection to its next hop; while that one is full the task waits, and  *)
(* keeps the lock of the stream.                                           *)
(*                                                                         *)
(* RelayNode has what happens inside a relay when connections fail; here   *)
(* every connection of the pool is up and nothing fails.  A client opens   *)
(* one connection for each frame, so a task is named by the frame it was   *)
(* opened for or by the link it reads from.                                *)
(***************************************************************************)
EXTENDS Naturals, Sequences

CONSTANTS
    Relays,
    Frames,
    Circuits,  \* what the clients may have drawn: the path of each frame
    Buffer,    \* frames a connection holds that its reader has not read
    None

ASSUME BackPressureAssumption ==
    /\ Circuits \subseteq [Frames -> Seq(Relays)]
    /\ \A paths \in Circuits : \A f \in Frames :
           /\ paths[f] # <<>>
           /\ \A i, j \in DOMAIN paths[f] : paths[f][i] = paths[f][j] => i = j
    /\ Buffer \in Nat \ {0}
    /\ None \notin Frames \cup (Relays \X Relays)

Links == {l \in Relays \X Relays : l[1] # l[2]}

Tasks == Frames \cup Links

VARIABLES
    circuit,  \* the path of each frame
    hop,      \* how many relays have read it; 0: still with the client
    link,     \* frames in the connection from one relay to another
    hand,     \* the frame each task has read and not yet passed on
    holder    \* the task that has the lock of the stream of each link

vars == <<circuit, hop, link, hand, holder>>

Init == /\ circuit \in Circuits
        /\ hop = [f \in Frames |-> 0]
        /\ link = [l \in Links |-> <<>>]
        /\ hand = [t \in Tasks |-> None]
        /\ holder = [l \in Links |-> None]

AtExit(f) == hop[f] = Len(circuit[f])

(***************************************************************************)
(* The link that the frame in the hand of a task goes to.                  *)
(***************************************************************************)
Out(t) == LET f == hand[t] IN <<circuit[f][hop[f]], circuit[f][hop[f] + 1]>>

------------------------------------------------------------------------------
(***************************************************************************)
(* handle_connection reads and peels a frame; the exit hands it to the     *)
(* delivery channel, which is unbounded, and goes on.                      *)
(***************************************************************************)
Takes(t, f) ==
    /\ hand[t] = None
    /\ hop' = [hop EXCEPT ![f] = @ + 1]
    /\ hand' = IF hop[f] + 1 = Len(circuit[f]) THEN hand
                                               ELSE [hand EXCEPT ![t] = f]

Enter(f) == /\ hop[f] = 0
            /\ Takes(f, f)
            /\ UNCHANGED <<circuit, link, holder>>

Read(l) == /\ link[l] # <<>>
           /\ Takes(l, Head(link[l]))
           /\ link' = [link EXCEPT ![l] = Tail(@)]
           /\ UNCHANGED <<circuit, holder>>

\* Defect: the lock of the pool is held until the frame is written.
PoolFree(t) == \A l \in Links : l[1] = Out(t)[1] => holder[l] = None

(***************************************************************************)
(* forward: get_or_connect has let go of the pool before the stream is     *)
(* locked, and the stream stays locked while write_frame waits for room.   *)
(***************************************************************************)
StreamFree(t) == holder[Out(t)] = None

Lock(t) == /\ hand[t] # None
           /\ StreamFree(t)
           /\ holder' = [holder EXCEPT ![Out(t)] = t]
           /\ UNCHANGED <<circuit, hop, link, hand>>

Full(l) == Len(link[l]) = Buffer

\* Defect: the lock is not given back.
WriteKeepsLock(t) ==
    /\ hand[t] # None
    /\ holder[Out(t)] = t
    /\ ~Full(Out(t))
    /\ link' = [link EXCEPT ![Out(t)] = Append(@, hand[t])]
    /\ hand' = [hand EXCEPT ![t] = None]
    /\ UNCHANGED <<circuit, hop, holder>>

Write(t) ==
    /\ hand[t] # None
    /\ holder[Out(t)] = t
    /\ ~Full(Out(t))
    /\ link' = [link EXCEPT ![Out(t)] = Append(@, hand[t])]
    /\ hand' = [hand EXCEPT ![t] = None]
    /\ holder' = [holder EXCEPT ![Out(t)] = None]
    /\ UNCHANGED <<circuit, hop>>

------------------------------------------------------------------------------
Forward(t) == Lock(t) \/ Write(t)

Next == \/ \E f \in Frames : Enter(f)
        \/ \E l \in Links : Read(l)
        \/ \E t \in Tasks : Forward(t)

Spec == Init /\ [][Next]_vars

(***************************************************************************)
(* As long as a task is ready, some task is polled.  Every step takes a    *)
(* frame further, so that is enough.                                       *)
(***************************************************************************)
Fairness == WF_vars((\E l \in Links : Read(l)) \/ (\E t \in Tasks : Forward(t)))

FairSpec == Spec /\ Fairness

------------------------------------------------------------------------------
(***************************************************************************)
(* The reader of a link waits for room in the link its frame goes to.      *)
(***************************************************************************)
Blocked == {l \in Links : hand[l] # None /\ Full(Out(l))}

(***************************************************************************)
(* Some links wait for each other in a circle.  It takes circuits of three *)
(* hops and full connections all around; nothing in the code prevents it,  *)
(* and no timeout ends it.                                                 *)
(***************************************************************************)
CircularWait == \E C \in (SUBSET Blocked) \ {{}} : \A l \in C : Out(l) \in C

CanMove == \/ \E l \in Links : hand[l] = None /\ link[l] # <<>>
           \/ \E t \in Tasks : /\ hand[t] # None
                               /\ \/ StreamFree(t)
                                  \/ holder[Out(t)] = t /\ ~Full(Out(t))

(***************************************************************************)
(* A circular wait is the only way relays can block each other: whatever   *)
(* tasks hold or wait for, if there is none and a frame is on its way,     *)
(* some task can go on.                                                    *)
(***************************************************************************)
StuckOnlyInCircle ==
    (\E f \in Frames : hop[f] # 0 /\ ~AtExit(f)) => CanMove \/ CircularWait

(***************************************************************************)
(* In the end every frame that a relay has taken is at its exit, unless a  *)
(* circular wait has come about: back-pressure alone loses no frame and    *)
(* delays none for ever.                                                   *)
(***************************************************************************)
FramesDrain ==
    <>[]((\A f \in Frames : hop[f] = 0 \/ AtExit(f)) \/ CircularWait)
==============================================================================
