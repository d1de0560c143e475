------------------------- MODULE BackPressureProofs --------------------------
(***************************************************************************)
(* Proofs about BackPressure: any number of relays, frames and circuits,   *)
(* and connections of any size.                                            *)
(***************************************************************************)
EXTENDS BackPressure, TLAPS

(***************************************************************************)
(* The inductive invariant.  A frame between its first relay and its exit  *)
(* is in the hand of a task or in the connection to its next relay, and in *)
(* one such place only, so no step moves it under the feet of another; a   *)
(* stream is locked by a task that has a frame for it.                     *)
(***************************************************************************)
Types == /\ circuit \in Circuits
         /\ hop \in [Frames -> Nat]
         /\ link \in [Links -> Seq(Frames)]
         /\ hand \in [Tasks -> Frames \cup {None}]
         /\ holder \in [Links -> Tasks \cup {None}]

InTransit(f) == hop[f] > 0 /\ hop[f] < Len(circuit[f])

Ahead(f) == <<circuit[f][hop[f]], circuit[f][hop[f] + 1]>>

Hands == /\ \A t \in Tasks : hand[t] # None => InTransit(hand[t])
         /\ \A t, u \in Tasks : hand[t] # None /\ hand[t] = hand[u] => t = u

Queues == /\ \A l \in Links : \A i \in DOMAIN link[l] :
                 /\ InTransit(link[l][i]) /\ Ahead(link[l][i]) = l
                 /\ \A t \in Tasks : hand[t] # link[l][i]
          /\ \A l \in Links : \A i, j \in DOMAIN link[l] :
                 link[l][i] = link[l][j] => i = j

Somewhere == \A f \in Frames :
                 InTransit(f) => \/ \E t \in Tasks : hand[t] = f
                                 \/ \E l \in Links : \E i \in DOMAIN link[l] : link[l][i] = f

Locks == \A l \in Links : holder[l] # None =>
             hand[holder[l]] # None /\ Out(holder[l]) = l

IInv == Types /\ Hands /\ Queues /\ Somewhere /\ Locks

\* The next link of a frame under way joins two different relays.
LEMMA AheadIsLink ==
    ASSUME Types, NEW f \in Frames, InTransit(f)
    PROVE  Ahead(f) \in Links
  <1>1. /\ circuit[f] \in Seq(Relays)
        /\ \A i, j \in DOMAIN circuit[f] : circuit[f][i] = circuit[f][j] => i = j
    BY BackPressureAssumption DEF Types
  <1>2. hop[f] \in DOMAIN circuit[f] /\ hop[f] + 1 \in DOMAIN circuit[f]
        /\ hop[f] # hop[f] + 1
    BY <1>1 DEF InTransit, Types
  <1>3. QED
    BY <1>1, <1>2 DEF Ahead, Links

\* None is neither a frame nor a task.
LEMMA NoneApart == None \notin Frames /\ None \notin Tasks
  BY BackPressureAssumption DEF Tasks, Links

\* At the start every frame is with its client.
LEMMA InitInv == Init => IInv
  <1> SUFFICES ASSUME Init PROVE IInv
    OBVIOUS
  <1>1. Types
    BY DEF Init, Types
  <1>2. Hands /\ Locks
    BY DEF Init, Hands, Locks
  <1>3. Queues /\ Somewhere
    BY DEF Init, Queues, Somewhere, InTransit
  <1>4. QED
    BY <1>1, <1>2, <1>3 DEF IInv

(***************************************************************************)
(* The connections lose frame f, if they had it, and keep the others.      *)
(***************************************************************************)
OthersStay(f) ==
    /\ link' \in [Links -> Seq(Frames)]
    /\ \A l \in Links : \A i \in DOMAIN link'[l] :
           link'[l][i] # f /\ \E j \in DOMAIN link[l] : link[l][j] = link'[l][i]
    /\ \A l \in Links : \A i, j \in DOMAIN link'[l] :
           link'[l][i] = link'[l][j] => i = j
    /\ \A l \in Links : \A j \in DOMAIN link[l] :
           link[l][j] # f => \E i \in DOMAIN link'[l] : link'[l][i] = link[l][j]

(***************************************************************************)
(* A task reads a frame that nobody else has: the other frames stay where  *)
(* they are, and so do the links ahead of them.                            *)
(***************************************************************************)
LEMMA TakesInv ==
    ASSUME IInv, NEW t \in Tasks, NEW f \in Frames, Takes(t, f),
           UNCHANGED <<circuit, holder>>,
           hop[f] < Len(circuit[f]), \A u \in Tasks : hand[u] # f,
           OthersStay(f)
    PROVE  IInv'
  <1>1. /\ hop \in [Frames -> Nat] /\ hop' \in [Frames -> Nat]
        /\ hop'[f] = hop[f] + 1
        /\ \A g \in Frames \ {f} : hop'[g] = hop[g]
    BY DEF IInv, Types, Takes
  <1>2. \A g \in Frames \ {f} : /\ InTransit(g)' <=> InTransit(g)
                                /\ Ahead(g)' = Ahead(g)
    BY <1>1 DEF InTransit, Ahead
  <1>3. /\ hand[t] = None
        /\ hand' \in [Tasks -> Frames \cup {None}]
        /\ \A u \in Tasks \ {t} : hand'[u] = hand[u]
        /\ hand'[t] \in {None, f}
        /\ hand'[t] = f <=> hop[f] + 1 # Len(circuit[f])
    BY NoneApart DEF IInv, Types, Takes
  <1>4. circuit[f] \in Seq(Relays)
    BY BackPressureAssumption DEF IInv, Types
  <1>5. InTransit(f)' <=> hand'[t] = f
    BY <1>1, <1>3, <1>4 DEF InTransit
  <1>6. Types'
    BY <1>1, <1>3 DEF IInv, Types, OthersStay
  <1>7. Hands'
    <2>1. ASSUME NEW u \in Tasks, hand'[u] # None
          PROVE  hop'[hand'[u]] > 0 /\ hop'[hand'[u]] < Len(circuit[hand'[u]])
      <3>1. CASE u = t
        BY <1>3, <1>5, <2>1, <3>1 DEF InTransit
      <3>2. CASE u # t
        <4>1. hand'[u] = hand[u] /\ hand[u] \in Frames \ {f}
          BY <1>3, <2>1, <3>2 DEF IInv, Types
        <4>2. InTransit(hand[u])
          BY <2>1, <4>1 DEF IInv, Hands
        <4>3. QED
          BY <1>1, <4>1, <4>2 DEF InTransit
      <3>3. QED
        BY <3>1, <3>2
    <2>2. \A u, v \in Tasks : hand'[u] # None /\ hand'[u] = hand'[v] => u = v
      BY <1>3, NoneApart DEF IInv, Hands
    <2>3. QED
      BY <2>1, <2>2 DEF Hands, InTransit
  <1>8. Queues'
    <2>1. ASSUME NEW l \in Links, NEW i \in DOMAIN link'[l],
                 NEW g \in Frames, g = link'[l][i]
          PROVE  /\ InTransit(g)' /\ Ahead(g)' = l
                 /\ \A u \in Tasks : hand'[u] # g
      <3>1. PICK j \in DOMAIN link[l] : link[l][j] = g /\ g # f
        BY <2>1 DEF OthersStay
      <3>2. InTransit(g) /\ Ahead(g) = l /\ \A u \in Tasks : hand[u] # g
        BY <3>1 DEF IInv, Queues
      <3>3. QED
        BY <1>2, <1>3, <3>1, <3>2, NoneApart
    <2>2. \A l \in Links : \A i \in DOMAIN link'[l] : link'[l][i] \in Frames
      BY DEF OthersStay
    <2>3. QED
      BY <2>1, <2>2 DEF Queues, InTransit, Ahead, OthersStay
  <1>9. Somewhere'
    <2> SUFFICES ASSUME NEW g \in Frames, InTransit(g)'
                 PROVE  \/ \E u \in Tasks : hand'[u] = g
                        \/ \E l \in Links : \E i \in DOMAIN link'[l] : link'[l][i] = g
      BY DEF Somewhere
    <2>1. CASE g = f
      BY <1>5, <2>1
    <2>2. CASE g # f
      <3>1. InTransit(g)
        BY <1>2, <2>2
      <3>2. CASE \E u \in Tasks : hand[u] = g
        BY <1>3, <3>2, NoneApart
      <3>3. CASE \E l \in Links : \E i \in DOMAIN link[l] : link[l][i] = g
        BY <2>2, <3>3 DEF OthersStay
      <3>4. QED
        BY <3>1, <3>2, <3>3 DEF IInv, Somewhere
    <2>3. QED
      BY <2>1, <2>2
  <1>10. Locks'
    <2> SUFFICES ASSUME NEW l \in Links, holder[l] # None
                 PROVE  hand'[holder[l]] # None /\ Out(holder[l])' = l
      BY DEF Locks
    <2>1. holder[l] \in Tasks /\ hand[holder[l]] # None /\ Out(holder[l]) = l
      BY DEF IInv, Types, Locks
    <2>2. holder[l] # t /\ hand'[holder[l]] = hand[holder[l]]
      BY <1>3, <2>1
    <2>3. hand[holder[l]] \in Frames \ {f}
      BY <2>1 DEF IInv, Types
    <2>4. QED
      BY <1>1, <2>1, <2>2, <2>3 DEF Out
  <1>11. QED
    BY <1>6, <1>7, <1>8, <1>9, <1>10 DEF IInv

\* The first relay reads a frame from its client.
LEMMA EnterInv ==
    ASSUME IInv, NEW f \in Frames, Enter(f)
    PROVE  IInv'
  <1>1. hop[f] = 0 /\ ~InTransit(f)
    BY DEF Enter, InTransit
  <1>2. \A u \in Tasks : hand[u] # f
    BY <1>1, NoneApart DEF IInv, Hands
  <1>3. \A l \in Links : \A i \in DOMAIN link[l] : link[l][i] # f
    BY <1>1 DEF IInv, Queues
  <1>4. 0 < Len(circuit[f])
    BY BackPressureAssumption DEF IInv, Types
  <1>5. f \in Tasks /\ Takes(f, f) /\ link' = link /\ UNCHANGED <<circuit, holder>>
    BY DEF Enter, Tasks
  <1>6. link \in [Links -> Seq(Frames)]
    BY DEF IInv, Types
  <1>7. \A l \in Links : \A i, j \in DOMAIN link[l] : link[l][i] = link[l][j] => i = j
    BY DEF IInv, Queues
  <1>8. OthersStay(f)
    BY <1>3, <1>5, <1>6, <1>7 DEF OthersStay
  <1>9. QED
    BY <1>1, <1>2, <1>4, <1>5, <1>8, TakesInv

\* A relay reads the oldest frame of a connection.
LEMMA ReadInv ==
    ASSUME IInv, NEW l \in Links, Read(l)
    PROVE  IInv'
  <1> DEFINE f == Head(link[l])
  <1>1. link[l] \in Seq(Frames) /\ link[l] # <<>> /\ link \in [Links -> Seq(Frames)]
    BY DEF Read, IInv, Types
  <1>2. 1 \in DOMAIN link[l] /\ f = link[l][1] /\ f \in Frames
    BY <1>1
  <1>3. InTransit(f) /\ Ahead(f) = l /\ \A u \in Tasks : hand[u] # f
    BY <1>2 DEF IInv, Queues
  <1>4. link' = [link EXCEPT ![l] = Tail(@)] /\ Takes(l, f)
        /\ UNCHANGED <<circuit, holder>> /\ l \in Tasks
    BY DEF Read, Tasks
  <1>5. /\ DOMAIN Tail(link[l]) = 1 .. Len(link[l]) - 1
        /\ \A i \in 1 .. Len(link[l]) - 1 : Tail(link[l])[i] = link[l][i + 1]
        /\ Tail(link[l]) \in Seq(Frames)
    BY <1>1
  <1>6. /\ link' \in [Links -> Seq(Frames)] /\ link'[l] = Tail(link[l])
        /\ \A k \in Links \ {l} : link'[k] = link[k]
    BY <1>1, <1>4, <1>5
  <1>7. \A k \in Links : \A i, j \in DOMAIN link[k] : link[k][i] = link[k][j] => i = j
    BY DEF IInv, Queues
  <1>8. \A k \in Links \ {l} : \A i \in DOMAIN link[k] : link[k][i] # f
    BY <1>3 DEF IInv, Queues
  <1> HIDE DEF f
  <1>9. \A k \in Links : \A i \in DOMAIN link'[k] :
            link'[k][i] # f /\ \E j \in DOMAIN link[k] : link[k][j] = link'[k][i]
    <2> SUFFICES ASSUME NEW i \in DOMAIN link'[l]
                 PROVE  link'[l][i] # f /\ \E j \in DOMAIN link[l] : link[l][j] = link'[l][i]
      BY <1>6, <1>8
    <2>1. i \in 1 .. Len(link[l]) - 1 /\ i + 1 \in DOMAIN link[l] /\ i + 1 # 1
          /\ link'[l][i] = link[l][i + 1]
      BY <1>1, <1>5, <1>6
    <2>2. QED
      BY <1>2, <1>7, <2>1
  <1>10. \A k \in Links : \A i, j \in DOMAIN link'[k] : link'[k][i] = link'[k][j] => i = j
    <2> SUFFICES ASSUME NEW i \in DOMAIN link'[l], NEW j \in DOMAIN link'[l],
                        link'[l][i] = link'[l][j]
                 PROVE  i = j
      BY <1>6, <1>7
    <2>1. i + 1 \in DOMAIN link[l] /\ j + 1 \in DOMAIN link[l] /\ i \in Nat /\ j \in Nat
          /\ link[l][i + 1] = link[l][j + 1]
      BY <1>1, <1>5, <1>6
    <2>2. i + 1 = j + 1
      BY <1>7, <2>1
    <2>3. QED
      BY <2>1, <2>2
  <1>11. \A k \in Links : \A j \in DOMAIN link[k] :
             link[k][j] # f => \E i \in DOMAIN link'[k] : link'[k][i] = link[k][j]
    <2> SUFFICES ASSUME NEW j \in DOMAIN link[l], link[l][j] # f
                 PROVE  \E i \in DOMAIN link'[l] : link'[l][i] = link[l][j]
      BY <1>6
    <2>1. j # 1 /\ j - 1 \in 1 .. Len(link[l]) - 1 /\ (j - 1) + 1 = j
      BY <1>1, <1>2
    <2>2. QED
      BY <1>5, <1>6, <2>1
  <1>12. hop[f] < Len(circuit[f])
    BY <1>3 DEF InTransit
  <1>13. OthersStay(f)
    BY <1>6, <1>9, <1>10, <1>11 DEF OthersStay
  <1>14. QED
    BY <1>2, <1>3, <1>4, <1>12, <1>13, TakesInv

\* The frame in a hand is a frame under way, and the link it goes to exists.
LEMMA OutIsAhead ==
    ASSUME IInv, NEW t \in Tasks, hand[t] # None
    PROVE  /\ hand[t] \in Frames /\ InTransit(hand[t])
           /\ Out(t) = Ahead(hand[t]) /\ Out(t) \in Links
  <1>1. hand[t] \in Frames /\ InTransit(hand[t])
    BY DEF IInv, Types, Hands
  <1>2. Out(t) = Ahead(hand[t])
    BY DEF Out, Ahead
  <1>3. QED
    BY <1>1, <1>2, AheadIsLink DEF IInv

\* A task locks the stream of the link that its frame goes to.
LEMMA LockInv ==
    ASSUME IInv, NEW t \in Tasks, Lock(t)
    PROVE  IInv'
  <1>1. hand[t] # None /\ UNCHANGED <<circuit, hop, link, hand>>
        /\ holder' = [holder EXCEPT ![Out(t)] = t]
    BY DEF Lock
  <1>2. Out(t) \in Links
    BY <1>1, OutIsAhead
  <1>3. /\ holder' \in [Links -> Tasks \cup {None}]
        /\ holder'[Out(t)] = t
        /\ \A l \in Links : l # Out(t) => holder'[l] = holder[l]
    BY <1>1, <1>2 DEF IInv, Types
  <1>4. Types'
    BY <1>1, <1>3 DEF IInv, Types
  <1>5. Hands' /\ Queues' /\ Somewhere'
    BY <1>1 DEF IInv, Hands, Queues, Somewhere, InTransit, Ahead
  <1>6. Locks'
    <2> SUFFICES ASSUME NEW l \in Links, holder'[l] # None
                 PROVE  hand[holder'[l]] # None
                        /\ <<circuit[hand[holder'[l]]][hop[hand[holder'[l]]]],
                             circuit[hand[holder'[l]]][hop[hand[holder'[l]]] + 1]>> = l
      BY <1>1 DEF Locks, Out
    <2>1. CASE l = Out(t)
      BY <1>1, <1>3, <2>1 DEF Out
    <2>2. CASE l # Out(t)
      BY <1>3, <2>2 DEF IInv, Locks, Out
    <2>3. QED
      BY <2>1, <2>2
  <1>7. QED
    BY <1>4, <1>5, <1>6 DEF IInv

\* A task writes its frame into the connection and gives the stream back.
LEMMA WriteInv ==
    ASSUME IInv, NEW t \in Tasks, Write(t)
    PROVE  IInv'
  <1> DEFINE f == hand[t]
             o == Out(t)
  <1>1. /\ f # None /\ holder[o] = t
        /\ link' = [link EXCEPT ![o] = Append(@, f)]
        /\ hand' = [hand EXCEPT ![t] = None]
        /\ holder' = [holder EXCEPT ![o] = None]
        /\ circuit' = circuit /\ hop' = hop
    BY DEF Write
  <1>2. f \in Frames /\ InTransit(f) /\ o = Ahead(f) /\ o \in Links
    BY <1>1, OutIsAhead
  <1>3. /\ hand' \in [Tasks -> Frames \cup {None}] /\ hand'[t] = None
        /\ \A u \in Tasks \ {t} : hand'[u] = hand[u] /\ hand[u] # f
    BY <1>1, <1>2 DEF IInv, Types, Hands
  <1>4. /\ holder' \in [Links -> Tasks \cup {None}] /\ holder'[o] = None
        /\ \A l \in Links \ {o} : holder'[l] = holder[l]
    BY <1>1, <1>2 DEF IInv, Types
  <1>5. link[o] \in Seq(Frames) /\ link \in [Links -> Seq(Frames)]
    BY <1>2 DEF IInv, Types
  <1> HIDE DEF f, o
  <1>6. /\ link' \in [Links -> Seq(Frames)] /\ link'[o] = Append(link[o], f)
        /\ \A l \in Links \ {o} : link'[l] = link[l]
    BY <1>1, <1>2, <1>5
  <1>7. /\ DOMAIN link'[o] = DOMAIN link[o] \cup {Len(link[o]) + 1}
        /\ Len(link[o]) + 1 \notin DOMAIN link[o]
        /\ link'[o][Len(link[o]) + 1] = f
        /\ \A i \in DOMAIN link[o] : link'[o][i] = link[o][i]
    BY <1>2, <1>5, <1>6
  <1>8. \A l \in Links : \A i \in DOMAIN link[l] : link[l][i] # f
    BY DEF IInv, Queues, f
  <1>9. Types'
    BY <1>1, <1>3, <1>4, <1>6 DEF IInv, Types
  <1>10. Hands'
    BY <1>1, <1>3 DEF IInv, Hands, InTransit
  <1>11. Queues'
    <2>1. ASSUME NEW l \in Links, NEW i \in DOMAIN link'[l],
                 NEW g \in Frames, g = link'[l][i]
          PROVE  /\ InTransit(g) /\ Ahead(g) = l
                 /\ \A u \in Tasks : hand'[u] # g
      <3>1. CASE i \in DOMAIN link[l] /\ link'[l][i] = link[l][i]
        BY <1>3, <2>1, <3>1, NoneApart DEF IInv, Queues
      <3>2. CASE l = o /\ g = f
        BY <1>2, <1>3, <3>2, NoneApart
      <3>3. QED
        BY <1>6, <1>7, <2>1, <3>1, <3>2
    <2>2. \A l \in Links : \A i \in DOMAIN link'[l] : link'[l][i] \in Frames
      BY <1>6
    <2>3. \A l \in Links : \A i, j \in DOMAIN link'[l] : link'[l][i] = link'[l][j] => i = j
      <3>1. \A l \in Links : \A i, j \in DOMAIN link[l] : link[l][i] = link[l][j] => i = j
        BY DEF IInv, Queues
      <3>2. \A i, j \in DOMAIN link'[o] : link'[o][i] = link'[o][j] => i = j
        BY <1>2, <1>7, <1>8, <3>1
      <3>3. QED
        BY <1>6, <3>1, <3>2
    <2>4. QED
      BY <1>1, <2>1, <2>2, <2>3 DEF Queues, InTransit, Ahead
  <1>12. Somewhere'
    <2> SUFFICES ASSUME NEW g \in Frames, InTransit(g)
                 PROVE  \/ \E u \in Tasks : hand'[u] = g
                        \/ \E l \in Links : \E i \in DOMAIN link'[l] : link'[l][i] = g
      BY <1>1 DEF Somewhere, InTransit
    <2>1. CASE g = f
      BY <1>2, <1>7, <2>1
    <2>2. CASE g # f
      <3>1. CASE \E u \in Tasks : hand[u] = g
        BY <1>3, <2>2, <3>1 DEF f
      <3>2. CASE \E l \in Links : \E i \in DOMAIN link[l] : link[l][i] = g
        BY <1>6, <1>7, <3>2
      <3>3. QED
        BY <3>1, <3>2 DEF IInv, Somewhere
    <2>3. QED
      BY <2>1, <2>2
  <1>13. Locks'
    <2> SUFFICES ASSUME NEW l \in Links, holder'[l] # None
                 PROVE  hand'[holder'[l]] # None
                        /\ <<circuit[hand'[holder'[l]]][hop[hand'[holder'[l]]]],
                             circuit[hand'[holder'[l]]][hop[hand'[holder'[l]]] + 1]>> = l
      BY <1>1 DEF Locks, Out
    <2>1. l # o /\ holder'[l] = holder[l]
      BY <1>4
    <2>2. holder[l] \in Tasks /\ hand[holder[l]] # None /\ Out(holder[l]) = l
      BY <2>1 DEF IInv, Types, Locks
    <2>3. holder[l] # t
      BY <2>1, <2>2 DEF o
    <2>4. hand'[holder[l]] = hand[holder[l]]
      BY <1>3, <2>2, <2>3
    <2>5. QED
      BY <2>1, <2>2, <2>4 DEF Out
  <1>14. QED
    BY <1>9, <1>10, <1>11, <1>12, <1>13 DEF IInv

\* Every step keeps the invariant.
LEMMA NextInv == IInv /\ [Next]_vars => IInv'
  <1> SUFFICES ASSUME IInv, [Next]_vars PROVE IInv'
    OBVIOUS
  <1>1. CASE \E f \in Frames : Enter(f)
    BY <1>1, EnterInv
  <1>2. CASE \E l \in Links : Read(l)
    BY <1>2, ReadInv
  <1>3. CASE \E t \in Tasks : Forward(t)
    BY <1>3, LockInv, WriteInv DEF Forward
  <1>4. CASE UNCHANGED vars
    BY <1>4 DEF vars, IInv, Types, Hands, Queues, Somewhere, Locks, InTransit, Ahead, Out
  <1>5. QED
    BY <1>1, <1>2, <1>3, <1>4 DEF Next

\* Frames, hands and locks are where the invariant says in every run of a relay.
LEMMA Invariance == Spec => []IInv
  BY InitInv, NextInv, PTL DEF Spec

(***************************************************************************)
(* When no task can go on, whoever has a frame waits for a full connection *)
(* whose reader has a frame too.                                           *)
(***************************************************************************)
LEMMA WaitsForReader ==
    ASSUME IInv, ~CanMove, NEW t \in Tasks, hand[t] # None
    PROVE  Out(t) \in Links /\ Full(Out(t)) /\ hand[Out(t)] # None
  <1>1. Out(t) \in Links /\ ~StreamFree(t)
    BY OutIsAhead DEF CanMove
  <1> DEFINE h == holder[Out(t)]
  <1>2. h \in Tasks /\ hand[h] # None /\ Out(h) = Out(t) /\ holder[Out(h)] = h
    BY <1>1 DEF IInv, Types, Locks, StreamFree
  <1>3. Full(Out(t))
    BY <1>2 DEF CanMove
  <1>4. link[Out(t)] # <<>>
    BY <1>3, BackPressureAssumption DEF Full
  <1>5. QED
    BY <1>1, <1>3, <1>4 DEF CanMove

\* With a frame under way and no task able to go on, some link has a waiting reader.
LEMMA SomeReaderWaits ==
    ASSUME IInv, ~CanMove, NEW f \in Frames, InTransit(f)
    PROVE  \E l \in Links : hand[l] # None
  <1>1. CASE \E t \in Tasks : hand[t] = f
    BY <1>1, WaitsForReader, NoneApart
  <1>2. CASE \E l \in Links : \E i \in DOMAIN link[l] : link[l][i] = f
    <2>1. PICK l \in Links : \E i \in DOMAIN link[l] : link[l][i] = f
      BY <1>2
    <2>2. link[l] # <<>>
      BY <2>1
    <2>3. QED
      BY <2>2 DEF CanMove
  <1>3. QED
    BY <1>1, <1>2 DEF IInv, Somewhere

\* No relay reads a frame more often than its circuit has relays.
HopsBounded == \A f \in Frames : hop[f] =< Len(circuit[f])

\* A frame goes no further than its exit.
LEMMA HopsInv == IInv /\ HopsBounded /\ [Next]_vars => HopsBounded'
  <1> SUFFICES ASSUME IInv, HopsBounded, [Next]_vars PROVE HopsBounded'
    OBVIOUS
  <1>1. ASSUME NEW t \in Tasks, NEW f \in Frames, Takes(t, f),
               circuit' = circuit, hop[f] < Len(circuit[f])
        PROVE  HopsBounded'
    <2>1. circuit[f] \in Seq(Relays) /\ hop \in [Frames -> Nat]
      BY BackPressureAssumption DEF IInv, Types
    <2>2. hop' = [hop EXCEPT ![f] = @ + 1]
      BY <1>1 DEF Takes
    <2>3. hop'[f] =< Len(circuit[f])
      BY <1>1, <2>1, <2>2
    <2>4. QED
      BY <1>1, <2>1, <2>2, <2>3 DEF HopsBounded
  <1>2. ASSUME NEW f \in Frames, Enter(f) PROVE HopsBounded'
    <2>1. circuit[f] \in Seq(Relays) /\ circuit[f] # <<>>
      BY BackPressureAssumption DEF IInv, Types
    <2>2. 0 < Len(circuit[f])
      BY <2>1
    <2>3. QED
      BY <1>1, <1>2, <2>2 DEF Enter, Tasks
  <1>3. ASSUME NEW l \in Links, Read(l) PROVE HopsBounded'
    <2>1. link[l] \in Seq(Frames) /\ link[l] # <<>>
      BY <1>3 DEF Read, IInv, Types
    <2>2. 1 \in DOMAIN link[l] /\ Head(link[l]) = link[l][1] /\ Head(link[l]) \in Frames
      BY <2>1
    <2>3. InTransit(Head(link[l]))
      BY <2>2 DEF IInv, Queues
    <2>4. QED
      BY <1>1, <1>3, <2>2, <2>3 DEF Read, Tasks, InTransit
  <1>4. CASE (\E t \in Tasks : Forward(t)) \/ UNCHANGED vars
    BY <1>4 DEF Forward, Lock, Write, vars, HopsBounded
  <1>5. QED
    BY <1>2, <1>3, <1>4 DEF Next

(***************************************************************************)
(* Relays block each other only in a circular wait (StuckOnlyInCircle):    *)
(* the connections whose readers have a frame in hand form the circle.     *)
(* This is about handle_connection and forward, which hold one stream lock *)
(* at a time and no lock of the pool while they write.                     *)
(***************************************************************************)
THEOREM OnlyCirclesBlock == Spec => []StuckOnlyInCircle
  <1>1. Init => HopsBounded
    BY BackPressureAssumption DEF Init, HopsBounded
  <1>2. Spec => []HopsBounded
    BY <1>1, HopsInv, Invariance, PTL DEF Spec
  <1>3. IInv /\ HopsBounded => StuckOnlyInCircle
    <2> SUFFICES ASSUME IInv, HopsBounded, ~CanMove,
                        NEW f \in Frames, hop[f] # 0, ~AtExit(f)
                 PROVE  CircularWait
      BY DEF StuckOnlyInCircle
    <2>1. circuit[f] \in Seq(Relays) /\ hop[f] \in Nat /\ hop[f] =< Len(circuit[f])
      BY BackPressureAssumption DEF IInv, Types, HopsBounded
    <2>2. InTransit(f)
      BY <2>1 DEF InTransit, AtExit
    <2> DEFINE C == {l \in Links : hand[l] # None}
    <2>3. C # {}
      BY <2>2, SomeReaderWaits
    <2>4. \A l \in C : Out(l) \in C /\ l \in Blocked
      BY WaitsForReader DEF Tasks, Blocked
    <2>5. C \in (SUBSET Blocked) \ {{}}
      BY <2>3, <2>4
    <2>6. QED
      BY <2>4, <2>5 DEF CircularWait
  <1>4. QED
    BY <1>2, <1>3, Invariance, PTL
==============================================================================
