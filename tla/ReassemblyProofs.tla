-------------------------- MODULE ReassemblyProofs ---------------------------
(***************************************************************************)
(* Proofs about Reassembly, for every number and length of messages, every *)
(* capacity and every width of the sequence fields.                        *)
(***************************************************************************)
EXTENDS Reassembly, CellLemmas

\* A chunk is a range of positions of its message.
LEMMA ChunkType ==
    ASSUME NEW m \in Messages, NEW i \in Nat
    PROVE  Chunk(m, i) \in ChunkSet
  <1>1. i * Capacity \in Nat /\ (i + 1) * Capacity \in Nat
    BY CapacityAssumption, SMT
  <1>2. MessageLen[m] \in Nat
    BY MessageAssumption
  <1>3. ChunkEnd(m, i) \in Nat
    BY <1>1, <1>2 DEF ChunkEnd
  <1>4. QED
    BY <1>1, <1>3 DEF Chunk, ChunkSet

------------------------------------------------------------------------------
(***************************************************************************)
(* The inductive invariant.  An entry of in_flight holds chunks of a       *)
(* single sent message, each in its own slot, and counts them.             *)
(***************************************************************************)
StoreInv ==
    /\ inFlight = [id \in DOMAIN inFlight |-> inFlight[id]]
    /\ DOMAIN inFlight \subseteq Ids
    /\ \A id \in DOMAIN inFlight :
         \E m \in Messages : /\ outcome[m] = "ok"
                             /\ MessageId[m] = id
                             /\ GoodEntry(inFlight[id], m)
                             /\ inFlight[id].received # TotalCells(m)

Types ==
    /\ outcome \in [Messages -> {"unsent", "ok", "err"}]
    /\ net \subseteq AllCells
    /\ dups \in 0 .. MaxDups
    /\ returned \in [Messages -> Nat]
    /\ arrivals \in [AllCells -> Nat]
    /\ evicted \subseteq Ids

OutcomeInv == \A m \in Messages : /\ outcome[m] = "ok" => FragmentOk(m)
                                  /\ outcome[m] = "err" => ~FragmentOk(m)

NetInv == \A c \in net :
              \E m \in Messages : outcome[m] = "ok" /\ c \in CellsOf(m)

OutputInv ==
    \A o \in outputs :
        \E m \in Messages :
            /\ outcome[m] = "ok"
            /\ o.id = MessageId[m]
            /\ o.fragments = [i \in 0 .. TotalCells(m) - 1 |-> Chunk(m, i)]

IInv == Types /\ OutcomeInv /\ NetInv /\ StoreInv /\ OutputInv

(***************************************************************************)
(* A cell that passes the seq_total comparison meets an entry of its own   *)
(* message, or a new one.                                                  *)
(***************************************************************************)
LEMMA EntryIsOwn ==
    ASSUME IInv, NEW m \in Messages, outcome[m] = "ok",
           NEW c \in CellsOf(m), ~Mismatched(inFlight, c)
    PROVE  /\ GoodEntry(Entry(inFlight, c), m)
           /\ Entry(inFlight, c).received # TotalCells(m)
  <1>1. FragmentOk(m)
    BY DEF IInv, OutcomeInv
  <1>2. /\ c.id = MessageId[m]
        /\ c.total = TotalCells(m)
        /\ TotalCells(m) \in Nat \ {0}
    BY <1>1, CellFacts
  <1>3. CASE c.id \in DOMAIN inFlight
    <2>1. Entry(inFlight, c) = inFlight[c.id]
      BY <1>3 DEF Entry
    <2>2. PICK n \in Messages : /\ outcome[n] = "ok"
                                /\ MessageId[n] = c.id
                                /\ GoodEntry(inFlight[c.id], n)
                                /\ inFlight[c.id].received # TotalCells(n)
      BY <1>3 DEF IInv, StoreInv
    <2>3. TotalCells(n) = TotalCells(m)
      BY <1>2, <2>1, <2>2 DEF Mismatched, GoodEntry
    <2>4. n = m
      BY <1>2, <2>2, <2>3, IdAssumption
    <2>5. QED
      BY <2>1, <2>2, <2>4
  <1>4. CASE c.id \notin DOMAIN inFlight
    <2>1. Entry(inFlight, c) = NewPartial(TotalCells(m))
      BY <1>2, <1>4 DEF Entry
    <2>2. DOMAIN Empty = {}
      BY DEF Empty
    <2>3. Cardinality(DOMAIN Empty) = 0
      BY <2>2, FS_EmptySet
    <2>4. Empty = [i \in DOMAIN Empty |-> Chunk(m, i)]
      BY <2>2 DEF Empty
    <2>5. QED
      BY <1>2, <2>1, <2>2, <2>3, <2>4 DEF NewPartial, GoodEntry
  <1>5. QED
    BY <1>3, <1>4

------------------------------------------------------------------------------
\* The invariant holds before anything is sent.
LEMMA InitInv == Init => IInv
  <1> SUFFICES ASSUME Init PROVE IInv
    OBVIOUS
  <1>1. Types
    BY MaxDupsAssumption DEF Init, Types
  <1>2. OutcomeInv
    BY DEF Init, OutcomeInv
  <1>3. NetInv /\ OutputInv
    BY DEF Init, NetInv, OutputInv
  <1>4. StoreInv
    BY DEF Init, StoreInv, Empty
  <1>5. QED
    BY <1>1, <1>2, <1>3, <1>4 DEF IInv

(***************************************************************************)
(* fragment_message adds cells of a message it accepted.                   *)
(***************************************************************************)
LEMMA FragmentInv ==
    ASSUME IInv, NEW m \in Messages, Fragment(m)
    PROVE  IInv'
  <1>1. /\ outcome \in [Messages -> {"unsent", "ok", "err"}]
        /\ outcome[m] = "unsent"
        /\ outcome' = [outcome EXCEPT ![m] = IF FragmentOk(m) THEN "ok" ELSE "err"]
        /\ net' = IF FragmentOk(m) THEN net \cup CellsOf(m) ELSE net
        /\ UNCHANGED <<dups, inFlight, outputs, returned, arrivals, evicted>>
    BY DEF Fragment, IInv, Types
  <1>2. \A n \in Messages : outcome[n] = "ok" => outcome'[n] = "ok"
    BY <1>1
  <1>3. Types'
    BY <1>1 DEF IInv, Types, AllCells
  <1>4. OutcomeInv'
    BY <1>1 DEF IInv, OutcomeInv
  <1>5. NetInv'
    BY <1>1, <1>2 DEF IInv, NetInv
  <1>6. StoreInv'
    BY <1>1, <1>2 DEF IInv, StoreInv
  <1>7. OutputInv'
    BY <1>1, <1>2 DEF IInv, OutputInv
  <1>8. QED
    BY <1>3, <1>4, <1>5, <1>6, <1>7 DEF IInv

\* Losing a cell preserves the invariant.
LEMMA LoseInv ==
    ASSUME IInv, NEW c \in net, Lose(c)
    PROVE  IInv'
  <1>1. Types'
    BY DEF IInv, Types, Lose
  <1>2. NetInv'
    BY DEF IInv, NetInv, Lose
  <1>3. OutcomeInv' /\ StoreInv' /\ OutputInv'
    BY DEF IInv, OutcomeInv, StoreInv, OutputInv, Lose
  <1>4. QED
    BY <1>1, <1>2, <1>3 DEF IInv

(***************************************************************************)
(* Handing a cell over disturbs nothing but the network.                   *)
(***************************************************************************)
LEMMA HandOverInv ==
    ASSUME IInv, NEW c \in net, HandOver(c), UNCHANGED <<outcome, evicted>>,
           returned' \in [Messages -> Nat]
    PROVE  Types' /\ NetInv' /\ OutcomeInv'
  <1>1. arrivals' \in [AllCells -> Nat]
    BY DEF IInv, Types, HandOver
  <1>2. net' \subseteq net /\ dups' \in 0 .. MaxDups
    BY MaxDupsAssumption DEF IInv, Types, HandOver
  <1>3. Types'
    BY <1>1, <1>2 DEF IInv, Types
  <1>4. NetInv'
    BY <1>2 DEF IInv, NetInv
  <1>5. OutcomeInv'
    BY DEF IInv, OutcomeInv
  <1>6. QED
    BY <1>3, <1>4, <1>5

\* insert answering MismatchedMessageId preserves the invariant.
LEMMA InsertRejectedInv ==
    ASSUME IInv, NEW c \in net, InsertRejected(c)
    PROVE  IInv'
  <1>1. inFlight' = inFlight
    BY DEF InsertRejected, Inserted
  <1>2. Types' /\ NetInv' /\ OutcomeInv'
    BY HandOverInv DEF InsertRejected, IInv, Types
  <1>3. StoreInv' /\ OutputInv'
    BY <1>1 DEF IInv, StoreInv, OutputInv, InsertRejected
  <1>4. QED
    BY <1>2, <1>3 DEF IInv

\* insert storing a fragment preserves the invariant.
LEMMA InsertPendingInv ==
    ASSUME IInv, NEW c \in net, InsertPending(c)
    PROVE  IInv'
  <1> DEFINE d == Stored(Entry(inFlight, c), c)
  <1>1. PICK m \in Messages : outcome[m] = "ok" /\ c \in CellsOf(m)
    BY DEF IInv, NetInv
  <1>2. FragmentOk(m)
    BY <1>1 DEF IInv, OutcomeInv
  <1>3. c.id = MessageId[m] /\ c.id \in Ids
    BY <1>1, <1>2, CellFacts
  <1>4. inFlight' = Put(inFlight, c.id, d)
    BY DEF InsertPending, Inserted
  <1>5. GoodEntry(Entry(inFlight, c), m)
    BY <1>1, EntryIsOwn DEF InsertPending
  <1>6. GoodEntry(d, m)
    BY <1>1, <1>2, <1>5, StoredIsGood
  <1>7. d.received # TotalCells(m)
    BY <1>6 DEF InsertPending, Completes, GoodEntry
  <1> HIDE DEF d
  <1>8. StoreInv'
    <2>1. DOMAIN inFlight' = DOMAIN inFlight \cup {c.id}
      BY <1>4 DEF Put
    <2>2. inFlight' = [id \in DOMAIN inFlight' |-> inFlight'[id]]
      BY <1>4 DEF Put
    <2>3. inFlight'[c.id] = d
      BY <1>4 DEF Put
    <2>4. \A id \in DOMAIN inFlight : id # c.id => inFlight'[id] = inFlight[id]
      BY <1>4 DEF Put
    <2>5. outcome' = outcome
      BY DEF InsertPending
    <2>6. ASSUME NEW id \in DOMAIN inFlight'
          PROVE  \E n \in Messages : /\ outcome'[n] = "ok"
                                     /\ MessageId[n] = id
                                     /\ GoodEntry(inFlight'[id], n)
                                     /\ inFlight'[id].received # TotalCells(n)
      <3>1. CASE id = c.id
        BY <1>1, <1>3, <1>6, <1>7, <2>3, <2>5, <3>1
      <3>2. CASE id # c.id
        BY <2>1, <2>4, <2>5, <3>2 DEF IInv, StoreInv
      <3>3. QED
        BY <3>1, <3>2
    <2>7. QED
      BY <1>3, <2>1, <2>2, <2>6 DEF IInv, StoreInv
  <1>9. Types' /\ NetInv' /\ OutcomeInv'
    BY HandOverInv DEF InsertPending, IInv, Types
  <1>10. OutputInv'
    BY DEF IInv, OutputInv, InsertPending
  <1>11. QED
    BY <1>8, <1>9, <1>10 DEF IInv

(***************************************************************************)
(* Removing an entry leaves the others as they are.                        *)
(***************************************************************************)
LEMMA RemoveInv ==
    ASSUME StoreInv, NEW id \in DOMAIN inFlight \cup Ids,
           inFlight' = Remove(inFlight, id), outcome' = outcome
    PROVE  StoreInv'
  <1>1. DOMAIN inFlight' = DOMAIN inFlight \ {id}
    BY DEF Remove
  <1>2. inFlight' = [x \in DOMAIN inFlight' |-> inFlight'[x]]
    BY DEF Remove
  <1>3. \A x \in DOMAIN inFlight' : inFlight'[x] = inFlight[x]
    BY DEF Remove
  <1>4. QED
    BY <1>1, <1>2, <1>3 DEF StoreInv

\* insert returning a message preserves the invariant.
LEMMA InsertCompletesInv ==
    ASSUME IInv, NEW c \in net, InsertCompletes(c)
    PROVE  IInv'
  <1> DEFINE d == Stored(Entry(inFlight, c), c)
             o == Message(inFlight, c)
  <1>1. PICK m \in Messages : outcome[m] = "ok" /\ c \in CellsOf(m)
    BY DEF IInv, NetInv
  <1>2. FragmentOk(m)
    BY <1>1 DEF IInv, OutcomeInv
  <1>3. c.id = MessageId[m] /\ c.id \in Ids /\ c.data.msg = m
    BY <1>1, <1>2, CellFacts
  <1>4. ~Mismatched(inFlight, c) /\ d.received = d.total
    BY DEF InsertCompletes, Completes
  <1>5. GoodEntry(Entry(inFlight, c), m)
    BY <1>1, <1>4, EntryIsOwn
  <1>6. /\ GoodEntry(d, m)
        /\ d.received = TotalCells(m) => DOMAIN d.fragments = 0 .. TotalCells(m) - 1
    BY <1>1, <1>2, <1>5, StoredIsGood
  <1>7. d.fragments = [i \in 0 .. TotalCells(m) - 1 |-> Chunk(m, i)]
    BY <1>4, <1>6 DEF GoodEntry
  <1>8. inFlight' = Remove(inFlight, c.id)
    BY <1>4 DEF InsertCompletes, Inserted
  <1>9. StoreInv'
    BY <1>3, <1>8, RemoveInv DEF IInv, InsertCompletes
  <1>10. Types' /\ NetInv' /\ OutcomeInv'
    <2>1. returned' \in [Messages -> Nat]
      BY <1>3 DEF InsertCompletes, IInv, Types
    <2>2. QED
      BY <2>1, HandOverInv DEF InsertCompletes
  <1>11. OutputInv'
    <2>1. o.id = c.id /\ o.fragments = d.fragments
      BY DEF Message
    <2>2. outputs' = outputs \cup {o} /\ outcome' = outcome
      BY DEF InsertCompletes
    <2> HIDE DEF o, d
    <2>3. QED
      BY <1>1, <1>3, <1>7, <2>1, <2>2 DEF IInv, OutputInv
  <1>12. QED
    BY <1>9, <1>10, <1>11 DEF IInv

\* evict preserves the invariant.
LEMMA EvictInv ==
    ASSUME IInv, NEW id \in Ids, Evict(id)
    PROVE  IInv'
  <1>1. StoreInv'
    BY RemoveInv DEF IInv, Evict
  <1>2. Types'
    BY DEF IInv, Types, Evict
  <1>3. NetInv' /\ OutcomeInv' /\ OutputInv'
    BY DEF IInv, NetInv, OutcomeInv, OutputInv, Evict
  <1>4. QED
    BY <1>1, <1>2, <1>3 DEF IInv

\* The invariant is inductive.
LEMMA NextInv == IInv /\ [Next]_vars => IInv'
  <1> SUFFICES ASSUME IInv, [Next]_vars PROVE IInv'
    OBVIOUS
  <1>1. CASE \E m \in Messages : Fragment(m)
    BY <1>1, FragmentInv
  <1>2. ASSUME NEW c \in net,
               Lose(c) \/ InsertRejected(c) \/ InsertPending(c) \/ InsertCompletes(c)
        PROVE  IInv'
    BY <1>2, LoseInv, InsertRejectedInv, InsertPendingInv, InsertCompletesInv
  <1>3. CASE \E id \in Ids : Evict(id)
    BY <1>3, EvictInv
  <1>4. CASE UNCHANGED vars
    BY <1>4 DEF vars, IInv, Types, OutcomeInv, NetInv, StoreInv, OutputInv
  <1>5. QED
    BY <1>1, <1>2, <1>3, <1>4 DEF Next

\* The invariant holds in every reachable state.
LEMMA Invariance == Spec => []IInv
  BY InitInv, NextInv, PTL DEF Spec

------------------------------------------------------------------------------
\* What an entry that satisfies the invariant holds.
LEMMA GoodEntryFacts ==
    ASSUME NEW m \in Messages, NEW e, GoodEntry(e, m), FragmentOk(m)
    PROVE  /\ e.total = TotalCells(m)
           /\ e.total \in Nat
           /\ e.received \in 0 .. e.total
           /\ DOMAIN e.fragments \subseteq 0 .. e.total - 1
           /\ e.fragments \in [DOMAIN e.fragments -> ChunkSet]
  <1>1. TotalCells(m) \in Nat \ {0}
    BY LengthOk, TotalInRange, SeqMaxAssumption
  <1>2. /\ e.total = TotalCells(m)
        /\ DOMAIN e.fragments \subseteq 0 .. TotalCells(m) - 1
        /\ e.received = Cardinality(DOMAIN e.fragments)
    BY DEF GoodEntry
  <1>3. IsFiniteSet(0 .. TotalCells(m) - 1)
        /\ Cardinality(0 .. TotalCells(m) - 1) = TotalCells(m)
    BY <1>1, FS_Interval, SMT
  <1>4. e.received \in 0 .. TotalCells(m)
    BY <1>1, <1>2, <1>3, FS_Subset, FS_CardinalityType, SMT
  <1>5. e.fragments \in [DOMAIN e.fragments -> ChunkSet]
    <2>1. \A i \in DOMAIN e.fragments : Chunk(m, i) \in ChunkSet
      BY <1>1, <1>2, ChunkType
    <2>2. e.fragments = [i \in DOMAIN e.fragments |-> Chunk(m, i)]
      BY DEF GoodEntry
    <2>3. QED
      BY <2>1, <2>2
  <1>6. QED
    BY <1>1, <1>2, <1>4, <1>5

(***************************************************************************)
(* Type correctness of the reassembler and the fabric around it.           *)
(***************************************************************************)
THEOREM TypeCorrect == Spec => []TypeOK
  <1>1. IInv => TypeOK
    <2> SUFFICES ASSUME IInv PROVE TypeOK
      OBVIOUS
    <2>1. InFlightOK
      <3>1. ASSUME NEW id \in DOMAIN inFlight
            PROVE  LET e == inFlight[id]
                   IN  /\ e = [total |-> e.total, received |-> e.received,
                               fragments |-> e.fragments]
                       /\ e.total \in Nat
                       /\ e.received \in Nat
                       /\ DOMAIN e.fragments \subseteq 0 .. e.total - 1
                       /\ e.fragments \in [DOMAIN e.fragments -> ChunkSet]
        <4>1. PICK m \in Messages : outcome[m] = "ok" /\ GoodEntry(inFlight[id], m)
          BY DEF IInv, StoreInv
        <4>2. FragmentOk(m)
          BY <4>1 DEF IInv, OutcomeInv
        <4>3. inFlight[id] = [total |-> inFlight[id].total,
                              received |-> inFlight[id].received,
                              fragments |-> inFlight[id].fragments]
          BY <4>1 DEF GoodEntry
        <4>4. QED
          BY <4>1, <4>2, <4>3, GoodEntryFacts
      <3>2. QED
        BY <3>1 DEF IInv, StoreInv, InFlightOK
    <2>2. QED
      BY <2>1 DEF IInv, Types, TypeOK
  <1>2. QED
    BY <1>1, Invariance, PTL

(***************************************************************************)
(* The counter of every entry is exact and below seq_total, so the         *)
(* `expect` in insert never fails.                                         *)
(***************************************************************************)
THEOREM CounterIsExact == Spec => []CounterExact
  <1>1. IInv => CounterExact
    <2> SUFFICES ASSUME IInv, NEW id \in DOMAIN inFlight
                 PROVE  /\ inFlight[id].received
                             = Cardinality(DOMAIN inFlight[id].fragments)
                        /\ inFlight[id].received < inFlight[id].total
      BY DEF CounterExact
    <2>1. PICK m \in Messages : /\ outcome[m] = "ok"
                                /\ GoodEntry(inFlight[id], m)
                                /\ inFlight[id].received # TotalCells(m)
      BY DEF IInv, StoreInv
    <2>2. FragmentOk(m)
      BY <2>1 DEF IInv, OutcomeInv
    <2>3. /\ inFlight[id].total = TotalCells(m)
          /\ inFlight[id].total \in Nat
          /\ inFlight[id].received \in 0 .. inFlight[id].total
      BY <2>1, <2>2, GoodEntryFacts
    <2>4. inFlight[id].received = Cardinality(DOMAIN inFlight[id].fragments)
      BY <2>1 DEF GoodEntry
    <2>5. QED
      BY <2>1, <2>3, <2>4
  <1>2. QED
    BY <1>1, Invariance, PTL

(***************************************************************************)
(* insert never indexes past the vector of an entry.                       *)
(***************************************************************************)
THEOREM NeverOutOfBounds == Spec => []IndexInBounds
  <1>1. IInv => IndexInBounds
    <2> SUFFICES ASSUME IInv, NEW c \in net, ~Mismatched(inFlight, c)
                 PROVE  c.index < Entry(inFlight, c).total
      BY DEF IndexInBounds
    <2>1. PICK m \in Messages : outcome[m] = "ok" /\ c \in CellsOf(m)
      BY DEF IInv, NetInv
    <2>2. FragmentOk(m)
      BY <2>1 DEF IInv, OutcomeInv
    <2>3. /\ c.index \in 0 .. TotalCells(m) - 1
          /\ c.total = TotalCells(m)
          /\ TotalCells(m) \in Nat
      BY <2>1, <2>2, CellFacts
    <2>4. QED
      BY <2>3 DEF Mismatched
  <1>2. QED
    BY <1>1, Invariance, PTL

(***************************************************************************)
(* Integrity: every message that insert returns is one that was sent,      *)
(* whole and in order, whatever the fabric does to the cells.              *)
(***************************************************************************)
THEOREM ReassemblyIntegrity == Spec => []Integrity
  <1>1. IInv => Integrity
    <2> SUFFICES ASSUME IInv, NEW o \in outputs
                 PROVE  \E m \in Messages : outcome[m] = "ok" /\ Whole(o, m)
      BY DEF Integrity
    <2>1. PICK m \in Messages :
             /\ outcome[m] = "ok"
             /\ o.id = MessageId[m]
             /\ o.fragments = [i \in 0 .. TotalCells(m) - 1 |-> Chunk(m, i)]
      BY DEF IInv, OutputInv
    <2>2. FragmentOk(m)
      BY <2>1 DEF IInv, OutcomeInv
    <2>3. TotalCells(m) \in Nat \ {0}
      BY <2>2, LengthOk, TotalInRange, SeqMaxAssumption
    <2>4. /\ Chunk(m, 0).from = 0
          /\ \A i \in 1 .. TotalCells(m) - 1 :
                 Chunk(m, i).from = Chunk(m, i - 1).upto
          /\ Chunk(m, TotalCells(m) - 1).upto = MessageLen[m]
      BY <2>2, ChunksTile
    <2>5. \A i \in 0 .. TotalCells(m) - 1 : Chunk(m, i).msg = m
      BY DEF Chunk
    <2>6. /\ DOMAIN o.fragments = 0 .. TotalCells(m) - 1
          /\ \A i \in 0 .. TotalCells(m) - 1 : o.fragments[i] = Chunk(m, i)
      BY <2>1
    <2>7. o.fragments[0].from = 0
      BY <2>3, <2>4, <2>6
    <2>8. \A i \in DOMAIN o.fragments \ {0} :
             o.fragments[i].from = o.fragments[i - 1].upto
      BY <2>3, <2>4, <2>6
    <2>9. o.fragments[TotalCells(m) - 1].upto = MessageLen[m]
      BY <2>3, <2>4, <2>6
    <2>10. Whole(o, m)
      BY <2>1, <2>5, <2>6, <2>7, <2>8, <2>9 DEF Whole
    <2>11. QED
      BY <2>1, <2>10
  <1>2. QED
    BY <1>1, Invariance, PTL

(***************************************************************************)
(* fragment_message refuses a message only for its length: the casts to    *)
(* u16 never make new_data fail.                                           *)
(***************************************************************************)
THEOREM RefusalsAreLengths == Spec => []RefusedOnlyForLength
  <1>1. IInv => RefusedOnlyForLength
    BY LengthAccepted DEF IInv, OutcomeInv, RefusedOnlyForLength
  <1>2. QED
    BY <1>1, Invariance, PTL

------------------------------------------------------------------------------
(***************************************************************************)
(* What the properties about counts rest on.  Slot i of the entry for      *)
(* message m is filled; messages that share an id differ in their number   *)
(* of cells, so `total` says whose entry it is.                            *)
(***************************************************************************)
InStore(store, m, i) ==
    /\ MessageId[m] \in DOMAIN store
    /\ store[MessageId[m]].total = TotalCells(m)
    /\ i \in DOMAIN store[MessageId[m]].fragments

Filled(m, i) == IF InStore(inFlight, m, i) THEN 1 ELSE 0

\* A cell in a slot has not been used for a completion yet.
ReplayInv == \A m \in Messages : \A c \in CellsOf(m) :
                 returned[m] + Filled(m, c.index) <= arrivals[c]

\* Cells of a message that was not fragmented have not arrived.
FreshInv == \A m \in Messages : \A c \in CellsOf(m) :
                outcome[m] # "ok" => arrivals[c] = 0

\* Until the message is returned, what has arrived of it is in its slot.
ArrivedInv ==
    \A m \in Messages :
        outcome[m] = "ok" /\ Alone(m) /\ MessageId[m] \notin evicted /\ returned[m] = 0
            => \A c \in CellsOf(m) : arrivals[c] > 0 => InStore(inFlight, m, c.index)

\* Without repetitions a cell on its way has not arrived yet.
OnceInv == dups = 0 => \A c \in net : arrivals[c] = 0

CountInv == ReplayInv /\ FreshInv /\ ArrivedInv /\ OnceInv /\ NoResidue

\* The cells of two messages are different: each names its message.
LEMMA CellNamesMessage ==
    ASSUME NEW m, NEW c \in CellsOf(m)
    PROVE  c.data.msg = m
  BY DEF CellsOf, CellOf, Chunk

\* A cell on its way, and the entry it meets if insert accepts it.
LEMMA CellInNet ==
    ASSUME IInv, NEW c \in net
    PROVE  \E m \in Messages : /\ outcome[m] = "ok" /\ c \in CellsOf(m) /\ FragmentOk(m)
                               /\ c.id = MessageId[m] /\ c.total = TotalCells(m)
                               /\ c.data.msg = m /\ c.index \in 0 .. TotalCells(m) - 1
  <1>1. PICK m \in Messages : outcome[m] = "ok" /\ c \in CellsOf(m)
    BY DEF IInv, NetInv
  <1>2. FragmentOk(m)
    BY <1>1 DEF IInv, OutcomeInv
  <1>3. QED
    BY <1>1, <1>2, CellFacts

(***************************************************************************)
(* What insert does to the slots when it accepts a cell: it fills one slot *)
(* of one message, or it completes the message, all of whose other slots   *)
(* were filled, and empties it.                                            *)
(***************************************************************************)
LEMMA InsertSlots ==
    ASSUME IInv, NEW m \in Messages, outcome[m] = "ok", NEW c \in CellsOf(m),
           ~Mismatched(inFlight, c), NEW store, store = Inserted(inFlight, c)
    PROVE  /\ \A n \in Messages \ {m}, i \in Nat :
                  InStore(store, n, i) <=> InStore(inFlight, n, i)
           /\ \A i \in Nat : Completes(inFlight, c) => ~InStore(store, m, i)
           /\ \A i \in Nat : ~Completes(inFlight, c) =>
                  (InStore(store, m, i) <=> InStore(inFlight, m, i) \/ i = c.index)
           /\ \A i \in 0 .. TotalCells(m) - 1 :
                  Completes(inFlight, c) /\ i # c.index => InStore(inFlight, m, i)
           /\ DOMAIN store = IF Completes(inFlight, c) THEN DOMAIN inFlight \ {c.id}
                                                       ELSE DOMAIN inFlight \cup {c.id}
  <1> DEFINE e == Entry(inFlight, c)
             d == Stored(e, c)
             T == TotalCells(m)
  <1>1. FragmentOk(m)
    BY DEF IInv, OutcomeInv
  <1>2. c.id = MessageId[m] /\ c.total = T /\ c.index \in 0 .. T - 1 /\ T \in Nat \ {0}
    BY <1>1, CellFacts
  <1>3. GoodEntry(e, m)
    BY EntryIsOwn
  <1>4. /\ GoodEntry(d, m)
        /\ DOMAIN d.fragments = DOMAIN e.fragments \cup {c.index}
        /\ d.received = T => DOMAIN d.fragments = 0 .. T - 1
    BY <1>1, <1>3, StoredIsGood
  <1>5. e.total = T /\ d.total = T
    BY <1>3, <1>4 DEF GoodEntry
  <1>6. Completes(inFlight, c) <=> d.received = T
    BY <1>5 DEF Completes
  <1>7. \A i \in Nat : InStore(inFlight, m, i) <=> i \in DOMAIN e.fragments
    <2>1. CASE c.id \in DOMAIN inFlight
      BY <1>2, <1>5, <2>1 DEF Entry, InStore
    <2>2. CASE c.id \notin DOMAIN inFlight
      BY <1>2, <2>2 DEF Entry, NewPartial, Empty, InStore
    <2>3. QED
      BY <2>1, <2>2
  <1>8. store = IF Completes(inFlight, c) THEN Remove(inFlight, c.id)
                                          ELSE Put(inFlight, c.id, d)
    BY DEF Inserted
  <1>9. \A n \in Messages \ {m} : MessageId[n] = c.id => TotalCells(n) # T
    BY <1>2, IdAssumption
  <1> HIDE DEF d, e, T
  <1>10. CASE Completes(inFlight, c)
    <2>1. /\ DOMAIN store = DOMAIN inFlight \ {c.id}
          /\ \A id \in DOMAIN store : store[id] = inFlight[id]
      BY <1>8, <1>10 DEF Remove
    <2>2. \A i \in Nat : ~InStore(store, m, i)
      BY <1>2, <2>1 DEF InStore
    <2>3. ASSUME NEW n \in Messages \ {m}, NEW i \in Nat
          PROVE  InStore(store, n, i) <=> InStore(inFlight, n, i)
      <3>1. CASE MessageId[n] = c.id
        <4>1. ~InStore(store, n, i)
          BY <3>1, <2>1 DEF InStore
        <4>2. c.id \in DOMAIN inFlight => inFlight[c.id].total = T
          BY <1>5 DEF Entry, e
        <4>3. ~InStore(inFlight, n, i)
          BY <4>2, <3>1, <1>9 DEF InStore
        <4>4. QED
          BY <4>1, <4>3
      <3>2. CASE MessageId[n] # c.id
        BY <3>2, <2>1 DEF InStore
      <3>3. QED
        BY <3>1, <3>2
    <2>4. ASSUME NEW i \in 0 .. T - 1, i # c.index
          PROVE  InStore(inFlight, m, i)
      BY <1>2, <1>4, <1>6, <1>7, <1>10, <2>4
    <2>5. QED
      BY <1>10, <2>1, <2>2, <2>3, <2>4 DEF T
  <1>11. CASE ~Completes(inFlight, c)
    <2>1. /\ DOMAIN store = DOMAIN inFlight \cup {c.id}
          /\ store[c.id] = d
          /\ \A id \in DOMAIN inFlight \ {c.id} : store[id] = inFlight[id]
      BY <1>8, <1>11 DEF Put
    <2>2. \A i \in Nat : InStore(store, m, i) <=> InStore(inFlight, m, i) \/ i = c.index
      <3>1. \A i \in Nat : InStore(store, m, i) <=> i \in DOMAIN d.fragments
        BY <1>2, <1>5, <2>1 DEF InStore, T
      <3>2. QED
        BY <3>1, <1>4, <1>7
    <2>3. ASSUME NEW n \in Messages \ {m}, NEW i \in Nat
          PROVE  InStore(store, n, i) <=> InStore(inFlight, n, i)
      <3>1. CASE MessageId[n] = c.id
        <4>1. ~InStore(store, n, i)
          BY <3>1, <2>1, <1>5, <1>9 DEF InStore
        <4>2. c.id \in DOMAIN inFlight => inFlight[c.id].total = T
          BY <1>5 DEF Entry, e
        <4>3. ~InStore(inFlight, n, i)
          BY <4>2, <3>1, <1>9 DEF InStore
        <4>4. QED
          BY <4>1, <4>3
      <3>2. CASE MessageId[n] # c.id
        BY <3>2, <2>1 DEF InStore
      <3>3. QED
        BY <3>1, <3>2
    <2>4. QED
      BY <1>11, <2>1, <2>2, <2>3
  <1>12. QED
    BY <1>10, <1>11

\* Nothing has arrived at the start.
LEMMA InitCount == Init => CountInv
  <1> SUFFICES ASSUME Init PROVE CountInv
    OBVIOUS
  <1>1. \A m \in Messages : \A c \in CellsOf(m) : c \in AllCells /\ arrivals[c] = 0
    BY DEF Init, AllCells
  <1>2. \A m \in Messages, j \in Nat : ~InStore(inFlight, m, j)
    BY DEF Init, InStore, Empty
  <1>3. ReplayInv
    BY <1>1 DEF Init, ReplayInv, Filled, InStore, Empty
  <1>4. FreshInv /\ ArrivedInv
    BY <1>1 DEF Init, FreshInv, ArrivedInv
  <1>5. OnceInv /\ NoResidue
    BY DEF Init, OnceInv, NoResidue
  <1>6. QED
    BY <1>3, <1>4, <1>5 DEF CountInv

\* What was sent stays sent, so a message is not alone again.
LEMMA AloneBefore ==
    ASSUME IInv, NEW m \in Messages, Alone(m)',
           \A n \in Messages : outcome[n] = "ok" => outcome'[n] = "ok"
    PROVE  Alone(m)
  BY DEF Alone

\* fragment_message: the new cells have not arrived.
LEMMA FragmentCount ==
    ASSUME IInv, CountInv, NEW m \in Messages, Fragment(m)
    PROVE  CountInv'
  <1>1. /\ outcome[m] = "unsent"
        /\ \A n \in Messages \ {m} : outcome'[n] = outcome[n]
        /\ outcome'[m] = "ok" => FragmentOk(m)
        /\ net' \subseteq net \cup CellsOf(m)
        /\ UNCHANGED <<dups, inFlight, outputs, returned, arrivals, evicted>>
    BY DEF Fragment, IInv, Types
  <1>2. \A n \in Messages : outcome[n] = "ok" => outcome'[n] = "ok"
    BY <1>1
  <1>3. \A c \in CellsOf(m) : arrivals[c] = 0
    BY <1>1 DEF CountInv, FreshInv
  <1>4. ReplayInv'
    BY <1>1 DEF CountInv, ReplayInv, Filled
  <1>5. FreshInv'
    BY <1>1, <1>2 DEF CountInv, FreshInv
  <1>6. ArrivedInv'
    <2> SUFFICES ASSUME NEW n \in Messages, outcome'[n] = "ok", Alone(n)',
                        MessageId[n] \notin evicted, returned[n] = 0,
                        NEW c \in CellsOf(n), arrivals[c] > 0
                 PROVE  InStore(inFlight, n, c.index)
      BY <1>1 DEF ArrivedInv
    <2>1. n # m
      BY <1>3
    <2>2. Alone(n)
      BY <1>2, AloneBefore
    <2>3. QED
      BY <1>1, <2>1, <2>2 DEF CountInv, ArrivedInv
  <1>7. OnceInv'
    BY <1>1, <1>3 DEF CountInv, OnceInv
  <1>8. NoResidue'
    BY <1>1, <1>2, AloneBefore DEF CountInv, NoResidue
  <1>9. QED
    BY <1>4, <1>5, <1>6, <1>7, <1>8 DEF CountInv

\* Losing a cell.
LEMMA LoseCount ==
    ASSUME IInv, CountInv, NEW c \in net, Lose(c)
    PROVE  CountInv'
  <1>1. /\ net' \subseteq net
        /\ UNCHANGED <<outcome, dups, inFlight, outputs, returned, arrivals, evicted>>
    BY DEF Lose
  <1>2. QED
    BY <1>1 DEF CountInv, ReplayInv, Filled, FreshInv, ArrivedInv, OnceInv, NoResidue, Alone

\* evict: fewer slots are filled, and the id is remembered.
LEMMA EvictCount ==
    ASSUME IInv, CountInv, NEW id \in Ids, Evict(id)
    PROVE  CountInv'
  <1>1. /\ DOMAIN inFlight' = DOMAIN inFlight \ {id}
        /\ \A x \in DOMAIN inFlight' : inFlight'[x] = inFlight[x]
        /\ evicted' = evicted \cup {id}
        /\ UNCHANGED <<outcome, net, dups, outputs, returned, arrivals>>
    BY DEF Evict, Remove
  <1>2. \A m \in Messages : \A j : InStore(inFlight', m, j) => InStore(inFlight, m, j)
    BY <1>1 DEF InStore
  <1>3. \A m \in Messages : \A j : MessageId[m] # id /\ InStore(inFlight, m, j)
                                       => InStore(inFlight', m, j)
    BY <1>1 DEF InStore
  <1>4. ReplayInv'
    <2> SUFFICES ASSUME NEW m \in Messages, NEW c \in CellsOf(m)
                 PROVE  returned[m] + Filled(m, c.index)' <= arrivals[c]
      BY <1>1 DEF ReplayInv
    <2>1. returned[m] + Filled(m, c.index) <= arrivals[c]
      BY DEF CountInv, ReplayInv
    <2>2. returned[m] \in Nat /\ arrivals[c] \in Nat
      BY DEF IInv, Types, AllCells
    <2>3. QED
      BY <1>2, <2>1, <2>2 DEF Filled
  <1>5. FreshInv' /\ OnceInv'
    BY <1>1 DEF CountInv, FreshInv, OnceInv
  <1>6. ArrivedInv'
    <2> SUFFICES ASSUME NEW n \in Messages, outcome[n] = "ok", Alone(n),
                        MessageId[n] \notin evicted', returned[n] = 0,
                        NEW c \in CellsOf(n), arrivals[c] > 0
                 PROVE  InStore(inFlight', n, c.index)
      BY <1>1 DEF ArrivedInv, Alone
    <2>1. InStore(inFlight, n, c.index)
      BY <1>1 DEF CountInv, ArrivedInv
    <2>2. MessageId[n] # id
      BY <1>1
    <2>3. QED
      BY <1>3, <2>1, <2>2
  <1>7. NoResidue'
    BY <1>1 DEF CountInv, NoResidue, Alone
  <1>8. QED
    BY <1>4, <1>5, <1>6, <1>7 DEF CountInv

\* How handing a cell over changes the counts.
LEMMA HandOverFacts ==
    ASSUME IInv, NEW c \in net, HandOver(c)
    PROVE  /\ arrivals'[c] = arrivals[c] + 1
           /\ \A b \in AllCells \ {c} : arrivals'[b] = arrivals[b]
           /\ \A b \in AllCells : arrivals[b] \in Nat /\ arrivals'[b] \in Nat
           /\ dups' = 0 => dups = 0 /\ net' = net \ {c}
           /\ c \in AllCells
  BY MaxDupsAssumption DEF HandOver, IInv, Types

(***************************************************************************)
(* insert: whatever it answers, the cell has arrived; if the entry is of   *)
(* another message, the cell's own message is not alone.                   *)
(***************************************************************************)
LEMMA RejectedCount ==
    ASSUME IInv, CountInv, NEW c \in net, InsertRejected(c)
    PROVE  CountInv'
  <1>1. PICK m \in Messages : /\ outcome[m] = "ok" /\ c \in CellsOf(m)
                              /\ c.id = MessageId[m] /\ c.total = TotalCells(m)
    BY CellInNet
  <1>2. /\ inFlight' = inFlight /\ HandOver(c)
        /\ UNCHANGED <<outcome, outputs, returned, evicted>>
    BY DEF InsertRejected, Inserted
  <1>3. ~Alone(m)
    <2>1. c.id \in DOMAIN inFlight /\ inFlight[c.id].total # c.total
      BY DEF InsertRejected, Mismatched, Entry, NewPartial
    <2>2. PICK n \in Messages : /\ outcome[n] = "ok" /\ MessageId[n] = c.id
                                /\ GoodEntry(inFlight[c.id], n)
      BY <2>1 DEF IInv, StoreInv
    <2>3. n # m
      BY <1>1, <2>1, <2>2 DEF GoodEntry
    <2>4. QED
      BY <1>1, <2>2, <2>3 DEF Alone
  <1>4. \A n \in Messages \ {m} : c \notin CellsOf(n)
    BY <1>1, CellNamesMessage
  <1>5. \A n \in Messages : \A b \in CellsOf(n) : b \in AllCells
    BY DEF AllCells
  <1>6. ReplayInv'
    <2> SUFFICES ASSUME NEW n \in Messages, NEW b \in CellsOf(n)
                 PROVE  returned[n] + Filled(n, b.index) <= arrivals'[b]
      BY <1>2 DEF ReplayInv, Filled
    <2>1. returned[n] + Filled(n, b.index) <= arrivals[b]
      BY DEF CountInv, ReplayInv
    <2>2. returned[n] \in Nat /\ Filled(n, b.index) \in Nat
      BY DEF IInv, Types, Filled
    <2>3. QED
      BY <1>2, <1>5, <2>1, <2>2, HandOverFacts
  <1>7. FreshInv'
    BY <1>1, <1>2, <1>4, <1>5, HandOverFacts DEF CountInv, FreshInv
  <1>8. ArrivedInv'
    BY <1>2, <1>3, <1>4, <1>5, HandOverFacts DEF CountInv, ArrivedInv, Alone
  <1>9. OnceInv'
    BY <1>2, HandOverFacts DEF CountInv, OnceInv, IInv, Types
  <1>10. NoResidue'
    BY <1>2, HandOverFacts DEF CountInv, NoResidue, Alone
  <1>11. QED
    BY <1>6, <1>7, <1>8, <1>9, <1>10 DEF CountInv

(***************************************************************************)
(* insert accepts a cell: its slot is filled, or every slot of its message *)
(* is used up by the one completion.                                       *)
(***************************************************************************)
LEMMA AcceptedCount ==
    ASSUME IInv, CountInv, NEW c \in net, InsertPending(c) \/ InsertCompletes(c)
    PROVE  CountInv'
  <1> DEFINE done == Completes(inFlight, c)
  <1>1. PICK m \in Messages : /\ outcome[m] = "ok" /\ c \in CellsOf(m) /\ FragmentOk(m)
                              /\ c.id = MessageId[m] /\ c.data.msg = m
                              /\ c.index \in 0 .. TotalCells(m) - 1
    BY CellInNet
  <1>2. /\ inFlight' = Inserted(inFlight, c) /\ HandOver(c) /\ ~Mismatched(inFlight, c)
        /\ UNCHANGED <<outcome, evicted>>
    BY DEF InsertPending, InsertCompletes, Completes
  <1>3. /\ \A n \in Messages : returned[n] \in Nat
        /\ \A n \in Messages \ {m} : returned'[n] = returned[n]
        /\ returned'[m] = IF done THEN returned[m] + 1 ELSE returned[m]
    BY <1>1 DEF InsertPending, InsertCompletes, IInv, Types
  <1>4. /\ \A n \in Messages \ {m}, j \in Nat :
               InStore(inFlight', n, j) <=> InStore(inFlight, n, j)
        /\ \A j \in Nat : done => ~InStore(inFlight', m, j)
        /\ \A j \in Nat : ~done =>
               (InStore(inFlight', m, j) <=> InStore(inFlight, m, j) \/ j = c.index)
        /\ \A j \in 0 .. TotalCells(m) - 1 :
               done /\ j # c.index => InStore(inFlight, m, j)
        /\ DOMAIN inFlight' = IF done THEN DOMAIN inFlight \ {c.id}
                                      ELSE DOMAIN inFlight \cup {c.id}
    BY <1>1, <1>2, InsertSlots
  <1> HIDE DEF done
  <1>5. \A n \in Messages : \A b \in CellsOf(n) : b \in AllCells /\ b.index \in Nat
    <2> SUFFICES ASSUME NEW n \in Messages, NEW b \in CellsOf(n) PROVE b.index \in Nat
      BY DEF AllCells
    <2>1. PICK j \in 0 .. TotalCells(n) - 1 : b = CellOf(n, j)
      BY DEF CellsOf
    <2>2. b.index = j % (SeqMax + 1)
      BY <2>1 DEF CellOf, AsU16
    <2>3. j \in Nat
      BY DEF CellsOf
    <2>4. QED
      BY <2>2, <2>3, SeqMaxAssumption
  <1>6. \A n \in Messages \ {m} : c \notin CellsOf(n)
    BY <1>1, CellNamesMessage
  <1>7. \A b \in CellsOf(m) : /\ b.index \in 0 .. TotalCells(m) - 1
                              /\ b.index = c.index => b = c
    BY <1>1, CellFacts
  <1>8. /\ arrivals'[c] = arrivals[c] + 1
        /\ \A b \in AllCells \ {c} : arrivals'[b] = arrivals[b]
        /\ \A b \in AllCells : arrivals[b] \in Nat /\ arrivals'[b] \in Nat
        /\ dups' = 0 => dups = 0 /\ net' = net \ {c}
    BY <1>2, HandOverFacts
  <1>9. ReplayInv'
    <2> SUFFICES ASSUME NEW n \in Messages, NEW b \in CellsOf(n)
                 PROVE  returned'[n] + Filled(n, b.index)' <= arrivals'[b]
      BY DEF ReplayInv
    <2>1. returned[n] + Filled(n, b.index) <= arrivals[b]
      BY DEF CountInv, ReplayInv
    <2>2. CASE n # m
      <3>1. b # c
        BY <1>6, <2>2
      <3>2. Filled(n, b.index)' = Filled(n, b.index)
        BY <1>4, <1>5, <2>2 DEF Filled
      <3>3. QED
        BY <1>3, <1>5, <1>8, <2>1, <2>2, <3>1, <3>2
    <2>3. CASE n = m /\ b = c
      BY <1>1, <1>3, <1>4, <1>5, <1>8, <2>1, <2>3 DEF Filled
    <2>4. CASE n = m /\ b # c
      <3>1. b.index # c.index /\ b.index \in 0 .. TotalCells(m) - 1
        BY <1>7, <2>4
      <3>2. arrivals'[b] = arrivals[b]
        BY <1>5, <1>8, <2>4
      <3>3. CASE done
        BY <1>3, <1>4, <1>5, <2>1, <2>4, <3>1, <3>2, <3>3 DEF Filled
      <3>4. CASE ~done
        BY <1>3, <1>4, <1>5, <2>1, <2>4, <3>1, <3>2, <3>4 DEF Filled
      <3>5. QED
        BY <3>3, <3>4
    <2>5. QED
      BY <2>2, <2>3, <2>4
  <1>10. FreshInv'
    BY <1>1, <1>2, <1>5, <1>6, <1>8 DEF CountInv, FreshInv
  <1>11. ArrivedInv'
    <2> SUFFICES ASSUME NEW n \in Messages, outcome[n] = "ok", Alone(n),
                        MessageId[n] \notin evicted, returned'[n] = 0,
                        NEW b \in CellsOf(n), arrivals'[b] > 0
                 PROVE  InStore(inFlight', n, b.index)
      BY <1>2 DEF ArrivedInv, Alone
    <2>1. returned[n] = 0
      BY <1>1, <1>3
    <2>2. \A d \in CellsOf(n) : arrivals[d] > 0 => InStore(inFlight, n, d.index)
      BY <2>1 DEF CountInv, ArrivedInv
    <2>3. CASE n # m
      BY <1>4, <1>5, <1>6, <1>8, <2>2, <2>3
    <2>4. CASE n = m
      <3>1. ~done
        BY <1>3, <2>4
      <3>2. CASE b = c
        BY <1>4, <1>5, <2>4, <3>1, <3>2
      <3>3. CASE b # c
        BY <1>4, <1>5, <1>8, <2>2, <2>4, <3>1, <3>3
      <3>4. QED
        BY <3>2, <3>3
    <2>5. QED
      BY <2>3, <2>4
  <1>12. OnceInv'
    BY <1>8 DEF CountInv, OnceInv, IInv, Types
  <1>13. NoResidue'
    <2> SUFFICES ASSUME dups' = 0, NEW n \in Messages, Alone(n), returned'[n] > 0
                 PROVE  MessageId[n] \notin DOMAIN inFlight'
      BY <1>2 DEF NoResidue, Alone
    <2>1. dups = 0 /\ arrivals[c] = 0
      BY <1>8 DEF CountInv, OnceInv
    <2>2. CASE n # m
      <3>1. MessageId[n] # c.id
        BY <1>1, <2>2 DEF Alone
      <3>2. MessageId[n] \notin DOMAIN inFlight
        BY <1>3, <2>1, <2>2 DEF CountInv, NoResidue
      <3>3. QED
        BY <1>4, <3>1, <3>2
    <2>3. CASE n = m
      <3>1. returned[m] = 0
        <4>1. returned[m] + Filled(m, c.index) <= 0
          BY <1>1, <2>1 DEF CountInv, ReplayInv
        <4>2. QED
          BY <1>3, <4>1 DEF Filled
      <3>2. done
        BY <1>3, <2>3, <3>1
      <3>3. QED
        BY <1>1, <1>4, <2>3, <3>2
    <2>4. QED
      BY <2>2, <2>3
  <1>14. QED
    BY <1>9, <1>10, <1>11, <1>12, <1>13 DEF CountInv

\* The counts are inductive.
LEMMA NextCount == IInv /\ CountInv /\ [Next]_vars => CountInv'
  <1> SUFFICES ASSUME IInv, CountInv, [Next]_vars PROVE CountInv'
    OBVIOUS
  <1>1. CASE UNCHANGED vars
    BY <1>1 DEF vars, CountInv, ReplayInv, Filled, FreshInv, ArrivedInv, OnceInv,
                NoResidue, Alone
  <1>2. QED
    BY <1>1, FragmentCount, LoseCount, RejectedCount, AcceptedCount, EvictCount DEF Next

\* They hold in every reachable state.
LEMMA CountInvariance == Spec => []CountInv
  BY InitCount, NextCount, Invariance, PTL DEF Spec

(***************************************************************************)
(* However often the fabric repeats a cell, insert returns a message at    *)
(* most as often as each of its cells arrived.                             *)
(***************************************************************************)
THEOREM NothingIsReplayed == Spec => []NoReplay
  <1>1. IInv /\ CountInv => NoReplay
    <2> SUFFICES ASSUME IInv, CountInv, NEW m \in Messages, NEW c \in CellsOf(m)
                 PROVE  returned[m] <= arrivals[c]
      BY DEF NoReplay
    <2>1. returned[m] + Filled(m, c.index) <= arrivals[c]
      BY DEF CountInv, ReplayInv
    <2>2. returned[m] \in Nat /\ arrivals[c] \in Nat
      BY DEF IInv, Types, AllCells
    <2>3. QED
      BY <2>1, <2>2 DEF Filled
  <1>2. QED
    BY <1>1, Invariance, CountInvariance, PTL

(***************************************************************************)
(* insert never holds back a message all of whose cells it was given, in   *)
(* whatever order they came.                                               *)
(***************************************************************************)
THEOREM WhatArrivedIsReturned == Spec => []ArrivedMeansReturned
  <1>1. IInv /\ CountInv => ArrivedMeansReturned
    <2> SUFFICES ASSUME IInv, CountInv, NEW m \in Messages, outcome[m] = "ok", Alone(m),
                        MessageId[m] \notin evicted,
                        \A c \in CellsOf(m) : arrivals[c] > 0,
                        returned[m] = 0
                 PROVE  FALSE
      BY DEF ArrivedMeansReturned, IInv, Types
    <2> DEFINE T == TotalCells(m)
               e == inFlight[MessageId[m]]
    <2>1. FragmentOk(m)
      BY DEF IInv, OutcomeInv
    <2>2. \A i \in 0 .. T - 1 : CellOf(m, i) \in CellsOf(m) /\ CellOf(m, i).index = i
      BY <2>1, CellFields DEF CellsOf
    <2>3. \A i \in 0 .. T - 1 : InStore(inFlight, m, i)
      BY <2>2 DEF CountInv, ArrivedInv
    <2>4. T \in Nat \ {0}
      BY <2>1, LengthOk, TotalInRange, SeqMaxAssumption
    <2>5. /\ MessageId[m] \in DOMAIN inFlight /\ e.total = T
          /\ 0 .. T - 1 \subseteq DOMAIN e.fragments
      BY <2>3, <2>4 DEF InStore
    <2>6. PICK n \in Messages : /\ outcome[n] = "ok" /\ MessageId[n] = MessageId[m]
                                /\ GoodEntry(e, n) /\ e.received # TotalCells(n)
      BY <2>5 DEF IInv, StoreInv
    <2>7. n = m
      BY <2>6 DEF Alone
    <2>8. DOMAIN e.fragments = 0 .. T - 1 /\ e.received = Cardinality(DOMAIN e.fragments)
      BY <2>5, <2>6, <2>7 DEF GoodEntry
    <2>9. Cardinality(0 .. T - 1) = T
      BY <2>4, FS_Interval, SMT
    <2>10. QED
      BY <2>6, <2>7, <2>8, <2>9
  <1>2. QED
    BY <1>1, Invariance, CountInvariance, PTL

(***************************************************************************)
(* As long as nothing is repeated, a message that was returned leaves      *)
(* nothing behind in in_flight.                                            *)
(***************************************************************************)
THEOREM NothingIsLeft == Spec => []NoResidue
  <1>1. CountInv => NoResidue
    BY DEF CountInv
  <1>2. QED
    BY <1>1, CountInvariance, PTL

(***************************************************************************)
(* A slot once filled keeps its fragment until the entry is removed; no    *)
(* cell, rejected or accepted, disturbs an entry of another message.       *)
(***************************************************************************)
THEOREM FragmentsAreKept == Spec => FragmentsStick
  <1> DEFINE Sticks == \A id \in DOMAIN inFlight \cap DOMAIN inFlight' :
                           LET e == inFlight[id]
                               d == inFlight'[id]
                           IN  /\ d.total = e.total
                               /\ DOMAIN e.fragments \subseteq DOMAIN d.fragments
                               /\ \A i \in DOMAIN e.fragments :
                                      d.fragments[i] = e.fragments[i]
  <1>1. IInv /\ [Next]_vars => [Sticks]_vars
    <2> SUFFICES ASSUME IInv, Next PROVE Sticks
      OBVIOUS
    <2>1. CASE inFlight' = inFlight
      BY <2>1
    <2>2. ASSUME NEW id, inFlight' = Remove(inFlight, id)
          PROVE  Sticks
      BY <2>2 DEF Remove
    <2>3. ASSUME NEW c \in net, InsertRejected(c) \/ InsertPending(c) \/ InsertCompletes(c)
          PROVE  Sticks
      <3>1. inFlight' = Inserted(inFlight, c)
        BY <2>3 DEF InsertRejected, InsertPending, InsertCompletes
      <3>2. CASE Mismatched(inFlight, c) \/ Completes(inFlight, c)
        BY <2>1, <2>2, <3>1, <3>2 DEF Inserted
      <3>3. CASE ~Mismatched(inFlight, c) /\ ~Completes(inFlight, c)
        <4>1. inFlight' = Put(inFlight, c.id, Stored(Entry(inFlight, c), c))
          BY <3>1, <3>3 DEF Inserted
        <4>2. \A id \in DOMAIN inFlight \ {c.id} : inFlight'[id] = inFlight[id]
          BY <4>1 DEF Put
        <4>3. c.id \in DOMAIN inFlight => inFlight'[c.id] = Stored(inFlight[c.id], c)
          BY <4>1 DEF Put, Entry
        <4>4. ASSUME NEW e
              PROVE  /\ Stored(e, c).total = e.total
                     /\ DOMAIN e.fragments \subseteq DOMAIN Stored(e, c).fragments
                     /\ \A i \in DOMAIN e.fragments :
                            Stored(e, c).fragments[i] = e.fragments[i]
          BY DEF Stored, Put
        <4>5. QED
          BY <4>2, <4>3, <4>4
      <3>4. QED
        BY <3>2, <3>3
    <2>4. QED
      BY <2>1, <2>2, <2>3 DEF Next, Fragment, Lose, Evict
  <1>2. QED
    BY <1>1, Invariance, PTL DEF Spec, FragmentsStick
==============================================================================
