----------------------------- MODULE CellLemmas ------------------------------
(***************************************************************************)
(* Lemmas about the operators of Cells and Reassembler, which the proofs   *)
(* about Reassembly, Delivery and Sending share.                           *)
(***************************************************************************)
EXTENDS Reassembler, Integers, Sequences, FiniteSets, FiniteSetTheorems,
        WellFoundedInduction, TLAPS

(***************************************************************************)
(* Arithmetic of div_ceil: q = DivCeil(n, d) is the number of chunks of d  *)
(* that cover n, the last one not empty.                                   *)
(***************************************************************************)
LEMMA DivCeilCovers ==
    ASSUME NEW n \in Nat \ {0}, NEW d \in Nat \ {0}
    PROVE  /\ DivCeil(n, d) \in Nat \ {0}
           /\ n <= DivCeil(n, d) * d
           /\ DivCeil(n, d) * d < n + d
  <1> DEFINE q == (n + d - 1) \div d
  <1>1. /\ n + d - 1 \in Nat
        /\ n + d - 1 >= d
    OBVIOUS
  <1>2. q \in Nat /\ q * d <= n + d - 1 /\ n + d - 1 < q * d + d
    BY <1>1, SMT
  <1>3. q # 0
    BY <1>1, <1>2, SMT
  <1>4. QED
    BY <1>2, <1>3, SMT DEF DivCeil

\* n bytes need at most k chunks of d bytes when n <= d * k.
LEMMA DivCeilBound ==
    ASSUME NEW n \in Nat \ {0}, NEW d \in Nat \ {0}, NEW k \in Nat, n <= d * k
    PROVE  DivCeil(n, d) <= k
  <1> DEFINE q == DivCeil(n, d)
  <1>1. q \in Nat /\ q * d < n + d
    BY DivCeilCovers
  <1>2. SUFFICES ASSUME q >= k + 1 PROVE FALSE
    BY <1>1, SMT
  <1> HIDE DEF q
  <1>3. q * d >= k * d + d
    BY <1>1, <1>2, SMT
  <1>4. QED
    BY <1>1, <1>3, SMT

\* The cast `as u16` keeps a number that fits.
LEMMA CastFits ==
    ASSUME NEW n \in 0 .. SeqMax
    PROVE  AsU16(n) = n
  BY SeqMaxAssumption, SMT DEF AsU16

\* Chunks start in the order of their indices.
LEMMA ProductOrder ==
    ASSUME NEW a \in Nat, NEW b \in Nat, NEW d \in Nat, a <= b
    PROVE  a * d <= b * d
  BY SMT

(***************************************************************************)
(* The cells of a message that fragment_message accepts: their number fits *)
(* the 16-bit fields, so the casts change nothing.                         *)
(***************************************************************************)
LEMMA TotalInRange ==
    ASSUME NEW m \in Messages, MessageLen[m] \in 1 .. MaxMessageSize
    PROVE  TotalCells(m) \in 1 .. SeqMax
  <1>1. /\ MessageLen[m] \in Nat \ {0}
        /\ Capacity \in Nat \ {0}
        /\ SeqMax \in Nat
        /\ MessageLen[m] <= Capacity * SeqMax
    BY CapacityAssumption, SeqMaxAssumption, MessageAssumption, SMT
       DEF MaxMessageSize
  <1>2. TotalCells(m) \in Nat \ {0}
    BY <1>1, DivCeilCovers DEF TotalCells
  <1>3. TotalCells(m) <= SeqMax
    BY <1>1, DivCeilBound DEF TotalCells
  <1>4. QED
    BY <1>1, <1>2, <1>3

\* A fragmented message has a length in range.
LEMMA LengthOk ==
    ASSUME NEW m \in Messages, FragmentOk(m)
    PROVE  MessageLen[m] \in 1 .. MaxMessageSize
  BY CapacityAssumption, SeqMaxAssumption, MessageAssumption, SMT
     DEF FragmentOk, MaxMessageSize

\* The header that the i-th cell of a message carries.
LEMMA CellFields ==
    ASSUME NEW m \in Messages, FragmentOk(m),
           NEW i \in 0 .. TotalCells(m) - 1
    PROVE  CellOf(m, i) = [id |-> MessageId[m], index |-> i,
                           total |-> TotalCells(m), data |-> Chunk(m, i)]
  <1>1. TotalCells(m) \in 1 .. SeqMax
    BY LengthOk, TotalInRange
  <1>2. AsU16(TotalCells(m)) = TotalCells(m)
    BY <1>1, SeqMaxAssumption, CastFits
  <1>3. i \in 0 .. SeqMax
    BY <1>1, SeqMaxAssumption
  <1>4. AsU16(i) = i
    BY <1>3, CastFits
  <1>5. QED
    BY <1>2, <1>4 DEF CellOf

(***************************************************************************)
(* The chunks of an accepted message tile it from the first byte to the    *)
(* last.                                                                   *)
(***************************************************************************)
LEMMA ChunksTile ==
    ASSUME NEW m \in Messages, FragmentOk(m)
    PROVE  /\ Chunk(m, 0).from = 0
           /\ \A i \in 1 .. TotalCells(m) - 1 :
                  Chunk(m, i).from = Chunk(m, i - 1).upto
           /\ Chunk(m, TotalCells(m) - 1).upto = MessageLen[m]
  <1> DEFINE T == TotalCells(m)
             L == MessageLen[m]
  <1>1. Capacity \in Nat \ {0} /\ L \in Nat \ {0}
    BY CapacityAssumption, MessageAssumption DEF FragmentOk
  <1>2. T \in Nat \ {0} /\ L <= T * Capacity /\ T * Capacity < L + Capacity
    BY <1>1, DivCeilCovers DEF TotalCells
  <1> HIDE DEF T, L
  <1>3. Chunk(m, 0).from = 0
    BY <1>1, SMT DEF Chunk
  <1>4. ASSUME NEW i \in 1 .. T - 1
        PROVE  Chunk(m, i).from = Chunk(m, i - 1).upto
    <2>1. i \in Nat /\ i + 1 <= T /\ i + 1 \in Nat
      BY <1>2
    <2>2. (i + 1) * Capacity <= T * Capacity
      BY <1>1, <1>2, <2>1, ProductOrder
    <2>3. i * Capacity < L
      BY <1>1, <1>2, <2>1, <2>2, SMT
    <2>4. (i - 1) + 1 = i
      BY <2>1
    <2>5. ChunkEnd(m, i - 1) = i * Capacity
      BY <2>3, <2>4 DEF ChunkEnd, L
    <2>6. QED
      BY <2>5 DEF Chunk
  <1>5. Chunk(m, T - 1).upto = L
    <2>1. (T - 1) + 1 = T
      BY <1>2
    <2>2. ~(T * Capacity < L)
      BY <1>1, <1>2, SMT
    <2>3. ChunkEnd(m, T - 1) = L
      BY <2>1, <2>2 DEF ChunkEnd, L
    <2>4. QED
      BY <2>3 DEF Chunk
  <1>6. QED
    BY <1>3, <1>4, <1>5 DEF T, L

(***************************************************************************)
(* Conversely, no message of an accepted length is refused by new_data.    *)
(***************************************************************************)
LEMMA LengthAccepted ==
    ASSUME NEW m \in Messages, MessageLen[m] \in 1 .. MaxMessageSize
    PROVE  FragmentOk(m)
  <1>1. TotalCells(m) \in 1 .. SeqMax
    BY TotalInRange
  <1>2. AsU16(TotalCells(m)) = TotalCells(m)
    BY <1>1, SeqMaxAssumption, CastFits
  <1>3. ASSUME NEW i \in 0 .. TotalCells(m) - 1
        PROVE  NewDataOk(CellOf(m, i))
    <2>1. i \in 0 .. SeqMax /\ i \in Nat
      BY <1>1, SeqMaxAssumption
    <2>2. AsU16(i) = i
      BY <2>1, CastFits
    <2>3. ChunkEnd(m, i) - i * Capacity <= Capacity
      <3>1. (i + 1) * Capacity = i * Capacity + Capacity
        BY <2>1, CapacityAssumption, SMT
      <3>2. i * Capacity \in Nat /\ MessageLen[m] \in Nat /\ Capacity \in Nat
        BY <2>1, CapacityAssumption, MessageAssumption, SMT
      <3>3. QED
        BY <3>1, <3>2 DEF ChunkEnd
    <2>4. QED
      BY <1>1, <1>2, <2>2, <2>3 DEF NewDataOk, CellOf, Chunk
  <1>4. \A c \in CellsOf(m) : NewDataOk(c)
    BY <1>3 DEF CellsOf
  <1>5. MessageLen[m] # 0 /\ MessageLen[m] <= MaxMessageSize
    OBVIOUS
  <1>6. QED
    BY <1>4, <1>5 DEF FragmentOk

(***************************************************************************)
(* What is known of a cell of an accepted message.                         *)
(***************************************************************************)
LEMMA CellFacts ==
    ASSUME NEW m \in Messages, FragmentOk(m), NEW c \in CellsOf(m)
    PROVE  /\ TotalCells(m) \in Nat \ {0}
           /\ c.id = MessageId[m]
           /\ c.id \in Ids
           /\ c.total = TotalCells(m)
           /\ c.index \in 0 .. TotalCells(m) - 1
           /\ c.data = Chunk(m, c.index)
           /\ c.data.msg = m
           /\ c = CellOf(m, c.index)
           /\ c \in AllCells
  <1>1. PICK i \in 0 .. TotalCells(m) - 1 : c = CellOf(m, i)
    BY DEF CellsOf
  <1>2. c = [id |-> MessageId[m], index |-> i, total |-> TotalCells(m),
             data |-> Chunk(m, i)]
    BY <1>1, CellFields
  <1>3. TotalCells(m) \in Nat \ {0}
    BY LengthOk, TotalInRange, SeqMaxAssumption
  <1>4. c.data.msg = m
    BY <1>2 DEF Chunk
  <1>5. MessageId[m] \in Ids
    BY MessageAssumption
  <1>6. c \in AllCells
    BY DEF AllCells
  <1>7. c.id = MessageId[m] /\ c.index = i /\ c.total = TotalCells(m)
        /\ c.data = Chunk(m, i)
    BY <1>2
  <1> HIDE DEF TotalCells, Chunk, CellOf
  <1>8. QED
    BY <1>1, <1>3, <1>4, <1>5, <1>6, <1>7, Zenon

------------------------------------------------------------------------------
(***************************************************************************)
(* An entry of in_flight that holds chunks of message m, each in its own   *)
(* slot, and counts them.                                                  *)
(***************************************************************************)
GoodEntry(e, m) ==
    /\ e = [total |-> e.total, received |-> e.received,
            fragments |-> e.fragments]
    /\ e.total = TotalCells(m)
    /\ DOMAIN e.fragments \subseteq 0 .. TotalCells(m) - 1
    /\ e.fragments = [i \in DOMAIN e.fragments |-> Chunk(m, i)]
    /\ e.received = Cardinality(DOMAIN e.fragments)

(***************************************************************************)
(* Storing a fragment keeps the entry good, and the counter reaches        *)
(* seq_total exactly when every slot is filled.                            *)
(***************************************************************************)
LEMMA StoredIsGood ==
    ASSUME NEW m \in Messages, FragmentOk(m), NEW c \in CellsOf(m),
           NEW e, GoodEntry(e, m)
    PROVE  LET d == Stored(e, c)
           IN  /\ GoodEntry(d, m)
               /\ DOMAIN d.fragments = DOMAIN e.fragments \cup {c.index}
               /\ d.received = TotalCells(m)
                      => DOMAIN d.fragments = 0 .. TotalCells(m) - 1
  <1> DEFINE T == TotalCells(m)
             d == Stored(e, c)
  <1>1. /\ T \in Nat \ {0}
        /\ c.index \in 0 .. T - 1
        /\ c.data = Chunk(m, c.index)
    BY CellFacts
  <1>2. IsFiniteSet(0 .. T - 1) /\ Cardinality(0 .. T - 1) = T
    BY <1>1, FS_Interval, SMT
  <1>3. DOMAIN e.fragments \subseteq 0 .. T - 1
    BY DEF GoodEntry
  <1>4. IsFiniteSet(DOMAIN e.fragments)
    BY <1>2, <1>3, FS_Subset
  <1>5. Cardinality(DOMAIN e.fragments) \in Nat
    BY <1>4, FS_CardinalityType
  <1>6. /\ GoodEntry(d, m)
        /\ DOMAIN d.fragments = DOMAIN e.fragments \cup {c.index}
    <2>1. CASE c.index \in DOMAIN e.fragments
      BY <2>1 DEF Stored
    <2>2. CASE c.index \notin DOMAIN e.fragments
      <3>1. /\ d.total = e.total
            /\ d.received = e.received + 1
            /\ d.fragments = Put(e.fragments, c.index, c.data)
            /\ d = [total |-> d.total, received |-> d.received,
                    fragments |-> d.fragments]
        BY <2>2 DEF Stored
      <3>2. DOMAIN d.fragments = DOMAIN e.fragments \cup {c.index}
        BY <3>1 DEF Put
      <3>3. Cardinality(DOMAIN d.fragments) = e.received + 1
        <4>1. Cardinality(DOMAIN e.fragments \cup {c.index})
                = Cardinality(DOMAIN e.fragments) + 1
          BY <1>4, <2>2, FS_AddElement, Zenon
        <4>2. e.received = Cardinality(DOMAIN e.fragments)
          BY DEF GoodEntry
        <4>3. QED
          BY <3>2, <4>1, <4>2, Zenon
      <3>4. d.fragments = [i \in DOMAIN d.fragments |-> Chunk(m, i)]
        BY <1>1, <3>1, <3>2 DEF Put, GoodEntry
      <3>5. QED
        BY <1>1, <1>3, <3>1, <3>2, <3>3, <3>4 DEF GoodEntry
    <2>3. QED
      BY <2>1, <2>2
  <1>7. ASSUME d.received = T
        PROVE  DOMAIN d.fragments = 0 .. T - 1
    <2>1. DOMAIN d.fragments \subseteq 0 .. T - 1
      BY <1>6 DEF GoodEntry
    <2>2. Cardinality(DOMAIN d.fragments) = Cardinality(0 .. T - 1)
      BY <1>2, <1>6, <1>7 DEF GoodEntry
    <2>3. QED
      BY <1>2, <2>1, <2>2, FS_Subset
  <1>8. QED
    BY <1>6, <1>7

------------------------------------------------------------------------------
(***************************************************************************)
(* Induction over the naturals, for sets: a set that has 0 and with each   *)
(* number the next one has them all.                                       *)
(***************************************************************************)
Less == {ss \in Nat \X Nat : ss[1] < ss[2]}

\* The order of the naturals is well founded.
LEMMA LessWellFounded == IsWellFoundedOn(Less, Nat)
  BY NatLessThanWellFounded, Zenon DEF OpToRel, Less

\* A set of naturals that is not empty has a least one.
LEMMA Smallest ==
    ASSUME NEW T, T \subseteq Nat, T # {}
    PROVE  \E x \in T : \A y \in T : x <= y
  <1>1. PICK x \in T : \A y \in T : <<y, x>> \notin Less
    BY LessWellFounded, WFMin
  <1>2. \A y \in T : x <= y
    <2> TAKE y \in T
    <2>1. x \in Nat /\ y \in Nat
      OBVIOUS
    <2>2. ~(y < x)
      BY <1>1, <2>1 DEF Less
    <2>3. QED
      BY <2>1, <2>2
  <1>3. QED
    BY <1>2

\* Hence induction, for sets.
LEMMA Induction ==
    ASSUME NEW S, 0 \in S, \A n \in Nat : n \in S => n + 1 \in S
    PROVE  Nat \subseteq S
  <1> SUFFICES ASSUME Nat \ S # {} PROVE FALSE
    OBVIOUS
  <1>1. PICK x \in Nat \ S : \A y \in Nat \ S : x <= y
    BY Smallest
  <1>2. x # 0 /\ x - 1 \in Nat
    BY <1>1
  <1>3. x - 1 \in S
    BY <1>1, <1>2
  <1>4. (x - 1) + 1 \in S
    BY <1>2, <1>3
  <1>5. QED
    BY <1>2, <1>4

(***************************************************************************)
(* A loop that goes through L items and appends v[n] for those in T has    *)
(* one result after each item.                                             *)
(***************************************************************************)
Filters(g, L, T, v) ==
    g = [n \in 0 .. L |-> IF n = 0 THEN <<>>
                          ELSE IF n \in T THEN Append(g[n - 1], v[n]) ELSE g[n - 1]]

\* There is such a function for every list.
LEMMA FilterExists ==
    ASSUME NEW L \in Nat, NEW T, NEW v
    PROVE  \E g : Filters(g, L, T, v)
  <1> DEFINE S == {n \in Nat : \E g : Filters(g, n, T, v)}
  <1>1. 0 \in S
    <2> DEFINE g == [n \in 0 .. 0 |-> <<>>]
    <2>1. Filters(g, 0, T, v)
      BY DEF Filters
    <2>2. QED
      BY <2>1
  <1>2. ASSUME NEW n \in Nat, n \in S PROVE n + 1 \in S
    <2>1. PICK f : Filters(f, n, T, v)
      BY <1>2
    <2> DEFINE last == IF n + 1 \in T THEN Append(f[n], v[n + 1]) ELSE f[n]
               g == [k \in 0 .. n + 1 |-> IF k = n + 1 THEN last ELSE f[k]]
    <2>2. \A k \in 0 .. n : g[k] = f[k]
      OBVIOUS
    <2>3. \A k \in 0 .. n + 1 :
              g[k] = IF k = 0 THEN <<>>
                     ELSE IF k \in T THEN Append(g[k - 1], v[k]) ELSE g[k - 1]
      <3> SUFFICES ASSUME NEW k \in 0 .. n + 1
                   PROVE  g[k] = IF k = 0 THEN <<>>
                                 ELSE IF k \in T THEN Append(g[k - 1], v[k]) ELSE g[k - 1]
        OBVIOUS
      <3>1. CASE k = n + 1
        <4>1. k # 0 /\ k - 1 = n /\ g[n] = f[n] /\ g[k] = last
          BY <3>1, <2>2
        <4> HIDE DEF g
        <4>2. QED
          BY <3>1, <4>1
      <3>2. CASE k # n + 1
        <4>1. k \in 0 .. n /\ g[k] = f[k] /\ (k # 0 => g[k - 1] = f[k - 1])
          BY <2>2, <3>2
        <4>2. f[k] = IF k = 0 THEN <<>>
                     ELSE IF k \in T THEN Append(f[k - 1], v[k]) ELSE f[k - 1]
          BY <2>1, <4>1 DEF Filters
        <4> HIDE DEF g
        <4>3. QED
          BY <4>1, <4>2
      <3>3. QED
        BY <3>1, <3>2
    <2>4. g = [k \in 0 .. n + 1 |-> g[k]]
      OBVIOUS
    <2> HIDE DEF g
    <2>5. Filters(g, n + 1, T, v)
      BY <2>3, <2>4 DEF Filters
    <2>6. QED
      BY <2>5
  <1> HIDE DEF S
  <1>3. Nat \subseteq S
    BY <1>1, <1>2, Induction
  <1>4. QED
    BY <1>3 DEF S
==============================================================================
