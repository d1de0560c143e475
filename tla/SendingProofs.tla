---------------------------- MODULE SendingProofs ----------------------------
(***************************************************************************)
(* Proofs about Sending, for any topology, hop count, messages, intervals  *)
(* and faults.                                                             *)
(***************************************************************************)
EXTENDS Sending, CellLemmas, SequenceTheorems

(***************************************************************************)
(* Cells.                                                                  *)
(***************************************************************************)
LEMMA TotalNat == ASSUME NEW m \in Messages PROVE TotalCells(m) \in Nat
  <1>1. MessageLen[m] \in Nat /\ Capacity \in Nat \ {0}
    BY MessageAssumption, CapacityAssumption
  <1>2. CASE MessageLen[m] = 0
    BY <1>1, <1>2, SMT DEF TotalCells, DivCeil
  <1>3. CASE MessageLen[m] # 0
    BY <1>1, <1>3, DivCeilCovers DEF TotalCells
  <1>4. QED
    BY <1>2, <1>3

\* The cells of a message are cells.
LEMMA CellIn ==
    ASSUME NEW m \in Messages, NEW i \in 0 .. TotalCells(m) - 1
    PROVE  CellOf(m, i) \in AllCells
  BY DEF AllCells, CellsOf

\* Two cells differ in their message or in where they start in it.
LEMMA CellsDiffer ==
    ASSUME NEW m, NEW n, NEW i \in Nat, NEW j \in Nat, CellOf(m, i) = CellOf(n, j)
    PROVE  m = n /\ i = j
  <1>1. Capacity \in Nat \ {0}
    BY CapacityAssumption
  <1>2. CellOf(m, i).data = Chunk(m, i) /\ CellOf(n, j).data = Chunk(n, j)
    BY DEF CellOf
  <1>3. m = n /\ i * Capacity = j * Capacity
    BY <1>2 DEF Chunk
  <1>4. \A a, b \in Nat : a + 1 <= b => a * Capacity + Capacity <= b * Capacity
    <2> TAKE a, b \in Nat
    <2> HAVE a + 1 <= b
    <2>1. (a + 1) * Capacity <= b * Capacity
      BY <1>1, ProductOrder
    <2>2. (a + 1) * Capacity = a * Capacity + Capacity
      BY <1>1, SMT
    <2>3. QED
      BY <2>1, <2>2
  <1>5. i * Capacity \in Nat /\ j * Capacity \in Nat
    BY <1>1
  <1>6. ~(i + 1 <= j) /\ ~(j + 1 <= i)
    BY <1>1, <1>3, <1>4, <1>5
  <1>7. QED
    BY <1>3, <1>6

------------------------------------------------------------------------------
(***************************************************************************)
(* Paths.  select_diverse_path returns hop_count relays of the topology    *)
(* when there are that many.                                               *)
(***************************************************************************)
LEMMA ChosenFilters ==
    ASSUME NEW order \in Seq(Relays), NEW S
    PROVE  \E f : /\ Chosen(order, S) = f[Len(order)]
                  /\ f[0] = <<>>
                  /\ \A n \in 1 .. Len(order) :
                         f[n] = IF order[n] \in S THEN Append(f[n - 1], order[n]) ELSE f[n - 1]
  <1> DEFINE L == Len(order)
             T == {n \in 1 .. L : order[n] \in S}
             f == CHOOSE g : g = [n \in 0 .. L |->
                      IF n = 0 THEN <<>>
                      ELSE IF order[n] \in S THEN Append(g[n - 1], order[n]) ELSE g[n - 1]]
  <1>1. L \in Nat
    OBVIOUS
  <1>2. Chosen(order, S) = f[L]
    BY DEF Chosen
  <1>3. PICK h : Filters(h, L, T, order)
    BY <1>1, FilterExists
  <1>4. h = [n \in 0 .. L |-> IF n = 0 THEN <<>>
                 ELSE IF order[n] \in S THEN Append(h[n - 1], order[n]) ELSE h[n - 1]]
    <2>1. h = [n \in 0 .. L |-> IF n = 0 THEN <<>>
                   ELSE IF n \in T THEN Append(h[n - 1], order[n]) ELSE h[n - 1]]
      BY <1>3 DEF Filters
    <2>2. \A n \in 0 .. L : n # 0 => (n \in T <=> order[n] \in S)
      BY <1>1
    <2> HIDE DEF T
    <2>3. QED
      BY <2>1, <2>2
  <1>5. f = [n \in 0 .. L |-> IF n = 0 THEN <<>>
                 ELSE IF order[n] \in S THEN Append(f[n - 1], order[n]) ELSE f[n - 1]]
    BY <1>4
  <1> HIDE DEF f
  <1>6. 0 \in 0 .. L /\ \A n \in 1 .. L : n \in 0 .. L /\ n # 0
    BY <1>1
  <1> HIDE DEF L
  <1>7. /\ f[0] = <<>>
        /\ \A n \in 1 .. L :
               f[n] = IF order[n] \in S THEN Append(f[n - 1], order[n]) ELSE f[n - 1]
    BY <1>5, <1>6
  <1>8. QED
    BY <1>2, <1>7 DEF L

\* Two complementary choices from a shuffle have all of its relays between them.
LEMMA ChosenSplits ==
    ASSUME NEW order \in Seq(Relays), NEW S, NEW R,
           \A n \in 1 .. Len(order) : order[n] \in R <=> order[n] \notin S
    PROVE  /\ Chosen(order, S) \in Seq(Relays)
           /\ Chosen(order, R) \in Seq(Relays)
           /\ Len(Chosen(order, S)) + Len(Chosen(order, R)) = Len(order)
  <1>1. PICK f : /\ Chosen(order, S) = f[Len(order)]
                 /\ f[0] = <<>>
                 /\ \A n \in 1 .. Len(order) :
                        f[n] = IF order[n] \in S THEN Append(f[n - 1], order[n]) ELSE f[n - 1]
    BY ChosenFilters
  <1>2. PICK g : /\ Chosen(order, R) = g[Len(order)]
                 /\ g[0] = <<>>
                 /\ \A n \in 1 .. Len(order) :
                        g[n] = IF order[n] \in R THEN Append(g[n - 1], order[n]) ELSE g[n - 1]
    BY ChosenFilters
  <1> DEFINE Good(n) == /\ f[n] \in Seq(Relays) /\ g[n] \in Seq(Relays)
                        /\ Len(f[n]) + Len(g[n]) = n
             N == {n \in Nat : n <= Len(order) => Good(n)}
  <1>3. 0 \in N
    <2>1. <<>> \in Seq(Relays) /\ Len(<<>>) = 0
      OBVIOUS
    <2>2. Good(0)
      BY <1>1, <1>2, <2>1
    <2> HIDE DEF Good
    <2>3. QED
      BY <2>2
  <1>4. ASSUME NEW n \in Nat, n \in N PROVE n + 1 \in N
    <2>1. ASSUME n + 1 <= Len(order) PROVE Good(n + 1)
      <3>1. Len(order) \in Nat
        OBVIOUS
      <3>2. n <= Len(order) /\ n + 1 \in 1 .. Len(order) /\ (n + 1) - 1 = n
        BY <2>1, <3>1
      <3>3. Good(n)
        BY <1>4, <3>2
      <3>4. order[n + 1] \in Relays
        BY <3>2
      <3>5. \/ f[n + 1] = Append(f[n], order[n + 1]) /\ g[n + 1] = g[n]
            \/ f[n + 1] = f[n] /\ g[n + 1] = Append(g[n], order[n + 1])
        BY <1>1, <1>2, <3>2
      <3>6. /\ Append(f[n], order[n + 1]) \in Seq(Relays)
            /\ Len(Append(f[n], order[n + 1])) = Len(f[n]) + 1
            /\ Append(g[n], order[n + 1]) \in Seq(Relays)
            /\ Len(Append(g[n], order[n + 1])) = Len(g[n]) + 1
        BY <3>3, <3>4
      <3>7. Len(f[n]) \in Nat /\ Len(g[n]) \in Nat
        BY <3>3
      <3>8. /\ (Len(f[n]) + 1) + Len(g[n]) = n + 1
            /\ Len(f[n]) + (Len(g[n]) + 1) = n + 1
        <4>1. \A a, b \in Nat : a + b = n => (a + 1) + b = n + 1 /\ a + (b + 1) = n + 1
          OBVIOUS
        <4>2. Len(f[n]) + Len(g[n]) = n
          BY <3>3
        <4> HIDE DEF Good, N
        <4>3. QED
          BY <3>7, <4>1, <4>2
      <3>9. CASE f[n + 1] = Append(f[n], order[n + 1]) /\ g[n + 1] = g[n]
        <4>1. f[n + 1] \in Seq(Relays) /\ g[n + 1] \in Seq(Relays)
          BY <3>3, <3>6, <3>9
        <4>2. Len(f[n + 1]) = Len(f[n]) + 1 /\ Len(g[n + 1]) = Len(g[n])
          BY <3>6, <3>9
        <4>3. Len(f[n + 1]) + Len(g[n + 1]) = n + 1
          BY <3>8, <4>2
        <4>4. QED
          BY <4>1, <4>3
      <3>10. CASE f[n + 1] = f[n] /\ g[n + 1] = Append(g[n], order[n + 1])
        <4>1. f[n + 1] \in Seq(Relays) /\ g[n + 1] \in Seq(Relays)
          BY <3>3, <3>6, <3>10
        <4>2. Len(f[n + 1]) = Len(f[n]) /\ Len(g[n + 1]) = Len(g[n]) + 1
          BY <3>6, <3>10
        <4>3. Len(f[n + 1]) + Len(g[n + 1]) = n + 1
          BY <3>8, <4>2
        <4>4. QED
          BY <4>1, <4>3
      <3>11. QED
        BY <3>5, <3>9, <3>10
    <2> HIDE DEF Good
    <2>2. QED
      BY <2>1
  <1> HIDE DEF N
  <1>5. Nat \subseteq N
    BY <1>3, <1>4, Induction
  <1>6. Good(Len(order))
    <2>1. Len(order) \in N /\ Len(order) <= Len(order)
      BY <1>5
    <2> HIDE DEF Good
    <2>2. QED
      BY <2>1 DEF N
  <1>7. QED
    BY <1>1, <1>2, <1>6

\* A diverse path has the length that was asked for.
LEMMA PathFacts ==
    ASSUME NEW S \in SUBSET Relays, NEW n \in Nat \ {0}, n <= Cardinality(S),
           NEW p \in DiversePaths(S, n)
    PROVE  p \in Seq(Relays) /\ Len(p) = n
  <1>1. IsFiniteSet(S) /\ Cardinality(S) \in Nat
    BY RelaysAssumption, FS_Subset, FS_CardinalityType
  <1>2. PICK order \in Shuffles(S) : p = DiversePath(order, n)
    BY DEF DiversePaths
  <1>3. order \in Seq(Relays) /\ Len(order) = Cardinality(S)
    BY <1>1, <1>2 DEF Shuffles
  <1> DEFINE R == Repeated(order)
             F == Elements(order) \ R
  <1>4. \A k \in 1 .. Len(order) : order[k] \in R <=> order[k] \notin F
    BY DEF Elements
  <1> HIDE DEF R, F
  <1>5. /\ Chosen(order, F) \in Seq(Relays) /\ Chosen(order, R) \in Seq(Relays)
        /\ Len(Chosen(order, F)) + Len(Chosen(order, R)) = Len(order)
    BY <1>3, <1>4, ChosenSplits
  <1> DEFINE s == Chosen(order, F) \o Chosen(order, R)
  <1>6. s \in Seq(Relays) /\ Len(s) = Cardinality(S)
    BY <1>3, <1>5
  <1>7. p = SubSeq(s, 1, n)
    BY <1>2 DEF DiversePath, R, F
  <1> HIDE DEF s
  <1>8. QED
    BY <1>1, <1>6, <1>7

------------------------------------------------------------------------------
(***************************************************************************)
(* Onions.  The layers of a circuit p around body, from hop i inwards.     *)
(***************************************************************************)
Inside(g, p, body, i) ==
    IF i = Len(p) THEN [kind |-> "deliver", body |-> body]
    ELSE [kind |-> "forward", next_hop |-> p[i + 1], body |-> g[i + 1]]

Layers(g, p, body, first) ==
    g = [i \in first .. Len(p) |-> Layer(p[i], Inside(g, p, body, i))]

\* The recursion of build_circuit, from the exit outwards, has a result.
LEMMA LayersExist ==
    ASSUME NEW p \in Seq(Relays), NEW body
    PROVE  \E g : Layers(g, p, body, 1)
  <1> DEFINE L == Len(p)
             S == {k \in Nat : \E g : Layers(g, p, body, L + 1 - k)}
  <1>1. L \in Nat
    OBVIOUS
  <1>2. 0 \in S
    <2> DEFINE g == [i \in L + 1 .. L |-> 0]
    <2>1. L + 1 .. L = {} /\ L + 1 - 0 = L + 1
      BY <1>1
    <2>2. Layers(g, p, body, L + 1 - 0)
      BY <2>1 DEF Layers
    <2>3. QED
      BY <2>2
  <1>3. ASSUME NEW k \in Nat, k \in S PROVE k + 1 \in S
    <2>1. PICK f : Layers(f, p, body, L + 1 - k)
      BY <1>3
    <2> DEFINE a == L + 1 - (k + 1)
               g == [i \in a .. L |-> IF i = a THEN Layer(p[i], Inside(f, p, body, i)) ELSE f[i]]
    <2>2. a \in Int /\ L + 1 - k = a + 1
      BY <1>1
    <2>3. f = [i \in a + 1 .. L |-> Layer(p[i], Inside(f, p, body, i))]
      BY <2>1, <2>2 DEF Layers
    <2> HIDE DEF a, L
    <2>4. \A i \in a + 1 .. L : g[i] = f[i] /\ f[i] = Layer(p[i], Inside(f, p, body, i))
      <3>1. \A i \in a + 1 .. L : i \in a .. L /\ i # a
        BY <1>1, <2>2
      <3>2. \A i \in a + 1 .. L : g[i] = f[i]
        BY <3>1
      <3> HIDE DEF g
      <3>3. \A i \in a + 1 .. L : f[i] = Layer(p[i], Inside(f, p, body, i))
        BY <2>3
      <3>4. QED
        BY <3>2, <3>3
    <2>5. ASSUME NEW i \in a .. L PROVE g[i] = Layer(p[i], Inside(g, p, body, i))
      <3>1. g[i] = Layer(p[i], Inside(f, p, body, i))
        <4>1. CASE i = a
          BY <4>1
        <4>2. CASE i # a
          <5>1. i \in a + 1 .. L
            BY <1>1, <2>2, <4>2
          <5>2. QED
            BY <2>4, <5>1
        <4>3. QED
          BY <4>1, <4>2
      <3>2. Inside(f, p, body, i) = Inside(g, p, body, i)
        <4>1. CASE i = L
          BY <4>1 DEF Inside, L
        <4>2. CASE i # L
          <5>1. i + 1 \in a + 1 .. L
            BY <1>1, <2>2, <4>2
          <5>2. g[i + 1] = f[i + 1]
            BY <2>4, <5>1
          <5> HIDE DEF g
          <5>3. QED
            BY <5>2 DEF Inside
        <4>3. QED
          BY <4>1, <4>2
      <3>3. QED
        BY <3>1, <3>2
    <2>6. g = [i \in a .. L |-> g[i]]
      OBVIOUS
    <2> HIDE DEF g
    <2>7. Layers(g, p, body, a)
      BY <2>5, <2>6 DEF Layers, L
    <2>8. QED
      BY <2>7 DEF a
  <1> HIDE DEF S
  <1>4. Nat \subseteq S
    BY <1>2, <1>3, Induction
  <1>5. L \in S /\ L + 1 - L = 1
    BY <1>1, <1>4
  <1>6. \E g : Layers(g, p, body, L + 1 - L)
    BY <1>5 DEF S
  <1>7. QED
    BY <1>5, <1>6

\* What build_circuit returns is the outermost of these layers.
LEMMA CircuitBuilt ==
    ASSUME NEW p \in Seq(Relays), NEW body
    PROVE  \E g : Layers(g, p, body, 1) /\ BuildCircuit(p, body) = g[1]
  <1> DEFINE f == CHOOSE g : g = [i \in 1 .. Len(p) |->
                      Layer(p[i], IF i = Len(p)
                                  THEN [kind |-> "deliver", body |-> body]
                                  ELSE [kind |-> "forward", next_hop |-> p[i + 1],
                                        body |-> g[i + 1]])]
  <1>1. BuildCircuit(p, body) = f[1]
    BY DEF BuildCircuit
  <1>2. PICK h : Layers(h, p, body, 1)
    BY LayersExist
  <1>3. h = [i \in 1 .. Len(p) |->
                Layer(p[i], IF i = Len(p) THEN [kind |-> "deliver", body |-> body]
                            ELSE [kind |-> "forward", next_hop |-> p[i + 1], body |-> h[i + 1]])]
    BY <1>2 DEF Layers, Inside
  <1>4. f = [i \in 1 .. Len(p) |->
                Layer(p[i], IF i = Len(p) THEN [kind |-> "deliver", body |-> body]
                            ELSE [kind |-> "forward", next_hop |-> p[i + 1], body |-> f[i + 1]])]
    BY <1>3
  <1> HIDE DEF f
  <1>5. Layers(f, p, body, 1)
    BY <1>4 DEF Layers, Inside
  <1>6. QED
    BY <1>1, <1>5

\* What a layer shows to the relay it is for, which opens it.
LEMMA LayerFacts ==
    ASSUME NEW r, NEW x
    PROVE  /\ Layer(r, x).payload = x
           /\ Layer(r, x).key = LayerKey(RelayKey(r, 0), Layer(r, x).ephemeral)
  <1> DEFINE e == <<"layer", r>>
  <1>1. /\ Layer(r, x).payload = x /\ Layer(r, x).ephemeral = e
        /\ Layer(r, x).key = LayerKey(e, RelayKey(r, 0))
    BY DEF Layer
  <1>2. DiffieHellman(e, RelayKey(r, 0)) = DiffieHellman(RelayKey(r, 0), e)
    BY DEF DiffieHellman
  <1>3. LayerKey(e, RelayKey(r, 0)) = LayerKey(RelayKey(r, 0), e)
    BY <1>2 DEF LayerKey
  <1> HIDE DEF e
  <1>4. QED
    BY <1>1, <1>3

------------------------------------------------------------------------------
(***************************************************************************)
(* A frame that v relays have peeled is at the next hop of path p and is   *)
(* the layer of p for that hop.                                            *)
(***************************************************************************)
FrameOk(q, v, p) ==
    /\ Len(v) < Len(p)
    /\ q.at = p[Len(v) + 1]
    /\ \E g : Layers(g, p, q.cell, 1) /\ q.onion = g[Len(v) + 1]

\* The relays v that peeled are the first of p; mailboxes s have the cell
\* only if they are all of p, and then its last one has it.
TrackOk(v, p, s) ==
    /\ Len(v) <= Len(p)
    /\ \A k \in 1 .. Len(v) : v[k] = p[k]
    /\ s # {} => p # <<>> /\ Len(v) = Len(p) /\ s \subseteq {p[Len(p)]}

\* The relay that has a frame peels it, and finds the body at the exit and
\* the next frame before.
LEMMA FrameShows ==
    ASSUME NEW p \in Seq(Relays), NEW v \in Seq(Relays), NEW q, FrameOk(q, v, p)
    PROVE  /\ PeelsWith(q, RelayKey(q.at, 0))
           /\ q.onion.payload.kind = "deliver"
                  => q.onion.payload.body = q.cell /\ Len(v) + 1 = Len(p)
           /\ q.onion.payload.kind = "forward"
                  => \A w : Len(w) = Len(v) + 1 =>
                         FrameOk([cell  |-> q.cell, at |-> q.onion.payload.next_hop,
                                  onion |-> q.onion.payload.body], w, p)
  <1> DEFINE h == Len(v) + 1
  <1>1. h \in 1 .. Len(p) /\ Len(p) \in Nat
    BY DEF FrameOk
  <1>2. PICK g : Layers(g, p, q.cell, 1) /\ q.onion = g[h]
    BY DEF FrameOk
  <1>3. q.at = p[h]
    BY DEF FrameOk
  <1> HIDE DEF h
  <1>4. q.onion = Layer(q.at, Inside(g, p, q.cell, h))
    BY <1>1, <1>2, <1>3 DEF Layers
  <1>5. /\ q.onion.payload = Inside(g, p, q.cell, h)
        /\ q.onion.key = LayerKey(RelayKey(q.at, 0), q.onion.ephemeral)
    BY <1>4, LayerFacts
  <1>6. CASE h = Len(p)
    <2>1. Inside(g, p, q.cell, h) = [kind |-> "deliver", body |-> q.cell]
      BY <1>6 DEF Inside
    <2>2. q.onion.payload.kind = "deliver" /\ q.onion.payload.body = q.cell
      BY <1>5, <2>1
    <2>3. QED
      BY <1>5, <1>6, <2>2 DEF PeelsWith, h
  <1>7. CASE h # Len(p)
    <2>1. Inside(g, p, q.cell, h)
              = [kind |-> "forward", next_hop |-> p[h + 1], body |-> g[h + 1]]
      BY <1>7 DEF Inside
    <2>2. /\ q.onion.payload.kind = "forward"
          /\ q.onion.payload.next_hop = p[h + 1] /\ q.onion.payload.body = g[h + 1]
      BY <1>5, <2>1
    <2>3. ASSUME NEW w, Len(w) = Len(v) + 1
          PROVE  FrameOk([cell  |-> q.cell, at |-> q.onion.payload.next_hop,
                          onion |-> q.onion.payload.body], w, p)
      <3>1. Len(w) = h
        BY <2>3 DEF h
      <3>2. h < Len(p)
        BY <1>1, <1>7
      <3>3. QED
        BY <1>2, <2>2, <3>1, <3>2 DEF FrameOk
    <2>4. QED
      BY <1>5, <2>2, <2>3 DEF PeelsWith
  <1>8. QED
    BY <1>6, <1>7

\* The frame that write_frame has sent.
LEMMA FrameBuilt ==
    ASSUME NEW p \in Seq(Relays), p # <<>>, NEW c
    PROVE  /\ FrameOk([cell |-> c, at |-> p[1], onion |-> BuildCircuit(p, c)], <<>>, p)
           /\ p[1] \in Relays
  <1>1. PICK g : Layers(g, p, c, 1) /\ BuildCircuit(p, c) = g[1]
    BY CircuitBuilt
  <1>2. Len(p) \in Nat /\ 0 < Len(p) /\ p[1] \in Relays
    OBVIOUS
  <1>3. Len(<<>>) = 0 /\ 0 + 1 = 1
    OBVIOUS
  <1>4. QED
    BY <1>1, <1>2, <1>3 DEF FrameOk

------------------------------------------------------------------------------
(***************************************************************************)
(* The inductive invariant.  What is on its way: every frame and every     *)
(* cell is where the path of the cell says, and a cell has one frame.      *)
(***************************************************************************)
NetTypes ==
    /\ \A q \in packets : q.cell \in AllCells /\ q.at \in Relays
    /\ route \in [AllCells -> Seq(Relays)]
    /\ visits \in [AllCells -> Seq(Relays)]
    /\ surfaced \in [AllCells -> SUBSET Relays]

Follow == \A c \in AllCells : TrackOk(visits[c], route[c], surfaced[c])

Frames == \A q \in packets : FrameOk(q, visits[q.cell], route[q.cell])

OneFrame == \A q, f \in packets : q.cell = f.cell => q = f

Net == NetTypes /\ Follow /\ Frames /\ OneFrame

(***************************************************************************)
(* What the client keeps.  The cells it has yet to send have no path, and  *)
(* of those it has sent it has the last relay of the path to report, until *)
(* the call fails.                                                         *)
(***************************************************************************)
ClientTypes ==
    /\ topology \in SUBSET Relays
    /\ hopCount \in Nat
    /\ call \in [Messages -> [pc : {"idle", "loop", "ok", "err"}, next : Nat, sent : Seq(Relays)]]

Sent(m) == 0 .. call[m].next - 1

Left(m) == IF Kind[m] = "dummy" THEN {i \in {0} : call[m].pc = "idle"}
                                ELSE call[m].next .. TotalCells(m) - 1

Unsent == \A m \in Messages : \A i \in Left(m) : route[CellOf(m, i)] = <<>>

Reports ==
    \A m \in Messages :
        /\ call[m].next <= TotalCells(m)
        /\ Kind[m] # "dummy" /\ call[m].pc # "err" => Len(call[m].sent) = call[m].next
        /\ Kind[m] = "dummy" => call[m].next = 0 /\ call[m].pc # "loop"
        /\ \A i \in Sent(m) :
               /\ route[CellOf(m, i)] # <<>>
               /\ call[m].pc # "err" => call[m].sent[i + 1] = Reported(route[CellOf(m, i)])

Client == ClientTypes /\ Unsent /\ Reports

\* The cover traffic task sleeps as next_dummy told it.
Drawn == cover = Silent \/ \E i \in Intervals : cover \in Sleeping(i)

\* A relay turns frames away only when it has lost its identity.
Identities ==
    /\ identity \in [Relays -> Nat]
    /\ \A r \in Persistent : identity[r] = 0
    /\ PersistentRelaysPeel

IInv == Net /\ Client /\ Drawn /\ Identities /\ faults \in 0 .. MaxFaults

\* The invariant holds at the start.
LEMMA InitIInv == Init => IInv
  <1> SUFFICES ASSUME Init PROVE IInv
    OBVIOUS
  <1> USE DEF Init
  <1>1. <<>> \in Seq(Relays) /\ Len(<<>>) = 0
    OBVIOUS
  <1>2. NetTypes /\ Frames /\ OneFrame
    BY <1>1 DEF NetTypes, Frames, OneFrame
  <1>3. Follow
    <2> SUFFICES ASSUME NEW c \in AllCells PROVE TrackOk(visits[c], route[c], surfaced[c])
      BY DEF Follow
    <2>1. visits[c] = <<>> /\ route[c] = <<>> /\ surfaced[c] = {}
      OBVIOUS
    <2>2. QED
      BY <1>1, <2>1 DEF TrackOk
  <1>4. ClientTypes
    BY <1>1, SendingAssumption DEF ClientTypes
  <1>5. Unsent
    <2> SUFFICES ASSUME NEW m \in Messages, NEW i \in Left(m) PROVE route[CellOf(m, i)] = <<>>
      BY DEF Unsent
    <2>1. TotalCells(m) \in Nat /\ (Kind[m] = "dummy" => TotalCells(m) = 1)
      BY TotalNat, SendingAssumption
    <2>2. i \in 0 .. TotalCells(m) - 1
      BY <2>1 DEF Left
    <2>3. CellOf(m, i) \in AllCells
      BY <2>2, CellIn
    <2>4. QED
      BY <2>3
  <1>6. Reports
    <2> SUFFICES ASSUME NEW m \in Messages
                 PROVE  /\ call[m].next <= TotalCells(m) /\ Len(call[m].sent) = call[m].next
                        /\ call[m].next = 0 /\ call[m].pc # "loop" /\ Sent(m) = {}
      BY DEF Reports
    <2>1. call[m].next = 0 /\ call[m].sent = <<>> /\ call[m].pc = "idle"
      OBVIOUS
    <2>2. QED
      BY <1>1, <2>1, TotalNat DEF Sent
  <1>7. Drawn
    BY DEF Drawn
  <1>8. Identities
    BY SendingAssumption DEF Identities, PersistentRelaysPeel
  <1>9. faults \in 0 .. MaxFaults
    BY SendingAssumption
  <1>10. QED
    BY <1>2, <1>3, <1>4, <1>5, <1>6, <1>7, <1>8, <1>9 DEF IInv, Net, Client

------------------------------------------------------------------------------
(***************************************************************************)
(* Steps that leave Net true: frames disappear, ...                        *)
(***************************************************************************)
LEMMA NetShrinks ==
    ASSUME Net, packets' \subseteq packets, UNCHANGED <<route, visits, surfaced>>
    PROVE  Net'
  BY DEF Net, NetTypes, Follow, Frames, OneFrame

(***************************************************************************)
(* ... a cell without a path is given one and its frame is written, ...    *)
(***************************************************************************)
LEMMA NetLaunches ==
    ASSUME Net, NEW c \in AllCells, route[c] = <<>>,
           NEW p \in Seq(Relays), p # <<>>,
           packets' = Written(c, p), route' = [route EXCEPT ![c] = p],
           UNCHANGED <<visits, surfaced>>
    PROVE  Net'
  <1> DEFINE new == [cell |-> c, at |-> p[1], onion |-> BuildCircuit(p, c)]
  <1>1. packets' = packets \cup {new}
    BY DEF Written
  <1>2. FrameOk(new, <<>>, p) /\ new.cell = c /\ new.at \in Relays
    BY FrameBuilt
  <1> HIDE DEF new
  <1>3. Len(<<>>) = 0
    OBVIOUS
  <1>4. TrackOk(visits[c], <<>>, surfaced[c]) /\ visits[c] \in Seq(Relays)
    BY DEF Net, NetTypes, Follow
  <1>5. visits[c] = <<>> /\ surfaced[c] = {}
    <2>1. Len(visits[c]) <= 0 /\ surfaced[c] = {}
      BY <1>3, <1>4 DEF TrackOk
    <2>2. QED
      BY <1>4, <2>1
  <1>6. \A q \in packets : q.cell # c
    <2> SUFFICES ASSUME NEW q \in packets, q.cell = c PROVE FALSE
      OBVIOUS
    <2>1. FrameOk(q, visits[c], route[c])
      BY DEF Net, Frames
    <2>2. QED
      BY <1>3, <1>5, <2>1 DEF FrameOk
  <1>7. route' \in [AllCells -> Seq(Relays)] /\ route'[c] = p
        /\ \A d \in AllCells : d # c => route'[d] = route[d]
    BY DEF Net, NetTypes
  <1>8. NetTypes'
    BY <1>1, <1>2, <1>7 DEF Net, NetTypes
  <1>9. Follow'
    <2> SUFFICES ASSUME NEW d \in AllCells PROVE TrackOk(visits[d], route'[d], surfaced[d])
      BY DEF Follow
    <2>1. TrackOk(visits[d], route[d], surfaced[d])
      BY DEF Net, Follow
    <2>2. CASE d # c
      BY <1>7, <2>1, <2>2
    <2>3. CASE d = c
      <3>1. Len(p) \in Nat
        OBVIOUS
      <3>2. TrackOk(<<>>, p, {})
        BY <1>3, <3>1 DEF TrackOk
      <3>3. QED
        BY <1>5, <1>7, <2>3, <3>2
    <2>4. QED
      BY <2>2, <2>3
  <1>10. Frames'
    <2> SUFFICES ASSUME NEW q \in packets' PROVE FrameOk(q, visits[q.cell], route'[q.cell])
      BY DEF Frames
    <2>1. CASE q = new
      BY <1>2, <1>5, <1>7, <2>1
    <2>2. CASE q \in packets
      <3>1. FrameOk(q, visits[q.cell], route[q.cell]) /\ q.cell # c /\ q.cell \in AllCells
        BY <1>6, <2>2 DEF Net, Frames, NetTypes
      <3>2. QED
        BY <1>7, <3>1
    <2>3. QED
      BY <1>1, <2>1, <2>2
  <1>11. OneFrame'
    BY <1>1, <1>2, <1>6 DEF Net, OneFrame
  <1>12. QED
    BY <1>8, <1>9, <1>10, <1>11 DEF Net

(***************************************************************************)
(* ... a relay peels the layer meant for it.                               *)
(***************************************************************************)
LEMMA PeelFacts ==
    ASSUME Net, NEW q \in packets
    PROVE  /\ q.cell \in AllCells /\ q.at \in Relays
           /\ route[q.cell] \in Seq(Relays) /\ visits[q.cell] \in Seq(Relays)
           /\ FrameOk(q, visits[q.cell], route[q.cell])
           /\ TrackOk(visits[q.cell], route[q.cell], surfaced[q.cell])
           /\ surfaced[q.cell] = {}
           /\ TrackOk(Append(visits[q.cell], q.at), route[q.cell], {})
           /\ Append(visits[q.cell], q.at) \in Seq(Relays)
           /\ Len(Append(visits[q.cell], q.at)) = Len(visits[q.cell]) + 1
  <1> DEFINE v == visits[q.cell]
             p == route[q.cell]
             w == Append(v, q.at)
  <1>1. /\ q.cell \in AllCells /\ q.at \in Relays /\ p \in Seq(Relays) /\ v \in Seq(Relays)
        /\ FrameOk(q, v, p) /\ TrackOk(v, p, surfaced[q.cell])
    BY DEF Net, NetTypes, Follow, Frames
  <1> HIDE DEF v, p
  <1>2. Len(v) \in Nat /\ Len(p) \in Nat /\ Len(v) < Len(p) /\ q.at = p[Len(v) + 1]
    BY <1>1 DEF FrameOk
  <1>3. surfaced[q.cell] = {}
    BY <1>1, <1>2 DEF TrackOk
  <1>4. /\ w \in Seq(Relays) /\ Len(w) = Len(v) + 1 /\ w[Len(v) + 1] = q.at
        /\ \A k \in 1 .. Len(v) : w[k] = v[k]
    BY <1>1
  <1> HIDE DEF w
  <1>5. TrackOk(w, p, {})
    <2>1. Len(w) <= Len(p)
      BY <1>2, <1>4
    <2>2. ASSUME NEW k \in 1 .. Len(w) PROVE w[k] = p[k]
      <3>1. CASE k = Len(v) + 1
        BY <1>2, <1>4, <3>1
      <3>2. CASE k # Len(v) + 1
        <4>1. k \in 1 .. Len(v)
          BY <1>2, <1>4, <3>2
        <4>2. v[k] = p[k]
          BY <1>1, <4>1 DEF TrackOk
        <4>3. QED
          BY <1>4, <4>1, <4>2
      <3>3. QED
        BY <3>1, <3>2
    <2>3. QED
      BY <2>1, <2>2 DEF TrackOk
  <1>6. QED
    BY <1>1, <1>3, <1>4, <1>5 DEF v, p, w

\* The frame moves on to the next relay of the path.
LEMMA NetForwards ==
    ASSUME Net, NEW q \in packets, PeelForward(q)
    PROVE  Net'
  <1> DEFINE c == q.cell
             w == Append(visits[c], q.at)
             new == [cell |-> c, at |-> q.onion.payload.next_hop, onion |-> q.onion.payload.body]
  <1>1. /\ c \in AllCells /\ route[c] \in Seq(Relays) /\ visits[c] \in Seq(Relays)
        /\ FrameOk(q, visits[c], route[c])
        /\ surfaced[c] = {} /\ TrackOk(w, route[c], {}) /\ w \in Seq(Relays)
        /\ Len(w) = Len(visits[c]) + 1
    BY PeelFacts
  <1>2. /\ packets' = (packets \ {q}) \cup {new} /\ visits' = [visits EXCEPT ![c] = w]
        /\ UNCHANGED <<surfaced, route>> /\ q.onion.payload.kind = "forward"
    BY DEF PeelForward
  <1>3. FrameOk(new, w, route[c]) /\ new.cell = c
    BY <1>1, <1>2, FrameShows
  <1> HIDE DEF new, w
  <1>4. new.at \in Relays
    <2>1. new.at = route[c][Len(w) + 1] /\ Len(w) < Len(route[c])
      BY <1>3 DEF FrameOk
    <2>2. Len(w) + 1 \in 1 .. Len(route[c])
      BY <1>1, <2>1
    <2>3. QED
      BY <1>1, <2>1, <2>2
  <1>5. /\ visits' \in [AllCells -> Seq(Relays)] /\ visits'[c] = w
        /\ \A d \in AllCells : d # c => visits'[d] = visits[d]
    BY <1>1, <1>2 DEF Net, NetTypes
  <1>6. \A f \in packets \ {q} : f.cell # c /\ f.cell \in AllCells
    BY DEF Net, NetTypes, OneFrame
  <1> HIDE DEF c
  <1>7. NetTypes'
    BY <1>1, <1>2, <1>3, <1>4, <1>5 DEF Net, NetTypes
  <1>8. Follow'
    <2> SUFFICES ASSUME NEW d \in AllCells PROVE TrackOk(visits'[d], route[d], surfaced[d])
      BY <1>2 DEF Follow
    <2>1. TrackOk(visits[d], route[d], surfaced[d])
      BY DEF Net, Follow
    <2>2. CASE d = c
      BY <1>1, <1>5, <2>2
    <2>3. CASE d # c
      BY <1>5, <2>1, <2>3
    <2>4. QED
      BY <2>2, <2>3
  <1>9. Frames'
    <2> SUFFICES ASSUME NEW f \in packets' PROVE FrameOk(f, visits'[f.cell], route[f.cell])
      BY <1>2 DEF Frames
    <2>1. CASE f = new
      BY <1>3, <1>5, <2>1
    <2>2. CASE f \in packets \ {q}
      <3>1. FrameOk(f, visits[f.cell], route[f.cell])
        BY <2>2 DEF Net, Frames
      <3>2. QED
        BY <1>5, <1>6, <2>2, <3>1
    <2>3. QED
      BY <1>2, <2>1, <2>2
  <1>10. OneFrame'
    BY <1>2, <1>3, <1>6 DEF Net, OneFrame
  <1>11. QED
    BY <1>7, <1>8, <1>9, <1>10 DEF Net

\* At the exit the cell surfaces.
LEMMA NetDelivers ==
    ASSUME Net, NEW q \in packets, PeelDeliver(q)
    PROVE  Net'
  <1> DEFINE c == q.cell
             w == Append(visits[c], q.at)
  <1>1. /\ c \in AllCells /\ q.at \in Relays
        /\ route[c] \in Seq(Relays) /\ visits[c] \in Seq(Relays)
        /\ FrameOk(q, visits[c], route[c])
        /\ surfaced[c] = {} /\ TrackOk(w, route[c], {}) /\ w \in Seq(Relays)
        /\ Len(w) = Len(visits[c]) + 1
    BY PeelFacts
  <1>2. q.onion.payload.kind = "deliver"
    BY DEF PeelDeliver
  <1>3. q.onion.payload.body = c /\ Len(visits[c]) + 1 = Len(route[c])
    BY <1>1, <1>2, FrameShows
  <1>4. /\ packets' = packets \ {q} /\ visits' = [visits EXCEPT ![c] = w]
        /\ surfaced' = [surfaced EXCEPT ![c] = surfaced[c] \cup {q.at}] /\ route' = route
    BY <1>3 DEF PeelDeliver
  <1> HIDE DEF w
  <1>5. /\ visits' \in [AllCells -> Seq(Relays)] /\ visits'[c] = w
        /\ surfaced' \in [AllCells -> SUBSET Relays] /\ surfaced'[c] = {q.at}
        /\ \A d \in AllCells : d # c => visits'[d] = visits[d] /\ surfaced'[d] = surfaced[d]
    BY <1>1, <1>4 DEF Net, NetTypes
  <1>6. \A f \in packets \ {q} : f.cell # c /\ f.cell \in AllCells
    BY DEF Net, NetTypes, OneFrame
  <1>7. q.at = route[c][Len(route[c])]
    BY <1>1, <1>3 DEF FrameOk
  <1> HIDE DEF c
  <1>8. NetTypes'
    BY <1>4, <1>5 DEF Net, NetTypes
  <1>9. Follow'
    <2> SUFFICES ASSUME NEW d \in AllCells PROVE TrackOk(visits'[d], route[d], surfaced'[d])
      BY <1>4 DEF Follow
    <2>1. TrackOk(visits[d], route[d], surfaced[d])
      BY DEF Net, Follow
    <2>2. CASE d = c
      <3>1. route[c] # <<>> /\ Len(w) = Len(route[c])
        BY <1>1, <1>3
      <3>2. TrackOk(w, route[c], {q.at})
        BY <1>1, <1>7, <3>1 DEF TrackOk
      <3>3. QED
        BY <1>5, <2>2, <3>2
    <2>3. CASE d # c
      BY <1>5, <2>1, <2>3
    <2>4. QED
      BY <2>2, <2>3
  <1>10. Frames'
    <2> SUFFICES ASSUME NEW f \in packets \ {q} PROVE FrameOk(f, visits'[f.cell], route[f.cell])
      BY <1>4 DEF Frames
    <2>1. FrameOk(f, visits[f.cell], route[f.cell])
      BY DEF Net, Frames
    <2>2. QED
      BY <1>5, <1>6, <2>1
  <1>11. OneFrame'
    BY <1>4 DEF Net, OneFrame
  <1>12. QED
    BY <1>8, <1>9, <1>10, <1>11 DEF Net

------------------------------------------------------------------------------
(***************************************************************************)
(* Steps of the client.                                                    *)
(***************************************************************************)
LEMMA PathPicked ==
    ASSUME ClientTypes, PathExists, NEW p \in DiversePaths(topology, hopCount)
    PROVE  p \in Seq(Relays) /\ p # <<>>
  <1>1. hopCount \in Nat \ {0} /\ hopCount <= Cardinality(topology) /\ topology \in SUBSET Relays
    BY DEF ClientTypes, PathExists
  <1>2. p \in Seq(Relays) /\ Len(p) = hopCount
    BY <1>1, PathFacts
  <1>3. QED
    BY <1>1, <1>2

\* The fields of a call.
LEMMA CallTypes ==
    ASSUME ClientTypes, NEW m \in Messages
    PROVE  /\ call[m].pc \in {"idle", "loop", "ok", "err"}
           /\ call[m].next \in Nat /\ call[m].sent \in Seq(Relays)
  BY DEF ClientTypes

\* The cell that the loop of send comes to next has no path.
LEMMA NextIsFresh ==
    ASSUME Client, NEW m \in Messages, More(m)
    PROVE  /\ Kind[m] # "dummy" /\ call[m].next \in 0 .. TotalCells(m) - 1
           /\ NextCell(m) \in AllCells /\ route[NextCell(m)] = <<>>
  <1>1. call[m].pc = "loop" /\ call[m].next < TotalCells(m) /\ call[m].next \in Nat
    BY CallTypes DEF Client, More
  <1>2. Kind[m] # "dummy"
    BY <1>1 DEF Client, Reports
  <1>3. call[m].next \in 0 .. TotalCells(m) - 1 /\ call[m].next \in Left(m)
    BY <1>1, <1>2, TotalNat DEF Left
  <1>4. QED
    BY <1>2, <1>3, CellIn DEF Client, Unsent, NextCell

\* Nor has a dummy before it is sent.
LEMMA DummyIsFresh ==
    ASSUME Client, NEW m \in Messages, Kind[m] = "dummy", call[m].pc = "idle"
    PROVE  CellOf(m, 0) \in AllCells /\ route[CellOf(m, 0)] = <<>>
  <1>1. TotalCells(m) = 1
    BY SendingAssumption
  <1>2. 0 \in 0 .. TotalCells(m) - 1 /\ 0 \in Left(m)
    BY <1>1 DEF Left
  <1>3. QED
    BY <1>2, CellIn DEF Client, Unsent

\* What the client has left to send, and has sent, are cells of the message.
LEMMA IndexIsNat ==
    ASSUME Client, NEW m \in Messages
    PROVE  Left(m) \subseteq Nat /\ Sent(m) \subseteq Nat
  BY CallTypes, TotalNat DEF Client, Left, Sent

\* Steps in which the client has no part.
LEMMA ClientRests ==
    ASSUME Client, UNCHANGED <<topology, hopCount, call, route>>
    PROVE  Client'
  BY DEF Client, ClientTypes, Unsent, Reports, Left, Sent

\* A call of send moves on without sending, or fails and drops what it has to
\* report.
LEMMA ClientTurns ==
    ASSUME Client, NEW m \in Messages, Kind[m] # "dummy", call[m].pc # "err",
           NEW x \in [pc : {"idle", "loop", "ok", "err"}, next : Nat, sent : Seq(Relays)],
           call' = [call EXCEPT ![m] = x],
           x.next = call[m].next, x.pc = "err" \/ x.sent = call[m].sent,
           UNCHANGED <<topology, hopCount, route>>
    PROVE  Client'
  <1>1. ClientTypes'
    BY DEF Client, ClientTypes
  <1>2. \A k \in Messages : /\ call'[k].next = call[k].next
                            /\ call'[k] = call[k] \/ /\ k = m /\ call[k].pc # "err"
                                                     /\ \/ call'[k].pc = "err"
                                                        \/ call'[k].sent = call[k].sent
                            /\ Kind[k] = "dummy" => call'[k] = call[k]
    BY DEF Client, ClientTypes
  <1>3. \A k \in Messages : Left(k)' = Left(k) /\ Sent(k)' = Sent(k)
    <2> SUFFICES ASSUME NEW k \in Messages PROVE Left(k)' = Left(k) /\ Sent(k)' = Sent(k)
      OBVIOUS
    <2>1. call'[k].next = call[k].next /\ (Kind[k] = "dummy" => call'[k] = call[k])
      BY <1>2
    <2>2. QED
      BY <2>1 DEF Left, Sent
  <1>4. Unsent'
    BY <1>3 DEF Client, Unsent
  <1>5. Reports'
    <2> SUFFICES ASSUME NEW k \in Messages
                 PROVE  /\ call'[k].next <= TotalCells(k)
                        /\ Kind[k] # "dummy" /\ call'[k].pc # "err"
                               => Len(call'[k].sent) = call'[k].next
                        /\ Kind[k] = "dummy" => call'[k].next = 0 /\ call'[k].pc # "loop"
                        /\ \A i \in Sent(k)' :
                               /\ route[CellOf(k, i)] # <<>>
                               /\ call'[k].pc # "err" =>
                                      call'[k].sent[i + 1] = Reported(route[CellOf(k, i)])
      BY DEF Reports
    <2>1. QED
      BY <1>2, <1>3 DEF Client, Reports
  <1>6. QED
    BY <1>1, <1>4, <1>5 DEF Client

\* A call of send sends a cell and reports its exit.
LEMMA ClientSends ==
    ASSUME Client, NEW m \in Messages, More(m), NEW p \in Seq(Relays), p # <<>>,
           route \in [AllCells -> Seq(Relays)],
           route' = [route EXCEPT ![NextCell(m)] = p],
           call' = [call EXCEPT ![m].next = @ + 1, ![m].sent = Append(@, Reported(p))],
           UNCHANGED <<topology, hopCount>>
    PROVE  Client'
  <1> DEFINE n == call[m].next
             c == CellOf(m, n)
             s == call[m].sent
  <1>1. /\ Kind[m] # "dummy" /\ n \in 0 .. TotalCells(m) - 1 /\ c \in AllCells
        /\ TotalCells(m) \in Nat
    BY NextIsFresh, TotalNat DEF NextCell
  <1>2. s \in Seq(Relays) /\ n \in Nat /\ Len(s) = n
    BY <1>1, CallTypes DEF Client, Reports, More
  <1>3. Reported(p) \in Relays
    <2>1. Len(p) \in 1 .. Len(p)
      OBVIOUS
    <2>2. QED
      BY <2>1 DEF Reported
  <1>4. /\ Append(s, Reported(p)) \in Seq(Relays) /\ Len(Append(s, Reported(p))) = n + 1
        /\ Append(s, Reported(p))[n + 1] = Reported(p)
        /\ \A i \in 1 .. n : Append(s, Reported(p))[i] = s[i]
    BY <1>2, <1>3
  <1>5. ClientTypes'
    BY <1>2, <1>4 DEF Client, ClientTypes
  <1>6. /\ call'[m].next = n + 1 /\ call'[m].sent = Append(s, Reported(p))
        /\ \A k \in Messages \ {m} : call'[k] = call[k]
    BY DEF Client, ClientTypes
  <1>7. /\ route'[c] = p /\ \A d \in AllCells : d # c => route'[d] = route[d]
        /\ \A k : \A i \in Nat : k # m \/ i # n => CellOf(k, i) # c
    BY <1>1, <1>2, CellsDiffer DEF NextCell
  <1> HIDE DEF n, c, s
  <1>8. \A k : \A i \in Nat : k # m \/ i # n => route'[CellOf(k, i)] = route[CellOf(k, i)]
    <2> SUFFICES ASSUME NEW k, NEW i \in Nat, k # m \/ i # n
                 PROVE  route'[CellOf(k, i)] = route[CellOf(k, i)]
      OBVIOUS
    <2>1. CellOf(k, i) # c
      BY <1>7
    <2>2. CASE CellOf(k, i) \in AllCells
      BY <1>7, <2>1, <2>2
    <2>3. CASE CellOf(k, i) \notin AllCells
      BY <2>1, <2>3 DEF NextCell, n, c
    <2>4. QED
      BY <2>2, <2>3
  <1>9. \A k \in Messages \ {m} : Left(k)' = Left(k) /\ Sent(k)' = Sent(k)
    <2> SUFFICES ASSUME NEW k \in Messages \ {m} PROVE Left(k)' = Left(k) /\ Sent(k)' = Sent(k)
      OBVIOUS
    <2>1. call'[k] = call[k]
      BY <1>6
    <2>2. QED
      BY <2>1 DEF Left, Sent
  <1>10. Left(m)' = n + 1 .. TotalCells(m) - 1 /\ Sent(m)' = 0 .. n
    <2>1. (n + 1) - 1 = n
      BY <1>2
    <2>2. QED
      BY <1>1, <1>6, <2>1 DEF Left, Sent
  <1>11. Left(m) = n .. TotalCells(m) - 1 /\ Sent(m) = 0 .. n - 1
    BY <1>1 DEF Left, Sent, n
  <1>12. Unsent'
    <2> SUFFICES ASSUME NEW k \in Messages, NEW i \in Left(k)'
                 PROVE  route'[CellOf(k, i)] = <<>>
      BY DEF Unsent
    <2>1. CASE k # m
      <3>1. i \in Left(k) /\ i \in Nat
        BY <1>9, <2>1, IndexIsNat
      <3>2. route[CellOf(k, i)] = <<>>
        BY <3>1 DEF Client, Unsent
      <3>3. QED
        BY <1>8, <2>1, <3>1, <3>2
    <2>2. CASE k = m
      <3>1. i \in Left(m) /\ i \in Nat /\ i # n
        BY <1>1, <1>2, <1>10, <1>11, <2>2
      <3>2. route[CellOf(m, i)] = <<>>
        BY <3>1 DEF Client, Unsent
      <3>3. QED
        BY <1>8, <2>2, <3>1, <3>2
    <2>3. QED
      BY <2>1, <2>2
  <1>13. Reports'
    <2> SUFFICES ASSUME NEW k \in Messages
                 PROVE  /\ call'[k].next <= TotalCells(k)
                        /\ Kind[k] # "dummy" /\ call'[k].pc # "err"
                               => Len(call'[k].sent) = call'[k].next
                        /\ Kind[k] = "dummy" => call'[k].next = 0 /\ call'[k].pc # "loop"
                        /\ \A i \in Sent(k)' :
                               /\ route'[CellOf(k, i)] # <<>>
                               /\ call'[k].pc # "err" =>
                                      call'[k].sent[i + 1] = Reported(route'[CellOf(k, i)])
      BY DEF Reports
    <2>1. /\ call[k].next <= TotalCells(k)
          /\ Kind[k] # "dummy" /\ call[k].pc # "err" => Len(call[k].sent) = call[k].next
          /\ Kind[k] = "dummy" => call[k].next = 0 /\ call[k].pc # "loop"
          /\ \A i \in Sent(k) :
                 /\ route[CellOf(k, i)] # <<>>
                 /\ call[k].pc # "err" => call[k].sent[i + 1] = Reported(route[CellOf(k, i)])
      BY DEF Client, Reports
    <2>2. CASE k # m
      <3>1. call'[k] = call[k] /\ Sent(k)' = Sent(k)
        BY <1>6, <1>9, <2>2
      <3>2. \A i \in Sent(k) : route'[CellOf(k, i)] = route[CellOf(k, i)]
        BY <1>8, <2>2, IndexIsNat
      <3>3. QED
        BY <2>1, <3>1, <3>2
    <2>3. CASE k = m
      <3>1. call'[m].next <= TotalCells(m) /\ Len(call'[m].sent) = call'[m].next
        BY <1>1, <1>2, <1>4, <1>6
      <3>2. ASSUME NEW i \in Sent(m)'
            PROVE  /\ route'[CellOf(m, i)] # <<>>
                   /\ call'[m].sent[i + 1] = Reported(route'[CellOf(m, i)])
        <4>1. i \in 0 .. n
          BY <1>10, <3>2
        <4>2. CASE i = n
          BY <1>4, <1>6, <1>7, <4>2 DEF c
        <4>3. CASE i # n
          <5>1. i \in Sent(m) /\ i \in Nat /\ i + 1 \in 1 .. n
            BY <1>2, <1>11, <4>1, <4>3
          <5>2. route'[CellOf(m, i)] = route[CellOf(m, i)]
            BY <1>8, <4>3, <5>1
          <5>3. call'[m].sent[i + 1] = call[m].sent[i + 1]
            BY <1>4, <1>6, <5>1 DEF s
          <5>4. QED
            BY <2>1, <2>3, <5>1, <5>2, <5>3 DEF More
        <4>4. QED
          BY <4>2, <4>3
      <3>3. QED
        BY <1>1, <2>3, <3>1, <3>2
    <2>4. QED
      BY <2>2, <2>3
  <1>14. QED
    BY <1>5, <1>12, <1>13 DEF Client

\* Cover traffic sends a dummy.
LEMMA ClientSendsDummy ==
    ASSUME Client, NEW m \in Messages, Kind[m] = "dummy", call[m].pc = "idle", NEW p,
           route \in [AllCells -> Seq(Relays)],
           route' = [route EXCEPT ![CellOf(m, 0)] = p],
           call' = [call EXCEPT ![m].pc = "ok"],
           UNCHANGED <<topology, hopCount>>
    PROVE  Client'
  <1>1. ClientTypes'
    BY DEF Client, ClientTypes
  <1>2. /\ call'[m].next = call[m].next /\ call'[m].pc = "ok"
        /\ \A k \in Messages \ {m} : call'[k] = call[k]
    BY DEF Client, ClientTypes
  <1>3. Left(m)' = {} /\ Sent(m)' = {}
    BY <1>2 DEF Left, Sent, Client, Reports
  <1>4. \A k \in Messages \ {m} : Left(k)' = Left(k) /\ Sent(k)' = Sent(k)
    <2> SUFFICES ASSUME NEW k \in Messages \ {m} PROVE Left(k)' = Left(k) /\ Sent(k)' = Sent(k)
      OBVIOUS
    <2>1. call'[k] = call[k]
      BY <1>2
    <2>2. QED
      BY <2>1 DEF Left, Sent
  <1>5. \A k \in Messages \ {m} : \A i \in Nat :
            route'[CellOf(k, i)] = route[CellOf(k, i)]
    <2> SUFFICES ASSUME NEW k \in Messages \ {m}, NEW i \in Nat
                 PROVE  route'[CellOf(k, i)] = route[CellOf(k, i)]
      OBVIOUS
    <2>1. CellOf(k, i) # CellOf(m, 0)
      BY CellsDiffer
    <2>2. QED
      BY <2>1
  <1>6. Unsent'
    <2> SUFFICES ASSUME NEW k \in Messages, NEW i \in Left(k)'
                 PROVE  route'[CellOf(k, i)] = <<>>
      BY DEF Unsent
    <2>1. k # m /\ i \in Left(k) /\ i \in Nat
      BY <1>3, <1>4, IndexIsNat
    <2>2. route[CellOf(k, i)] = <<>>
      BY <2>1 DEF Client, Unsent
    <2>3. QED
      BY <1>5, <2>1, <2>2
  <1>7. Reports'
    <2> SUFFICES ASSUME NEW k \in Messages
                 PROVE  /\ call'[k].next <= TotalCells(k)
                        /\ Kind[k] # "dummy" /\ call'[k].pc # "err"
                               => Len(call'[k].sent) = call'[k].next
                        /\ Kind[k] = "dummy" => call'[k].next = 0 /\ call'[k].pc # "loop"
                        /\ \A i \in Sent(k)' :
                               /\ route'[CellOf(k, i)] # <<>>
                               /\ call'[k].pc # "err" =>
                                      call'[k].sent[i + 1] = Reported(route'[CellOf(k, i)])
      BY DEF Reports
    <2>1. /\ call[k].next <= TotalCells(k)
          /\ Kind[k] # "dummy" /\ call[k].pc # "err" => Len(call[k].sent) = call[k].next
          /\ Kind[k] = "dummy" => call[k].next = 0 /\ call[k].pc # "loop"
          /\ \A i \in Sent(k) :
                 /\ route[CellOf(k, i)] # <<>>
                 /\ call[k].pc # "err" => call[k].sent[i + 1] = Reported(route[CellOf(k, i)])
      BY DEF Client, Reports
    <2>2. CASE k # m
      <3>1. call'[k] = call[k] /\ Sent(k)' = Sent(k)
        BY <1>2, <1>4, <2>2
      <3>2. \A i \in Sent(k) : route'[CellOf(k, i)] = route[CellOf(k, i)]
        BY <1>5, <2>2, IndexIsNat
      <3>3. QED
        BY <2>1, <3>1, <3>2
    <2>3. CASE k = m
      BY <1>2, <1>3, <2>1, <2>3
    <2>4. QED
      BY <2>2, <2>3
  <1>8. QED
    BY <1>1, <1>6, <1>7 DEF Client

------------------------------------------------------------------------------
(***************************************************************************)
(* Cover traffic, and the steps of the whole system.                       *)
(***************************************************************************)
LEMMA SleepsInInterval ==
    ASSUME NEW i \in Nat \X Nat, NEW x \in Sleeping(i)
    PROVE  /\ x.on = TRUE /\ x.interval = i /\ x.delay \in Nat
           /\ i[1] <= x.delay
           /\ i[1] < i[2] => x.delay < i[2]
  <1>1. i[1] \in Nat /\ i[2] \in Nat
    OBVIOUS
  <1>2. PICK j \in Jitter(i[1], i[2]) : x = [on |-> TRUE, interval |-> i, delay |-> i[1] + 2 * j]
    BY DEF Sleeping
  <1>3. x.on = TRUE /\ x.interval = i /\ x.delay = i[1] + 2 * j
    BY <1>2
  <1> DEFINE min == i[1]
             max == i[2]
  <1>4. j \in Jitter(min, max) /\ min \in Nat /\ max \in Nat
    BY <1>1
  <1> HIDE DEF min, max
  <1>5. j \in Nat /\ (min < max => min + 2 * j < max)
    <2> DEFINE span == IF max > min THEN (max - min) \div 2 ELSE 0
    <2>1. span \in Nat /\ (max > min => 2 * span <= max - min)
      BY <1>4, SMT
    <2>2. j \in 0 .. (IF span = 0 THEN 1 ELSE span) - 1
      BY <1>4 DEF Jitter
    <2> HIDE DEF span
    <2>3. QED
      BY <1>4, <2>1, <2>2, SMT
  <1>6. min + 2 * j \in Nat /\ min <= min + 2 * j
    BY <1>4, <1>5
  <1>7. QED
    BY <1>3, <1>5, <1>6 DEF min, max

\* What the cover traffic task may be waiting for.
LEMMA CoverFacts ==
    ASSUME Drawn
    PROVE  /\ cover.on \in BOOLEAN /\ cover.interval \in Nat \X Nat /\ cover.delay \in Nat
           /\ cover.on => cover.interval \in Intervals
           /\ CoverInterval
  <1>1. CASE cover = Silent
    BY <1>1 DEF Silent, CoverInterval
  <1>2. ASSUME NEW i \in Intervals, cover \in Sleeping(i)
        PROVE  /\ cover.on \in BOOLEAN /\ cover.interval = i /\ i \in Nat \X Nat
               /\ cover.delay \in Nat /\ CoverInterval
    <2>1. i \in Nat \X Nat
      BY SendingAssumption
    <2>2. QED
      BY <1>2, <2>1, SleepsInInterval DEF CoverInterval
  <1>3. QED
    BY <1>1, <1>2 DEF Drawn

\* Every step keeps the invariant.
LEMMA NextIInv == IInv /\ [Next]_vars => IInv'
  <1> SUFFICES ASSUME IInv, [Next]_vars PROVE IInv'
    OBVIOUS
  <1> USE DEF vars, clientVars, netVars
  <1>1. Net /\ Client /\ Drawn /\ Identities /\ faults \in 0 .. MaxFaults /\ MaxFaults \in Nat
    BY SendingAssumption DEF IInv
  <1>2. route \in [AllCells -> Seq(Relays)] /\ ClientTypes
    BY <1>1 DEF Net, NetTypes, Client
  <1>3. UNCHANGED <<identity, unpeeled>> => Identities'
    BY <1>1 DEF Identities, PersistentRelaysPeel
  <1>4. UNCHANGED cover => Drawn'
    BY <1>1 DEF Drawn
  <1>5. faults' = faults \/ (faults < MaxFaults /\ faults' = faults + 1)
            => faults' \in 0 .. MaxFaults
    BY <1>1
  <1>6. ASSUME NEW m \in Messages, SendStarts(m) PROVE IInv'
    <2>1. Net'
      BY <1>1, <1>6, NetShrinks DEF SendStarts
    <2>2. Client'
      <3>1. /\ call[m].pc = "idle" /\ Kind[m] # "dummy"
            /\ UNCHANGED <<topology, hopCount, route>>
            /\ \E x \in {"loop", "err"} : call' = [call EXCEPT ![m].pc = x]
        BY <1>6 DEF SendStarts
      <3>2. /\ call'[m] \in [pc : {"idle", "loop", "ok", "err"}, next : Nat, sent : Seq(Relays)]
            /\ call' = [call EXCEPT ![m] = call'[m]]
            /\ call'[m].next = call[m].next /\ call'[m].sent = call[m].sent
        BY <1>2, <3>1 DEF ClientTypes
      <3>3. QED
        BY <1>1, <3>1, <3>2, ClientTurns
    <2>3. QED
      BY <1>3, <1>4, <1>5, <1>6, <2>1, <2>2 DEF SendStarts, IInv
  <1>7. ASSUME NEW m \in Messages, SendCell(m) PROVE IInv'
    <2>1. More(m) /\ PathExists
      BY <1>7 DEF SendCell
    <2>2. PICK p \in DiversePaths(topology, hopCount) :
              /\ packets' = Written(NextCell(m), p)
              /\ route' = [route EXCEPT ![NextCell(m)] = p]
              /\ call' = [call EXCEPT ![m].next = @ + 1, ![m].sent = Append(@, Reported(p))]
      BY <1>7 DEF SendCell
    <2>3. p \in Seq(Relays) /\ p # <<>>
      BY <1>2, <2>1, PathPicked
    <2>4. NextCell(m) \in AllCells /\ route[NextCell(m)] = <<>>
      BY <1>1, <2>1, NextIsFresh
    <2>5. UNCHANGED <<topology, hopCount, cover, identity, visits, surfaced, unpeeled, faults>>
      BY <1>7 DEF SendCell
    <2>6. Net'
      BY <1>1, <2>2, <2>3, <2>4, <2>5, NetLaunches
    <2>7. Client'
      BY <1>1, <1>2, <2>1, <2>2, <2>3, <2>5, ClientSends
    <2>8. QED
      BY <1>3, <1>4, <1>5, <2>5, <2>6, <2>7 DEF IInv
  <1>8. ASSUME NEW m \in Messages, NoPath(m) \/ SendFails(m) \/ SendReturns(m) PROVE IInv'
    <2>1. /\ UNCHANGED <<topology, hopCount, cover, identity, netVars, route>>
          /\ faults' = faults \/ (faults < MaxFaults /\ faults' = faults + 1)
          /\ call[m].pc = "loop"
          /\ \/ call' = [call EXCEPT ![m].pc = "ok"]
             \/ call' = [call EXCEPT ![m].pc = "err", ![m].sent = <<>>]
      BY <1>8 DEF NoPath, SendFails, SendReturns, GivenUp, More
    <2>2. Kind[m] # "dummy"
      BY <1>1, <2>1 DEF Client, Reports
    <2>3. Net'
      BY <1>1, <2>1, NetShrinks
    <2>4. Client'
      <3>1. <<>> \in Seq(Relays)
        OBVIOUS
      <3>2. /\ call'[m] \in [pc : {"idle", "loop", "ok", "err"}, next : Nat, sent : Seq(Relays)]
            /\ call' = [call EXCEPT ![m] = call'[m]]
            /\ call'[m].next = call[m].next
            /\ call'[m].pc = "err" \/ call'[m].sent = call[m].sent
        BY <1>2, <2>1, <3>1 DEF ClientTypes
      <3>3. QED
        BY <1>1, <2>1, <2>2, <3>2, ClientTurns
    <2>5. QED
      BY <1>3, <1>4, <1>5, <2>1, <2>3, <2>4 DEF IInv
  <1>9. CASE CoverStarts \/ CoverAborts \/ CoverSkips
    <2>1. /\ UNCHANGED <<topology, hopCount, call, identity, netVars, route>>
          /\ faults' = faults \/ (faults < MaxFaults /\ faults' = faults + 1)
      BY <1>9 DEF CoverStarts, CoverAborts, CoverSkips
    <2>2. Drawn'
      BY <1>1, <1>9, CoverFacts DEF CoverStarts, CoverAborts, CoverSkips, Drawn
    <2>3. Net' /\ Client'
      BY <1>1, <2>1, NetShrinks, ClientRests
    <2>4. QED
      BY <1>3, <1>5, <2>1, <2>2, <2>3 DEF IInv
  <1>10. ASSUME NEW m \in Messages, CoverSends(m) PROVE IInv'
    <2>1. Kind[m] = "dummy" /\ call[m].pc = "idle" /\ PathExists /\ cover.on
      BY <1>10 DEF CoverSends
    <2>2. PICK p \in DiversePaths(topology, hopCount) :
              /\ packets' = Written(CellOf(m, 0), p)
              /\ route' = [route EXCEPT ![CellOf(m, 0)] = p]
      BY <1>10 DEF CoverSends
    <2>3. /\ call' = [call EXCEPT ![m].pc = "ok"] /\ cover' \in Sleeping(cover.interval)
          /\ UNCHANGED <<topology, hopCount, identity, visits, surfaced, unpeeled, faults>>
      BY <1>10 DEF CoverSends
    <2>4. p \in Seq(Relays) /\ p # <<>>
      BY <1>2, <2>1, PathPicked
    <2>5. CellOf(m, 0) \in AllCells /\ route[CellOf(m, 0)] = <<>>
      BY <1>1, <2>1, DummyIsFresh
    <2>6. Net'
      BY <1>1, <2>2, <2>3, <2>4, <2>5, NetLaunches
    <2>7. Client'
      BY <1>1, <1>2, <2>1, <2>2, <2>3, ClientSendsDummy
    <2>8. Drawn'
      BY <1>1, <2>1, <2>3, CoverFacts DEF Drawn
    <2>9. QED
      BY <1>3, <1>5, <2>3, <2>6, <2>7, <2>8 DEF IInv
  <1>11. ASSUME NEW q \in packets, PeelForward(q) \/ PeelDeliver(q) PROVE IInv'
    <2>1. UNCHANGED <<clientVars, identity, unpeeled, route, faults>>
      BY <1>11 DEF PeelForward, PeelDeliver
    <2>2. Net'
      BY <1>1, <1>11, NetForwards, NetDelivers
    <2>3. Client'
      BY <1>1, <2>1, ClientRests
    <2>4. QED
      BY <1>3, <1>4, <1>5, <2>1, <2>2, <2>3 DEF IInv
  <1>12. ASSUME NEW q \in packets, PeelFails(q) PROVE IInv'
    <2>1. /\ UNCHANGED <<clientVars, identity, visits, surfaced, route, faults>>
          /\ packets' \subseteq packets /\ unpeeled' = unpeeled \cup {q.at}
          /\ ~PeelsWith(q, RelayKey(q.at, identity[q.at]))
      BY <1>12 DEF PeelFails, Peels
    <2>2. q.at \in Relays /\ PeelsWith(q, RelayKey(q.at, 0))
      BY <1>1, PeelFacts, FrameShows
    <2>3. identity[q.at] # 0
      BY <2>1, <2>2
    <2>4. q.at \in {r \in Relays \ Persistent : identity[r] > 0}
      BY <1>1, <2>2, <2>3 DEF Identities
    <2>5. Identities'
      BY <1>1, <2>1, <2>4 DEF Identities, PersistentRelaysPeel
    <2>6. Net' /\ Client'
      BY <1>1, <2>1, NetShrinks, ClientRests
    <2>7. QED
      BY <1>4, <1>5, <2>1, <2>5, <2>6 DEF IInv
  <1>13. ASSUME NEW q \in packets, Lose(q) PROVE IInv'
    <2>1. /\ UNCHANGED <<clientVars, identity, visits, surfaced, unpeeled, route>>
          /\ packets' \subseteq packets /\ faults < MaxFaults /\ faults' = faults + 1
      BY <1>13 DEF Lose
    <2>2. Net' /\ Client'
      BY <1>1, <2>1, NetShrinks, ClientRests
    <2>3. QED
      BY <1>3, <1>4, <1>5, <2>1, <2>2 DEF IInv
  <1>14. ASSUME NEW r \in Relays, Restart(r) PROVE IInv'
    <2>1. /\ UNCHANGED <<clientVars, visits, surfaced, unpeeled, route>>
          /\ packets' \subseteq packets /\ faults < MaxFaults /\ faults' = faults + 1
          /\ identity' = [identity EXCEPT ![r] = IdentityAfter(r)]
      BY <1>14 DEF Restart
    <2>2. Net' /\ Client'
      BY <1>1, <2>1, NetShrinks, ClientRests
    <2>3. identity \in [Relays -> Nat] /\ \A s \in Persistent : identity[s] = 0
      BY <1>1 DEF Identities
    <2>4. /\ identity' \in [Relays -> Nat] /\ \A s \in Persistent : identity'[s] = 0
          /\ \A s \in Relays : identity[s] > 0 => identity'[s] > 0
      BY <2>1, <2>3 DEF IdentityAfter
    <2>5. PersistentRelaysPeel'
      BY <1>1, <2>1, <2>4 DEF Identities, PersistentRelaysPeel
    <2>6. Identities'
      BY <2>4, <2>5 DEF Identities
    <2>7. QED
      BY <1>4, <1>5, <2>1, <2>2, <2>6 DEF IInv
  <1>15. CASE UNCHANGED vars
    <2>1. Net' /\ Client'
      BY <1>1, <1>15, NetShrinks, ClientRests
    <2>2. QED
      BY <1>3, <1>4, <1>5, <1>15, <2>1 DEF IInv
  <1>16. QED
    BY <1>6, <1>7, <1>8, <1>9, <1>10, <1>11, <1>12, <1>13, <1>14, <1>15 DEF Next, Relay

\* The invariant holds throughout.
LEMMA Invariant == Spec => []IInv
  BY InitIInv, NextIInv, PTL DEF Spec

------------------------------------------------------------------------------
(***************************************************************************)
(* TypeOK for every instance: in particular no call of send goes past its  *)
(* last cell, and every frame is addressed to a relay.                     *)
(***************************************************************************)
THEOREM SendingTypes == Spec => []TypeOK
  <1>1. IInv => TypeOK
    <2> SUFFICES ASSUME IInv PROVE TypeOK
      OBVIOUS
    <2>1. Net /\ Client /\ Drawn /\ Identities /\ faults \in 0 .. MaxFaults
      BY DEF IInv
    <2>2. topology \subseteq Relays /\ hopCount \in Nat
      BY <2>1 DEF Client, ClientTypes
    <2>3. ASSUME NEW m \in Messages
          PROVE  /\ call[m].pc \in {"idle", "loop", "ok", "err"}
                 /\ call[m].next \in 0 .. TotalCells(m) /\ call[m].sent \in Seq(Relays)
      <3>1. call[m].next \in Nat /\ call[m].next <= TotalCells(m)
        BY <2>1, CallTypes DEF Client, Reports
      <3>2. QED
        BY <2>1, <3>1, CallTypes, TotalNat DEF Client
    <2>4. QED
      BY <2>1, <2>2, <2>3, CoverFacts
         DEF TypeOK, Net, NetTypes, Identities, PersistentRelaysPeel
  <1>2. QED
    BY <1>1, Invariant, PTL

(***************************************************************************)
(* CircuitFollowed for every instance: whatever the topology, the number   *)
(* of hops, the calls running at once, the frames lost and the relays      *)
(* restarted, a cell is peeled by the relays that select_diverse_path      *)
(* chose for it, in that order, and shows at the last one only.            *)
(***************************************************************************)
THEOREM CircuitsAreFollowed == Spec => []CircuitFollowed
  <1>1. IInv => CircuitFollowed
    <2> SUFFICES ASSUME IInv PROVE CircuitFollowed
      OBVIOUS
    <2>1. Net
      BY DEF IInv
    <2>2. ASSUME NEW c \in AllCells
          PROVE  /\ Len(visits[c]) <= Len(route[c])
                 /\ visits[c] = SubSeq(route[c], 1, Len(visits[c]))
                 /\ surfaced[c] # {} => visits[c] = route[c]
      <3> DEFINE v == visits[c]
                 p == route[c]
      <3>1. v \in Seq(Relays) /\ p \in Seq(Relays) /\ TrackOk(v, p, surfaced[c])
        BY <2>1 DEF Net, NetTypes, Follow
      <3> HIDE DEF v, p
      <3>2. Len(v) <= Len(p) /\ \A k \in 1 .. Len(v) : v[k] = p[k]
        BY <3>1 DEF TrackOk
      <3>3. /\ SubSeq(p, 1, Len(v)) \in Seq(Relays) /\ Len(SubSeq(p, 1, Len(v))) = Len(v)
            /\ \A k \in 1 .. Len(v) : SubSeq(p, 1, Len(v))[k] = p[k]
        BY <3>1, <3>2
      <3>4. v = SubSeq(p, 1, Len(v))
        BY <3>1, <3>2, <3>3, SeqEqual
      <3>5. surfaced[c] # {} => v = p
        <4> SUFFICES ASSUME surfaced[c] # {} PROVE v = p
          OBVIOUS
        <4>1. Len(v) = Len(p)
          BY <3>1 DEF TrackOk
        <4>2. QED
          BY <3>1, <3>2, <4>1, SeqEqual
      <3>6. QED
        BY <3>2, <3>4, <3>5 DEF v, p
    <2>3. ASSUME NEW q \in packets
          PROVE  /\ Len(visits[q.cell]) + 1 <= Len(route[q.cell])
                 /\ q.at = route[q.cell][Len(visits[q.cell]) + 1]
                 /\ PeelsWith(q, RelayKey(q.at, 0))
      <3>1. /\ visits[q.cell] \in Seq(Relays) /\ route[q.cell] \in Seq(Relays)
            /\ FrameOk(q, visits[q.cell], route[q.cell])
        BY <2>1, PeelFacts
      <3>2. PeelsWith(q, RelayKey(q.at, 0))
        BY <3>1, FrameShows
      <3>3. QED
        BY <3>1, <3>2 DEF FrameOk
    <2>4. QED
      BY <2>2, <2>3 DEF CircuitFollowed
  <1>2. QED
    BY <1>1, Invariant, PTL

(***************************************************************************)
(* ExitAsReported for every instance: unless send fails, what it has in    *)
(* its SentCircuits is where the cells come out, if they do.               *)
(***************************************************************************)
THEOREM ExitsAreAsReported == Spec => []ExitAsReported
  <1>1. IInv => ExitAsReported
    <2> SUFFICES ASSUME IInv, NEW m \in Messages, Kind[m] # "dummy", call[m].pc # "err",
                        NEW i \in 0 .. TotalCells(m) - 1
                 PROVE  surfaced[CellOf(m, i)] \subseteq
                            IF i < Len(call[m].sent) THEN {call[m].sent[i + 1]} ELSE {}
      BY DEF ExitAsReported
    <2> DEFINE c == CellOf(m, i)
    <2>1. c \in AllCells
      BY CellIn
    <2>2. Net /\ Client
      BY DEF IInv
    <2>3. TrackOk(visits[c], route[c], surfaced[c])
      BY <2>1, <2>2 DEF Net, Follow
    <2>4. Len(call[m].sent) = call[m].next /\ call[m].next \in Nat /\ TotalCells(m) \in Nat
      BY <2>2, CallTypes, TotalNat DEF Client, Reports
    <2>5. CASE i < Len(call[m].sent)
      <3>1. i \in Sent(m)
        BY <2>4, <2>5 DEF Sent
      <3>2. call[m].sent[i + 1] = route[c][Len(route[c])]
        BY <2>2, <3>1 DEF Client, Reports, Reported
      <3>3. QED
        BY <2>3, <2>5, <3>2 DEF TrackOk
    <2>6. CASE ~(i < Len(call[m].sent))
      <3>1. i \in Left(m)
        BY <2>4, <2>6 DEF Left
      <3>2. route[c] = <<>>
        BY <2>2, <3>1 DEF Client, Unsent
      <3>3. QED
        BY <2>3, <2>6, <3>2 DEF TrackOk
    <2>7. QED
      BY <2>5, <2>6
  <1>2. QED
    BY <1>1, Invariant, PTL

(***************************************************************************)
(* PersistentRelaysPeel for every instance: a configured static_secret_hex *)
(* keeps a relay reachable through any number of restarts.                 *)
(***************************************************************************)
THEOREM PersistentRelaysStay == Spec => []PersistentRelaysPeel
  <1>1. IInv => PersistentRelaysPeel
    BY DEF IInv, Identities
  <1>2. QED
    BY <1>1, Invariant, PTL

(***************************************************************************)
(* CoverInterval for every pair of intervals: rounding the span to whole   *)
(* milliseconds never makes next_dummy reach max_interval.                 *)
(***************************************************************************)
THEOREM CoverKeepsInterval == Spec => []CoverInterval
  <1>1. IInv => CoverInterval
    BY CoverFacts DEF IInv
  <1>2. QED
    BY <1>1, Invariant, PTL
==============================================================================
