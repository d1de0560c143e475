--------------------------- MODULE DeliveryProofs ----------------------------
(***************************************************************************)
(* Proofs about Delivery, for any number of relays, receivers, messages    *)
(* and failures: its invariants, and that it implements Handover; and      *)
(* about EndToEnd, which extends Delivery: its invariants, from those of   *)
(* Delivery and Sending.                                                   *)
(***************************************************************************)
EXTENDS EndToEnd, CellLemmas

(***************************************************************************)
(* Sequences without repetitions, as sets.                                 *)
(***************************************************************************)
Distinct(s) == \A i, j \in DOMAIN s : s[i] = s[j] => i = j

\* An empty queue has no elements.
LEMMA ElemsEmpty == Elems(<<>>) = {} /\ Distinct(<<>>)
  BY DEF Elems, Distinct

\* The elements of a queue of cells are cells.
LEMMA ElemsType ==
    ASSUME NEW U, NEW s \in Seq(U)
    PROVE  Elems(s) \subseteq U
  BY DEF Elems

\* push adds one element, and no repetition if it is new.
LEMMA ElemsAppend ==
    ASSUME NEW U, NEW s \in Seq(U), NEW x \in U
    PROVE  /\ Append(s, x) \in Seq(U)
           /\ Elems(Append(s, x)) = Elems(s) \cup {x}
           /\ Distinct(s) /\ x \notin Elems(s) => Distinct(Append(s, x))
  <1>1. /\ DOMAIN s = 1 .. Len(s) /\ Len(s) \in Nat
        /\ DOMAIN Append(s, x) = 1 .. Len(s) + 1
        /\ \A i \in 1 .. Len(s) : Append(s, x)[i] = s[i]
        /\ Append(s, x)[Len(s) + 1] = x
        /\ Append(s, x) \in Seq(U)
    OBVIOUS
  <1>2. DOMAIN Append(s, x) = DOMAIN s \cup {Len(s) + 1} /\ Len(s) + 1 \notin DOMAIN s
    BY <1>1
  <1>3. Elems(Append(s, x)) = Elems(s) \cup {x}
    BY <1>1, <1>2 DEF Elems
  <1>4. Distinct(s) /\ x \notin Elems(s) => Distinct(Append(s, x))
    BY <1>1, <1>2 DEF Elems, Distinct
  <1>5. QED
    BY <1>1, <1>3, <1>4

\* Without its head a queue has the other elements.
LEMMA ElemsTail ==
    ASSUME NEW U, NEW s \in Seq(U), s # <<>>
    PROVE  /\ Tail(s) \in Seq(U) /\ Head(s) \in U
           /\ Elems(s) = Elems(Tail(s)) \cup {Head(s)}
           /\ Distinct(s) => Head(s) \notin Elems(Tail(s)) /\ Distinct(Tail(s))
  <1>1. /\ DOMAIN s = 1 .. Len(s) /\ Len(s) \in Nat \ {0}
        /\ DOMAIN Tail(s) = 1 .. Len(s) - 1
        /\ \A i \in 1 .. Len(s) - 1 : Tail(s)[i] = s[i + 1]
        /\ Head(s) = s[1]
        /\ Tail(s) \in Seq(U)
        /\ Head(s) \in U
    OBVIOUS
  <1>2. /\ \A i \in DOMAIN Tail(s) : i + 1 \in DOMAIN s /\ i + 1 # 1
        /\ \A i \in DOMAIN s : i # 1 => i - 1 \in DOMAIN Tail(s) /\ (i - 1) + 1 = i
        /\ 1 \in DOMAIN s
    BY <1>1
  <1>3. Elems(s) = Elems(Tail(s)) \cup {Head(s)}
    <2>1. ASSUME NEW i \in DOMAIN s PROVE s[i] \in Elems(Tail(s)) \cup {Head(s)}
      <3>1. CASE i = 1
        BY <1>1, <3>1
      <3>2. CASE i # 1
        <4>1. Tail(s)[i - 1] = s[i] /\ i - 1 \in DOMAIN Tail(s)
          BY <1>1, <1>2, <3>2
        <4>2. QED
          BY <4>1 DEF Elems
      <3>3. QED
        BY <3>1, <3>2
    <2>2. ASSUME NEW i \in DOMAIN Tail(s) PROVE Tail(s)[i] \in Elems(s)
      BY <1>1, <1>2 DEF Elems
    <2>3. Head(s) \in Elems(s)
      BY <1>1, <1>2 DEF Elems
    <2>4. Elems(s) \subseteq Elems(Tail(s)) \cup {Head(s)}
      BY <2>1 DEF Elems
    <2>5. Elems(Tail(s)) \subseteq Elems(s)
      BY <2>2 DEF Elems
    <2>6. QED
      BY <2>3, <2>4, <2>5
  <1>4. ASSUME Distinct(s) PROVE Head(s) \notin Elems(Tail(s)) /\ Distinct(Tail(s))
    <2>1. \A i \in DOMAIN Tail(s) : Tail(s)[i] # Head(s)
      BY <1>1, <1>2, <1>4 DEF Distinct
    <2>2. ASSUME NEW i \in DOMAIN Tail(s), NEW j \in DOMAIN Tail(s), Tail(s)[i] = Tail(s)[j]
          PROVE  i = j
      <3>1. i + 1 = j + 1 /\ i \in Int /\ j \in Int
        BY <1>1, <1>2, <1>4, <2>2 DEF Distinct
      <3>2. QED
        BY <3>1
    <2>3. QED
      BY <2>1, <2>2 DEF Elems, Distinct
  <1>5. QED
    BY <1>1, <1>3, <1>4

\* Two queues with nothing in common, one after the other.
LEMMA ElemsConcat ==
    ASSUME NEW U, NEW s \in Seq(U), NEW t \in Seq(U)
    PROVE  /\ s \o t \in Seq(U)
           /\ Elems(s \o t) = Elems(s) \cup Elems(t)
           /\ Distinct(s) /\ Distinct(t) /\ Elems(s) \cap Elems(t) = {}
                  => Distinct(s \o t)
  <1>1. /\ DOMAIN s = 1 .. Len(s) /\ Len(s) \in Nat
        /\ DOMAIN t = 1 .. Len(t) /\ Len(t) \in Nat
        /\ DOMAIN (s \o t) = 1 .. Len(s) + Len(t)
        /\ \A i \in 1 .. Len(s) : (s \o t)[i] = s[i]
        /\ \A i \in 1 .. Len(s) + Len(t) : i > Len(s) => (s \o t)[i] = t[i - Len(s)]
        /\ s \o t \in Seq(U)
    OBVIOUS
  <1>2. \A i \in DOMAIN (s \o t) :
            \/ i \in DOMAIN s /\ (s \o t)[i] = s[i]
            \/ i > Len(s) /\ i - Len(s) \in DOMAIN t /\ (s \o t)[i] = t[i - Len(s)]
    BY <1>1
  <1>3. /\ \A i \in DOMAIN s : i \in DOMAIN (s \o t) /\ (s \o t)[i] = s[i]
        /\ \A i \in DOMAIN t : i + Len(s) \in DOMAIN (s \o t) /\ (s \o t)[i + Len(s)] = t[i]
    BY <1>1
  <1>4. Elems(s \o t) = Elems(s) \cup Elems(t)
    <2>1. Elems(s \o t) \subseteq Elems(s) \cup Elems(t)
      BY <1>2 DEF Elems
    <2>2. Elems(s) \cup Elems(t) \subseteq Elems(s \o t)
      BY <1>3 DEF Elems
    <2>3. QED
      BY <2>1, <2>2
  <1>5. ASSUME Distinct(s), Distinct(t), Elems(s) \cap Elems(t) = {},
               NEW i \in DOMAIN (s \o t), NEW j \in DOMAIN (s \o t), (s \o t)[i] = (s \o t)[j]
        PROVE  i = j
    <2>1. i \in Int /\ j \in Int /\ Len(s) \in Int
      BY <1>1
    <2>2. CASE i \in DOMAIN s /\ j \in DOMAIN s
      BY <1>3, <1>5, <2>2 DEF Distinct
    <2>3. CASE ~(i \in DOMAIN s) /\ ~(j \in DOMAIN s)
      <3>1. i - Len(s) = j - Len(s)
        BY <1>2, <1>5, <2>3 DEF Distinct
      <3>2. QED
        BY <2>1, <3>1
    <2>4. \A k \in DOMAIN (s \o t) : IF k \in DOMAIN s THEN (s \o t)[k] \in Elems(s)
                                                      ELSE (s \o t)[k] \in Elems(t)
      BY <1>2, <1>3 DEF Elems
    <2>5. i \in DOMAIN s <=> j \in DOMAIN s
      BY <1>5, <2>4
    <2>6. QED
      BY <2>2, <2>3, <2>5
  <1>6. QED
    BY <1>1, <1>4, <1>5 DEF Distinct

------------------------------------------------------------------------------
(***************************************************************************)
(* Envelopes.  A receiver opens the cells of messages for it that a sender *)
(* of its own version made, and no others, and gets the cell back.         *)
(***************************************************************************)
Own(p) == {c \in AllCells : Recipient[c.data.msg] = p /\ Kind[c.data.msg] = "data"}

\* A cell is one of the message it names, which was accepted.
LEMMA CellOwner ==
    ASSUME NEW c \in AllCells
    PROVE  /\ c.data.msg \in Messages /\ c \in CellsOf(c.data.msg)
           /\ FragmentOk(c.data.msg)
  <1>1. PICK m \in Messages : c \in CellsOf(m)
    BY DEF AllCells
  <1>2. FragmentOk(m)
    BY DeliveryAssumption
  <1>3. c.data.msg = m
    BY <1>1, <1>2, CellFacts
  <1>4. QED
    BY <1>1, <1>2, <1>3

\* For p open exactly the data cells that were encrypted for p, each as itself.
LEMMA OpensOwn ==
    ASSUME NEW p \in Receivers, NEW c \in AllCells
    PROVE  /\ Opens(p, Body(c)) <=> c \in Own(p)
           /\ c \in Own(p) => Opened(Body(c)) = c
  <1> DEFINE m == c.data.msg
  <1>1. m \in Messages /\ c \in CellsOf(m) /\ FragmentOk(m)
    BY CellOwner
  <1>2. /\ c.id = MessageId[m] /\ c.total = TotalCells(m)
        /\ TotalCells(m) \in Nat \ {0} /\ c.index \in 0 .. TotalCells(m) - 1
        /\ c.data = Chunk(m, c.index)
        /\ c = CellOf(m, c.index)
    BY <1>1, CellFacts
  <1>3. c = [id |-> c.id, index |-> c.index, total |-> c.total, data |-> c.data]
    BY <1>1, <1>2, CellFields
  <1>4. /\ c.data = [msg |-> m, from |-> c.index * Capacity, upto |-> ChunkEnd(m, c.index)]
        /\ c.data.from \in Int /\ c.data.upto \in Int
    <2>1. c.index \in Nat /\ Capacity \in Nat /\ MessageLen[m] \in Nat
      BY <1>1, <1>2, CapacityAssumption, MessageAssumption
    <2>2. c.index * Capacity \in Int /\ ChunkEnd(m, c.index) \in Int
      BY <2>1 DEF ChunkEnd
    <2>3. QED
      BY <1>2, <2>2 DEF Chunk
  <1>5. c.data.upto - c.data.from <= Capacity
    BY <1>1 DEF FragmentOk, NewDataOk
  <1> DEFINE b == Body(c)
             plain == ToBytes(c, Kind[m])
  <1> HIDE DEF m
  <1>6. /\ b.length = EnvelopeSize /\ b.sender = EphemeralOf(m)
        /\ b.box.plain = plain
        /\ b.box.key = IF Kind[m] = "dummy" THEN ThrowawayKey(m) ELSE SessionKey(m)
    BY DEF Body, Wrap, EncryptCell, m
  <1>7. /\ plain.version = IF Kind[m] = "newer" THEN ProtocolVersion + 1 ELSE ProtocolVersion
        /\ plain.cell_type = IF Kind[m] = "dummy" THEN 1 ELSE 0
        /\ plain.message_id = c.id /\ plain.seq_index = c.index /\ plain.seq_total = c.total
        /\ plain.payload_len = c.data.upto - c.data.from
        /\ plain.payload = c.data
    BY DEF ToBytes
  <1>8. Kind[m] \in {"data", "dummy", "newer"}
    BY <1>1, KindAssumption DEF m
  <1> HIDE DEF b, plain
  <1>9. FromBytesOk(plain) <=> Kind[m] # "newer"
    BY <1>2, <1>5, <1>7, <1>8 DEF FromBytesOk, ProtocolVersion
  <1>10. ThrowawayKey(m) # ReceiveKey(p, EphemeralOf(m))
    BY DEF ThrowawayKey, ReceiveKey, DeriveKey
  <1>11. SessionKey(m) = ReceiveKey(p, EphemeralOf(m)) <=> Recipient[m] = p
    <2>1. IdentityOf(Recipient[m]) # EphemeralOf(m) /\ IdentityOf(p) # EphemeralOf(m)
      BY DEF IdentityOf, EphemeralOf
    <2>2. IdentityOf(Recipient[m]) = IdentityOf(p) <=> Recipient[m] = p
      BY DEF IdentityOf
    <2>3. SessionKey(m) = ReceiveKey(p, EphemeralOf(m))
            <=> {EphemeralOf(m), IdentityOf(Recipient[m])} = {IdentityOf(p), EphemeralOf(m)}
      BY DEF SessionKey, ReceiveKey, DeriveKey, DiffieHellman
    <2>4. QED
      BY <2>1, <2>2, <2>3
  <1>12. Opens(p, b) <=> Recipient[m] = p /\ Kind[m] = "data"
    BY <1>6, <1>8, <1>9, <1>10, <1>11 DEF Opens, UnwrapOk, DecryptCellOk
  <1>13. Opened(b) = c
    <2>1. c.data.from + (c.data.upto - c.data.from) = c.data.upto
      BY <1>4
    <2>2. [c.data EXCEPT !.upto = c.data.upto] = c.data
      BY <1>4
    <2>3. Opened(b) = [id |-> c.id, index |-> c.index, total |-> c.total,
                       data |-> [c.data EXCEPT !.upto = c.data.from + (c.data.upto - c.data.from)]]
      BY <1>6, <1>7 DEF Opened, FromBytes
    <2>4. QED
      BY <1>3, <2>1, <2>2, <2>3
  <1>14. QED
    BY <1>12, <1>13 DEF Own, b, m

\* The loop of receive keeps the cells for p, in their order, each once.
LEMMA DecryptedOwn ==
    ASSUME NEW p \in Receivers, reply[p] \in Seq(AllCells)
    PROVE  /\ Decrypted(p) \in Seq(AllCells)
           /\ Elems(Decrypted(p)) = Elems(reply[p]) \cap Own(p)
           /\ Distinct(reply[p]) => Distinct(Decrypted(p))
  <1> DEFINE R == reply[p]
             L == Len(R)
             T == {n \in 1 .. L : Opens(p, Body(R[n]))}
             v == [n \in 1 .. L |-> Opened(Body(R[n]))]
             f == CHOOSE g : g = [n \in 0 .. L |->
                      IF n = 0 THEN <<>>
                      ELSE IF Opens(p, Body(R[n])) THEN Append(g[n - 1], Opened(Body(R[n])))
                           ELSE g[n - 1]]
  <1>1. L \in Nat /\ DOMAIN R = 1 .. L /\ \A n \in 1 .. L : R[n] \in AllCells
    OBVIOUS
  <1>2. Decrypted(p) = f[L]
    BY DEF Decrypted
  <1>3. PICK h : Filters(h, L, T, v)
    BY <1>1, FilterExists
  <1>4. h = [n \in 0 .. L |-> IF n = 0 THEN <<>>
                 ELSE IF Opens(p, Body(R[n])) THEN Append(h[n - 1], Opened(Body(R[n])))
                      ELSE h[n - 1]]
    <2>1. h = [n \in 0 .. L |-> IF n = 0 THEN <<>>
                   ELSE IF n \in T THEN Append(h[n - 1], v[n]) ELSE h[n - 1]]
      BY <1>3 DEF Filters
    <2>2. \A n \in 0 .. L : n # 0 => /\ n \in T <=> Opens(p, Body(R[n]))
                                     /\ v[n] = Opened(Body(R[n]))
      BY <1>1
    <2> HIDE DEF T, v
    <2>3. QED
      BY <2>1, <2>2
  <1>5. f = [n \in 0 .. L |-> IF n = 0 THEN <<>>
                 ELSE IF Opens(p, Body(R[n])) THEN Append(f[n - 1], Opened(Body(R[n])))
                      ELSE f[n - 1]]
    BY <1>4
  <1> HIDE DEF f, R, L
  <1>6. /\ f[0] = <<>>
        /\ \A n \in 1 .. L :
               f[n] = IF R[n] \in Own(p) THEN Append(f[n - 1], R[n]) ELSE f[n - 1]
    <2>1. f[0] = <<>>
      BY <1>1, <1>5
    <2>2. ASSUME NEW n \in 1 .. L
          PROVE  f[n] = IF R[n] \in Own(p) THEN Append(f[n - 1], R[n]) ELSE f[n - 1]
      <3>1. f[n] = IF Opens(p, Body(R[n])) THEN Append(f[n - 1], Opened(Body(R[n])))
                   ELSE f[n - 1]
        <4>1. n \in 0 .. L /\ n # 0
          BY <1>1
        <4>2. QED
          BY <1>5, <4>1
      <3>2. R[n] \in AllCells
        BY <1>1
      <3>3. QED
        BY <3>1, <3>2, OpensOwn
    <2>3. QED
      BY <2>1, <2>2
  <1> DEFINE First(n) == {R[k] : k \in 1 .. n}
             Good(n) == /\ f[n] \in Seq(AllCells)
                        /\ Elems(f[n]) = First(n) \cap Own(p)
                        /\ Distinct(R) => Distinct(f[n])
             U == {n \in Nat : n <= L => Good(n)}
  <1>7. 0 \in U
    <2>1. First(0) = {} /\ <<>> \in Seq(AllCells)
      OBVIOUS
    <2> HIDE DEF First
    <2>2. Good(0)
      BY <1>6, <2>1, ElemsEmpty
    <2>3. QED
      BY <2>2
  <1>8. ASSUME NEW n \in Nat, n \in U PROVE n + 1 \in U
    <2> SUFFICES ASSUME n + 1 <= L PROVE Good(n + 1)
      OBVIOUS
    <2>1. Good(n) /\ n + 1 \in 1 .. L /\ (n + 1) - 1 = n
      BY <1>1, <1>8
    <2>2. f[n + 1] = IF R[n + 1] \in Own(p) THEN Append(f[n], R[n + 1]) ELSE f[n]
      BY <1>6, <2>1
    <2>3. First(n + 1) = First(n) \cup {R[n + 1]}
      <3>1. 1 .. n + 1 = (1 .. n) \cup {n + 1}
        OBVIOUS
      <3>2. QED
        BY <3>1
    <2>4. R[n + 1] \in AllCells
      BY <1>1, <2>1
    <2>5. Distinct(R) => R[n + 1] \notin First(n)
      <3>1. \A k \in 1 .. n : k \in DOMAIN R /\ n + 1 \in DOMAIN R /\ k # n + 1
        BY <1>1, <2>1
      <3>2. QED
        BY <3>1 DEF Distinct
    <2> HIDE DEF First
    <2>6. CASE R[n + 1] \in Own(p)
      <3>1. f[n + 1] = Append(f[n], R[n + 1])
        BY <2>2, <2>6
      <3>2. /\ f[n + 1] \in Seq(AllCells)
            /\ Elems(f[n + 1]) = Elems(f[n]) \cup {R[n + 1]}
            /\ Distinct(f[n]) /\ R[n + 1] \notin Elems(f[n]) => Distinct(f[n + 1])
        BY <2>1, <2>4, <3>1, ElemsAppend
      <3>3. QED
        BY <2>1, <2>3, <2>5, <2>6, <3>2
    <2>7. CASE R[n + 1] \notin Own(p)
      BY <2>1, <2>2, <2>3, <2>7
    <2>8. QED
      BY <2>6, <2>7
  <1> HIDE DEF U
  <1>9. Nat \subseteq U
    BY <1>7, <1>8, Induction
  <1>10. Good(L)
    <2>1. L \in U /\ L <= L
      BY <1>1, <1>9
    <2> HIDE DEF Good
    <2>2. QED
      BY <2>1 DEF U
  <1>11. First(L) = Elems(R)
    BY <1>1 DEF Elems
  <1>12. QED
    BY <1>2, <1>10, <1>11 DEF R

------------------------------------------------------------------------------
(***************************************************************************)
(* The Reassembler of a receiver, whose value is F, after the cells of I   *)
(* were inserted once each: there is an entry for each message of which it *)
(* has some cells but not all, with the chunks of those cells.             *)
(***************************************************************************)
Has(I, m) == {i \in 0 .. TotalCells(m) - 1 : CellOf(m, i) \in I}

Partial(I, m) == Has(I, m) # {} /\ Has(I, m) # 0 .. TotalCells(m) - 1

StoreOk(F, I) ==
    /\ DOMAIN F = {MessageId[m] : m \in {n \in Messages : Partial(I, n)}}
    /\ \A m \in Messages : Partial(I, m) =>
           /\ GoodEntry(F[MessageId[m]], m)
           /\ DOMAIN F[MessageId[m]].fragments = Has(I, m)

\* What insert returns for a complete message.
Result(m) == [id        |-> MessageId[m],
              total     |-> TotalCells(m),
              fragments |-> [i \in 0 .. TotalCells(m) - 1 |-> Chunk(m, i)]]

\* Result(m) is the whole of m.
LEMMA ResultIsWhole ==
    ASSUME NEW m \in Messages
    PROVE  Whole(Result(m), m) /\ Returned(Result(m)) = m
  <1>1. FragmentOk(m) /\ TotalCells(m) \in Nat \ {0}
    BY DeliveryAssumption, LengthOk, TotalInRange, SeqMaxAssumption
  <1>2. /\ Chunk(m, 0).from = 0
        /\ \A i \in 1 .. TotalCells(m) - 1 : Chunk(m, i).from = Chunk(m, i - 1).upto
        /\ Chunk(m, TotalCells(m) - 1).upto = MessageLen[m]
    BY <1>1, ChunksTile
  <1>3. \A i \in 0 .. TotalCells(m) - 1 : Chunk(m, i).msg = m
    BY DEF Chunk
  <1> DEFINE f == Result(m).fragments
             T == TotalCells(m)
  <1>4. /\ DOMAIN f = 0 .. T - 1
        /\ \A i \in 0 .. T - 1 : f[i] = Chunk(m, i)
        /\ Result(m).id = MessageId[m]
    BY DEF Result
  <1>5. 0 \in 0 .. T - 1 /\ T - 1 \in 0 .. T - 1
        /\ \A i \in (0 .. T - 1) \ {0} : i \in 1 .. T - 1 /\ i - 1 \in 0 .. T - 1
    BY <1>1
  <1> HIDE DEF f, T
  <1>6. f[0].from = 0 /\ f[T - 1].upto = MessageLen[m]
    BY <1>2, <1>4, <1>5 DEF T
  <1>7. \A i \in DOMAIN f : f[i].msg = m
    BY <1>3, <1>4 DEF T
  <1>8. \A i \in DOMAIN f \ {0} : f[i].from = f[i - 1].upto
    BY <1>2, <1>4, <1>5 DEF T
  <1>9. Whole(Result(m), m)
    BY <1>4, <1>6, <1>7, <1>8 DEF Whole, f, T
  <1>10. \A n \in Messages : Whole(Result(m), n) => n = m
    BY <1>4, DeliveryAssumption DEF Whole
  <1>11. QED
    BY <1>9, <1>10 DEF Returned

\* The cells of m are told apart by their indices, and from those of other messages.
LEMMA HasAndCell ==
    ASSUME NEW c \in AllCells, NEW I
    PROVE  /\ Has(I \cup {c}, c.data.msg) = Has(I, c.data.msg) \cup {c.index}
           /\ c \notin I => c.index \notin Has(I, c.data.msg)
           /\ \A n \in Messages \ {c.data.msg} : Has(I \cup {c}, n) = Has(I, n)
           /\ c.index \in 0 .. TotalCells(c.data.msg) - 1
  <1> DEFINE m == c.data.msg
  <1>1. m \in Messages /\ c \in CellsOf(m) /\ FragmentOk(m)
    BY CellOwner
  <1>2. c.index \in 0 .. TotalCells(m) - 1 /\ c = CellOf(m, c.index)
    BY <1>1, CellFacts
  <1>3. \A i \in 0 .. TotalCells(m) - 1 : CellOf(m, i).index = i
    BY <1>1, CellFields
  <1>4. ASSUME NEW n \in Messages, NEW i \in 0 .. TotalCells(n) - 1 PROVE CellOf(n, i).data.msg = n
    BY DEF CellOf, Chunk
  <1> HIDE DEF m
  <1>5. Has(I \cup {c}, m) = Has(I, m) \cup {c.index}
    BY <1>2, <1>3 DEF Has
  <1>6. c \notin I => c.index \notin Has(I, m)
    BY <1>2 DEF Has
  <1>7. \A n \in Messages \ {m} : Has(I \cup {c}, n) = Has(I, n)
    BY <1>4 DEF Has, m
  <1>8. QED
    BY <1>2, <1>5, <1>6, <1>7 DEF m

\* All cells of m are in I exactly when all of its indices are.
LEMMA HasAll ==
    ASSUME NEW m \in Messages, NEW I
    PROVE  CellsOf(m) \subseteq I <=> Has(I, m) = 0 .. TotalCells(m) - 1
  BY DEF CellsOf, Has

\* insert of a cell that was not inserted before, into a store that is right.
LEMMA InsertOne ==
    ASSUME NEW F, NEW I, StoreOk(F, I), NEW c \in AllCells, c \notin I
    PROVE  /\ StoreOk(Inserted(F, c), I \cup {c})
           /\ Completes(F, c) <=> CellsOf(c.data.msg) \subseteq I \cup {c}
           /\ Completes(F, c) => Message(F, c) = Result(c.data.msg)
  <1> DEFINE m == c.data.msg
             T == TotalCells(m)
             J == I \cup {c}
             e == Entry(F, c)
             d == Stored(e, c)
  <1>1. m \in Messages /\ c \in CellsOf(m) /\ FragmentOk(m)
    BY CellOwner
  <1>2. /\ T \in Nat \ {0} /\ c.id = MessageId[m] /\ c.total = T
        /\ c.index \in 0 .. T - 1
    BY <1>1, CellFacts
  <1>3. /\ Has(J, m) = Has(I, m) \cup {c.index} /\ c.index \notin Has(I, m)
        /\ \A n \in Messages \ {m} : Has(J, n) = Has(I, n)
    BY HasAndCell
  <1>4. \A n \in Messages : MessageId[n] = MessageId[m] => n = m
    BY <1>1, DeliveryAssumption
  <1> HIDE DEF m, T, J, e, d
  <1>5. c.id \in DOMAIN F <=> Partial(I, m)
    BY <1>1, <1>2, <1>4 DEF StoreOk
  <1>6. GoodEntry(e, m) /\ DOMAIN e.fragments = Has(I, m)
    <2>1. CASE Partial(I, m)
      BY <1>1, <1>2, <1>5, <2>1 DEF e, Entry, StoreOk
    <2>2. CASE ~Partial(I, m)
      <3>1. Has(I, m) = {}
        BY <1>2, <1>3, <2>2 DEF Partial, T
      <3>2. e = [total |-> T, received |-> 0, fragments |-> Empty]
        BY <1>2, <1>5, <2>2 DEF e, Entry, NewPartial
      <3>3. DOMAIN Empty = {} /\ Empty = [i \in {} |-> Chunk(m, i)]
        BY DEF Empty
      <3>4. Cardinality({}) = 0
        BY FS_EmptySet
      <3>5. QED
        BY <3>1, <3>2, <3>3, <3>4 DEF GoodEntry, T
    <2>3. QED
      BY <2>1, <2>2
  <1>7. /\ GoodEntry(d, m)
        /\ DOMAIN d.fragments = Has(J, m)
        /\ d.received = T => DOMAIN d.fragments = 0 .. T - 1
    BY <1>1, <1>3, <1>6, StoredIsGood DEF d, T
  <1>8. ~Mismatched(F, c)
    BY <1>2, <1>6 DEF Mismatched, e, GoodEntry, T
  <1>9. Completes(F, c) <=> Has(J, m) = 0 .. T - 1
    <2>1. Completes(F, c) <=> d.received = T
      BY <1>7, <1>8 DEF Completes, d, e, GoodEntry, T
    <2>2. Cardinality(0 .. T - 1) = T
      BY <1>2, FS_Interval, SMT
    <2>3. Has(J, m) = 0 .. T - 1 => d.received = T
      BY <1>7, <2>2 DEF GoodEntry
    <2>4. QED
      BY <1>7, <2>1, <2>3
  <1>10. Completes(F, c) => Message(F, c) = Result(m)
    <2> SUFFICES ASSUME Completes(F, c) PROVE Message(F, c) = Result(m)
      OBVIOUS
    <2>1. d.fragments = [i \in 0 .. T - 1 |-> Chunk(m, i)]
      BY <1>7, <1>9 DEF GoodEntry
    <2>2. QED
      BY <1>2, <2>1 DEF Message, Result, d, e, T
  <1>11. \A n \in Messages \ {m} : Partial(J, n) <=> Partial(I, n)
    BY <1>3 DEF Partial
  <1>12. StoreOk(Inserted(F, c), J)
    <2>1. CASE Completes(F, c)
      <3>1. Inserted(F, c) = Remove(F, c.id)
        BY <1>8, <2>1 DEF Inserted
      <3>2. ~Partial(J, m)
        BY <1>9, <2>1 DEF Partial, T
      <3>3. /\ DOMAIN Remove(F, c.id) = DOMAIN F \ {c.id}
            /\ \A x \in DOMAIN F \ {c.id} : Remove(F, c.id)[x] = F[x]
        BY DEF Remove
      <3>4. DOMAIN Remove(F, c.id) = {MessageId[n] : n \in {k \in Messages : Partial(J, k)}}
        BY <1>2, <1>4, <1>11, <3>2, <3>3 DEF StoreOk
      <3>5. ASSUME NEW n \in Messages, Partial(J, n)
            PROVE  /\ GoodEntry(Remove(F, c.id)[MessageId[n]], n)
                   /\ DOMAIN Remove(F, c.id)[MessageId[n]].fragments = Has(J, n)
        <4>1. n # m /\ Partial(I, n) /\ MessageId[n] # c.id
          BY <1>2, <1>4, <1>11, <3>2, <3>5
        <4>2. Remove(F, c.id)[MessageId[n]] = F[MessageId[n]]
          BY <3>3, <4>1 DEF StoreOk
        <4>3. QED
          BY <1>3, <4>1, <4>2 DEF StoreOk
      <3>6. QED
        BY <3>1, <3>4, <3>5 DEF StoreOk
    <2>2. CASE ~Completes(F, c)
      <3>1. Inserted(F, c) = Put(F, c.id, d)
        BY <1>8, <2>2 DEF Inserted, d, e
      <3>2. Partial(J, m)
        BY <1>3, <1>9, <2>2 DEF Partial, T
      <3>3. /\ DOMAIN Put(F, c.id, d) = DOMAIN F \cup {c.id}
            /\ Put(F, c.id, d)[c.id] = d
            /\ \A x \in DOMAIN F : x # c.id => Put(F, c.id, d)[x] = F[x]
        BY DEF Put
      <3>4. DOMAIN Put(F, c.id, d) = {MessageId[n] : n \in {k \in Messages : Partial(J, k)}}
        BY <1>1, <1>2, <1>4, <1>11, <3>2, <3>3 DEF StoreOk
      <3>5. ASSUME NEW n \in Messages, Partial(J, n)
            PROVE  /\ GoodEntry(Put(F, c.id, d)[MessageId[n]], n)
                   /\ DOMAIN Put(F, c.id, d)[MessageId[n]].fragments = Has(J, n)
        <4>1. CASE n = m
          BY <1>2, <1>7, <3>3, <4>1
        <4>2. CASE n # m
          <5>1. Partial(I, n) /\ MessageId[n] # c.id
            BY <1>2, <1>4, <1>11, <3>5, <4>2
          <5>2. Put(F, c.id, d)[MessageId[n]] = F[MessageId[n]]
            BY <3>3, <5>1 DEF StoreOk
          <5>3. QED
            BY <1>3, <4>2, <5>1, <5>2 DEF StoreOk
        <4>3. QED
          BY <4>1, <4>2
      <3>6. QED
        BY <3>1, <3>4, <3>5 DEF StoreOk
    <2>3. QED
      BY <2>1, <2>2
  <1>13. CellsOf(m) \subseteq J <=> Has(J, m) = 0 .. T - 1
    BY <1>1, HasAll DEF T
  <1>14. QED
    BY <1>9, <1>10, <1>12, <1>13 DEF m, J

------------------------------------------------------------------------------
(***************************************************************************)
(* The inductive invariant.  A cell is at one site at a time, once: in a   *)
(* channel, a mailbox, a reply, among the gathered cells or in a           *)
(* Reassembler.  Only the cells for a receiver get past its replies, and   *)
(* its Reassembler and its outputs are what the inserted cells make them.  *)
(***************************************************************************)
Polling == {"connect", "request", "reply"}

Results == {Result(m) : m \in Messages}

Types ==
    /\ exited \subseteq AllCells
    /\ channel \in [Relays -> Seq(AllCells)]
    /\ mailbox \in [Relays -> Seq(AllCells)]
    /\ phase \in [Receivers -> Polling \cup {"idle", "insert"}]
    /\ todo \in [Receivers -> Seq(Relays)]
    /\ reply \in [Receivers -> Seq(AllCells)]
    /\ gathered \in [Receivers -> Seq(AllCells)]
    /\ inFlight = [p \in Receivers |-> inFlight[p]]
    /\ outputs \in [Receivers -> Seq(Results)]
    /\ inserted \in [Receivers -> SUBSET AllCells]
    /\ orphans \in [Relays -> Nat]
    /\ fails \in 0 .. MaxFails

Control == \A p \in Receivers : /\ todo[p] # <<>> <=> phase[p] \in Polling
                                /\ phase[p] # "reply" => reply[p] = <<>>

Sites == ({"channel", "mailbox"} \X Relays)
           \cup ({"reply", "gathered", "inserted"} \X Receivers)

Site(k) == CASE k[1] = "channel"  -> Elems(channel[k[2]])
             [] k[1] = "mailbox"  -> Elems(mailbox[k[2]])
             [] k[1] = "reply"    -> Elems(reply[k[2]])
             [] k[1] = "gathered" -> Elems(gathered[k[2]])
             [] k[1] = "inserted" -> inserted[k[2]]

Known == \A k \in Sites : Site(k) \subseteq exited

Apart == \A k, l \in Sites : k # l => Site(k) \cap Site(l) = {}

NoRepeats == /\ \A r \in Relays : Distinct(channel[r]) /\ Distinct(mailbox[r])
             /\ \A p \in Receivers : Distinct(reply[p]) /\ Distinct(gathered[p])

OwnOnly == \A p \in Receivers : Elems(gathered[p]) \subseteq Own(p) /\ inserted[p] \subseteq Own(p)

Stores == \A p \in Receivers : StoreOk(inFlight[p], inserted[p])

OwnResults == \A p \in Receivers : \A i \in DOMAIN outputs[p] :
                  \E m \in Messages : /\ Recipient[m] = p /\ Kind[m] = "data"
                                      /\ outputs[p][i] = Result(m)

IInv == /\ Types /\ Control
        /\ Known /\ Apart /\ NoRepeats
        /\ OwnOnly /\ Stores /\ OwnResults

\* The sites one by one.
LEMMA SiteIs ==
    /\ \A r \in Relays : /\ <<"channel", r>> \in Sites /\ <<"mailbox", r>> \in Sites
                         /\ Site(<<"channel", r>>) = Elems(channel[r])
                         /\ Site(<<"mailbox", r>>) = Elems(mailbox[r])
    /\ \A p \in Receivers : /\ <<"reply", p>> \in Sites /\ <<"gathered", p>> \in Sites
                            /\ <<"inserted", p>> \in Sites
                            /\ Site(<<"reply", p>>) = Elems(reply[p])
                            /\ Site(<<"gathered", p>>) = Elems(gathered[p])
                            /\ Site(<<"inserted", p>>) = inserted[p]
  BY DEF Sites, Site

\* The sites after a step, one by one.
LEMMA SiteIsNext ==
    ASSUME NEW k
    PROVE  /\ \A r \in Relays : /\ k = <<"channel", r>> => Site(k)' = Elems(channel'[r])
                                /\ k = <<"mailbox", r>> => Site(k)' = Elems(mailbox'[r])
           /\ \A p \in Receivers : /\ k = <<"reply", p>> => Site(k)' = Elems(reply'[p])
                                   /\ k = <<"gathered", p>> => Site(k)' = Elems(gathered'[p])
                                   /\ k = <<"inserted", p>> => Site(k)' = inserted'[p]
  BY DEF Site, Elems

\* There are no other sites.
LEMMA SiteCases ==
    ASSUME NEW k \in Sites
    PROVE  \/ \E r \in Relays : k = <<"channel", r>> \/ k = <<"mailbox", r>>
           \/ \E p \in Receivers : \/ k = <<"reply", p>> \/ k = <<"gathered", p>>
                                   \/ k = <<"inserted", p>>
  BY DEF Sites

(***************************************************************************)
(* The cells of X come to site k and leave the others; nothing else comes  *)
(* to any site.                                                            *)
(***************************************************************************)
Comes(X, k) ==
    /\ \A r \in Relays :
           /\ IF k = <<"channel", r>> THEN Elems(channel'[r]) \subseteq Elems(channel[r]) \cup X
              ELSE Elems(channel'[r]) \subseteq Elems(channel[r]) \ X
           /\ IF k = <<"mailbox", r>> THEN Elems(mailbox'[r]) \subseteq Elems(mailbox[r]) \cup X
              ELSE Elems(mailbox'[r]) \subseteq Elems(mailbox[r]) \ X
    /\ \A p \in Receivers :
           /\ IF k = <<"reply", p>> THEN Elems(reply'[p]) \subseteq Elems(reply[p]) \cup X
              ELSE Elems(reply'[p]) \subseteq Elems(reply[p]) \ X
           /\ IF k = <<"gathered", p>> THEN Elems(gathered'[p]) \subseteq Elems(gathered[p]) \cup X
              ELSE Elems(gathered'[p]) \subseteq Elems(gathered[p]) \ X
           /\ IF k = <<"inserted", p>> THEN inserted'[p] \subseteq inserted[p] \cup X
              ELSE inserted'[p] \subseteq inserted[p] \ X

\* A step that only moves cells of X keeps the sites apart.
LEMMA SitesMove ==
    ASSUME Known, Apart, NEW X, NEW k, Comes(X, k),
           exited \subseteq exited', X \subseteq exited'
    PROVE  Known' /\ Apart'
  <1>1. ASSUME NEW l \in Sites
        PROVE  IF l = k THEN Site(l)' \subseteq Site(l) \cup X ELSE Site(l)' \subseteq Site(l) \ X
    <2>1. ASSUME NEW r \in Relays, l = <<"channel", r>> \/ l = <<"mailbox", r>>
          PROVE  IF l = k THEN Site(l)' \subseteq Site(l) \cup X ELSE Site(l)' \subseteq Site(l) \ X
      <3>1. \/ /\ l = <<"channel", r>> /\ Site(l)' = Elems(channel'[r])
               /\ Site(l) = Elems(channel[r])
            \/ /\ l = <<"mailbox", r>> /\ Site(l)' = Elems(mailbox'[r])
               /\ Site(l) = Elems(mailbox[r])
        BY <2>1, SiteIs, SiteIsNext
      <3>2. QED
        BY <3>1 DEF Comes
    <2>2. ASSUME NEW p \in Receivers, l = <<"reply", p>> \/ l = <<"gathered", p>> \/ l = <<"inserted", p>>
          PROVE  IF l = k THEN Site(l)' \subseteq Site(l) \cup X ELSE Site(l)' \subseteq Site(l) \ X
      <3>1. \/ /\ l = <<"reply", p>> /\ Site(l)' = Elems(reply'[p])
               /\ Site(l) = Elems(reply[p])
            \/ /\ l = <<"gathered", p>> /\ Site(l)' = Elems(gathered'[p])
               /\ Site(l) = Elems(gathered[p])
            \/ /\ l = <<"inserted", p>> /\ Site(l)' = inserted'[p]
               /\ Site(l) = inserted[p]
        BY <2>2, SiteIs, SiteIsNext
      <3>2. QED
        BY <3>1 DEF Comes
    <2>3. QED
      BY <2>1, <2>2, SiteCases
  <1>2. Known'
    BY <1>1 DEF Known
  <1>3. Apart'
    BY <1>1 DEF Apart
  <1>4. QED
    BY <1>2, <1>3

\* Which sites are apart, for use.
LEMMA ApartFacts ==
    ASSUME Apart
    PROVE  /\ \A r, s \in Relays :
                  /\ r # s => Elems(channel[r]) \cap Elems(channel[s]) = {}
                  /\ r # s => Elems(mailbox[r]) \cap Elems(mailbox[s]) = {}
                  /\ Elems(channel[r]) \cap Elems(mailbox[s]) = {}
           /\ \A r \in Relays, p \in Receivers :
                  /\ Elems(channel[r]) \cap Elems(reply[p]) = {}
                  /\ Elems(channel[r]) \cap Elems(gathered[p]) = {}
                  /\ Elems(channel[r]) \cap inserted[p] = {}
                  /\ Elems(mailbox[r]) \cap Elems(reply[p]) = {}
                  /\ Elems(mailbox[r]) \cap Elems(gathered[p]) = {}
                  /\ Elems(mailbox[r]) \cap inserted[p] = {}
           /\ \A p, q \in Receivers :
                  /\ p # q => Elems(reply[p]) \cap Elems(reply[q]) = {}
                  /\ p # q => Elems(gathered[p]) \cap Elems(gathered[q]) = {}
                  /\ p # q => inserted[p] \cap inserted[q] = {}
                  /\ Elems(reply[p]) \cap Elems(gathered[q]) = {}
                  /\ Elems(reply[p]) \cap inserted[q] = {}
                  /\ Elems(gathered[p]) \cap inserted[q] = {}
  <1>1. \A r, s \in Relays : /\ r # s => <<"channel", r>> # <<"channel", s>>
                             /\ r # s => <<"mailbox", r>> # <<"mailbox", s>>
                             /\ <<"channel", r>> # <<"mailbox", s>>
    OBVIOUS
  <1>2. \A r \in Relays, p \in Receivers :
            /\ <<"channel", r>> # <<"reply", p>> /\ <<"channel", r>> # <<"gathered", p>>
            /\ <<"channel", r>> # <<"inserted", p>> /\ <<"mailbox", r>> # <<"reply", p>>
            /\ <<"mailbox", r>> # <<"gathered", p>> /\ <<"mailbox", r>> # <<"inserted", p>>
    OBVIOUS
  <1>3. \A p, q \in Receivers :
            /\ p # q => <<"reply", p>> # <<"reply", q>>
            /\ p # q => <<"gathered", p>> # <<"gathered", q>>
            /\ p # q => <<"inserted", p>> # <<"inserted", q>>
            /\ <<"reply", p>> # <<"gathered", q>> /\ <<"reply", p>> # <<"inserted", q>>
            /\ <<"gathered", p>> # <<"inserted", q>>
    OBVIOUS
  <1>4. /\ \A r, s \in Relays :
               /\ r # s => Elems(channel[r]) \cap Elems(channel[s]) = {}
               /\ r # s => Elems(mailbox[r]) \cap Elems(mailbox[s]) = {}
               /\ Elems(channel[r]) \cap Elems(mailbox[s]) = {}
    BY <1>1, SiteIs DEF Apart
  <1>5. \A r \in Relays, p \in Receivers :
               /\ Elems(channel[r]) \cap Elems(reply[p]) = {}
               /\ Elems(channel[r]) \cap Elems(gathered[p]) = {}
               /\ Elems(channel[r]) \cap inserted[p] = {}
               /\ Elems(mailbox[r]) \cap Elems(reply[p]) = {}
               /\ Elems(mailbox[r]) \cap Elems(gathered[p]) = {}
               /\ Elems(mailbox[r]) \cap inserted[p] = {}
    BY <1>2, SiteIs DEF Apart
  <1>6. \A p, q \in Receivers :
               /\ p # q => Elems(reply[p]) \cap Elems(reply[q]) = {}
               /\ p # q => Elems(gathered[p]) \cap Elems(gathered[q]) = {}
               /\ p # q => inserted[p] \cap inserted[q] = {}
               /\ Elems(reply[p]) \cap Elems(gathered[q]) = {}
               /\ Elems(reply[p]) \cap inserted[q] = {}
               /\ Elems(gathered[p]) \cap inserted[q] = {}
    BY <1>3, SiteIs DEF Apart
  <1>7. QED
    BY <1>4, <1>5, <1>6

\* Nothing is anywhere that has not left the fabric.
LEMMA KnownFacts ==
    ASSUME Known
    PROVE  /\ \A r \in Relays : Elems(channel[r]) \subseteq exited /\ Elems(mailbox[r]) \subseteq exited
           /\ \A p \in Receivers : /\ Elems(reply[p]) \subseteq exited
                                   /\ Elems(gathered[p]) \subseteq exited
                                   /\ inserted[p] \subseteq exited
  BY SiteIs DEF Known

\* At the start there are no cells.
LEMMA InitInv == Init => IInv
  <1> SUFFICES ASSUME Init PROVE IInv
    OBVIOUS
  <1>1. Types
    BY DeliveryAssumption DEF Init, Types, Polling
  <1>2. Control
    BY DEF Init, Control, Polling
  <1>3. /\ \A r \in Relays : Elems(channel[r]) = {} /\ Elems(mailbox[r]) = {}
        /\ \A p \in Receivers : Elems(reply[p]) = {} /\ Elems(gathered[p]) = {} /\ inserted[p] = {}
    BY ElemsEmpty DEF Init
  <1>4. \A k \in Sites : Site(k) = {}
    BY <1>3, SiteIs, SiteCases
  <1>5. Known /\ Apart
    BY <1>4 DEF Known, Apart
  <1>6. NoRepeats
    BY ElemsEmpty DEF Init, NoRepeats
  <1>7. OwnOnly
    BY <1>3 DEF OwnOnly
  <1>8. Stores
    <2>1. \A m \in Messages : Has({}, m) = {} /\ ~Partial({}, m)
      BY DEF Has, Partial
    <2>2. DOMAIN Empty = {}
      BY DEF Empty
    <2>3. StoreOk(Empty, {})
      BY <2>1, <2>2 DEF StoreOk
    <2>4. QED
      BY <2>3 DEF Init, Stores
  <1>9. OwnResults
    BY DEF Init, OwnResults
  <1>10. QED
    BY <1>1, <1>2, <1>5, <1>6, <1>7, <1>8, <1>9 DEF IInv

\* Steps outside the Reassemblers.
LEMMA SameStores ==
    ASSUME IInv, UNCHANGED storeVars,
           \A p \in Receivers : Elems(gathered'[p]) \subseteq Elems(gathered[p]) \cup Own(p)
    PROVE  OwnOnly' /\ Stores' /\ OwnResults'
  BY DEF IInv, storeVars, OwnOnly, Stores, OwnResults, Elems

\* Steps that only make sites smaller.
LEMMA SitesShrink ==
    ASSUME IInv, exited' = exited, inserted' = inserted,
           \A r \in Relays : /\ channel'[r] = channel[r] \/ channel'[r] = <<>>
                             /\ mailbox'[r] = mailbox[r] \/ mailbox'[r] = <<>>,
           \A p \in Receivers : /\ reply'[p] = reply[p] \/ reply'[p] = <<>>
                                /\ gathered'[p] = gathered[p] \/ gathered'[p] = <<>>
    PROVE  Known' /\ Apart' /\ NoRepeats'
  <1>1. /\ \A r \in Relays : /\ Elems(channel'[r]) \subseteq Elems(channel[r])
                             /\ Elems(mailbox'[r]) \subseteq Elems(mailbox[r])
        /\ \A p \in Receivers : /\ Elems(reply'[p]) \subseteq Elems(reply[p])
                                /\ Elems(gathered'[p]) \subseteq Elems(gathered[p])
    BY ElemsEmpty
  <1>2. Comes({}, <<>>)
    BY <1>1 DEF Comes
  <1>3. Known' /\ Apart'
    BY <1>2, SitesMove DEF IInv
  <1>4. \A r \in Relays : Distinct(channel'[r]) /\ Distinct(mailbox'[r])
    BY ElemsEmpty DEF IInv, NoRepeats
  <1>5. \A p \in Receivers : Distinct(reply'[p]) /\ Distinct(gathered'[p])
    BY ElemsEmpty DEF IInv, NoRepeats
  <1>6. QED
    BY <1>3, <1>4, <1>5 DEF NoRepeats, Distinct

\* A cell leaves its circuit.
LEMMA ExitInv ==
    ASSUME IInv, NEW c \in AllCells, NEW r \in Relays, Exit(c, r)
    PROVE  IInv'
  <1>1. /\ c \notin exited /\ exited' = exited \cup {c}
        /\ channel' = [channel EXCEPT ![r] = Append(@, c)]
        /\ UNCHANGED <<mailbox, orphans, phase, todo, reply, gathered,
                       inFlight, outputs, inserted, fails>>
    BY DEF Exit, pollVars, storeVars
  <1>2. channel \in [Relays -> Seq(AllCells)] /\ channel[r] \in Seq(AllCells)
    BY DEF IInv, Types
  <1>3. channel'[r] = Append(channel[r], c) /\ \A s \in Relays \ {r} : channel'[s] = channel[s]
    BY <1>1, <1>2
  <1>4. /\ channel'[r] \in Seq(AllCells)
        /\ Elems(channel'[r]) = Elems(channel[r]) \cup {c}
        /\ Distinct(channel[r]) /\ c \notin Elems(channel[r]) => Distinct(channel'[r])
    BY <1>2, <1>3, ElemsAppend
  <1>5. Types' /\ Control'
    BY <1>1, <1>2, <1>4 DEF IInv, Types, Control
  <1>6. /\ \A s \in Relays : c \notin Elems(channel[s]) /\ c \notin Elems(mailbox[s])
        /\ \A p \in Receivers : /\ c \notin Elems(reply[p]) /\ c \notin Elems(gathered[p])
                                /\ c \notin inserted[p]
    BY <1>1, KnownFacts DEF IInv
  <1>7. Comes({c}, <<"channel", r>>)
    BY <1>1, <1>3, <1>4, <1>6 DEF Comes
  <1>8. Known' /\ Apart'
    BY <1>1, <1>7, SitesMove DEF IInv
  <1>9. NoRepeats'
    <2>1. \A s \in Relays : Distinct(channel'[s]) /\ Distinct(mailbox'[s])
      BY <1>1, <1>3, <1>4, <1>6 DEF IInv, NoRepeats
    <2>2. QED
      BY <1>1, <2>1 DEF IInv, NoRepeats, Distinct
  <1>10. QED
    BY <1>1, <1>5, <1>8, <1>9, SameStores DEF IInv, storeVars

\* The task of main.rs moves a cell to the mailbox.
LEMMA PumpInv ==
    ASSUME IInv, NEW r \in Relays, Pump(r)
    PROVE  IInv'
  <1> DEFINE c == Head(channel[r])
  <1>1. /\ channel[r] # <<>>
        /\ channel' = [channel EXCEPT ![r] = Tail(@)]
        /\ mailbox' = [mailbox EXCEPT ![r] = Append(@, c)]
        /\ UNCHANGED <<exited, orphans, phase, todo, reply, gathered,
                       inFlight, outputs, inserted, fails>>
    BY DEF Pump, pollVars, storeVars
  <1>2. /\ channel \in [Relays -> Seq(AllCells)] /\ channel[r] \in Seq(AllCells)
        /\ mailbox \in [Relays -> Seq(AllCells)] /\ mailbox[r] \in Seq(AllCells)
    BY DEF IInv, Types
  <1>3. /\ channel'[r] = Tail(channel[r]) /\ \A s \in Relays \ {r} : channel'[s] = channel[s]
        /\ mailbox'[r] = Append(mailbox[r], c) /\ \A s \in Relays \ {r} : mailbox'[s] = mailbox[s]
    BY <1>1, <1>2
  <1>4. /\ Tail(channel[r]) \in Seq(AllCells) /\ c \in AllCells
        /\ Elems(channel[r]) = Elems(Tail(channel[r])) \cup {c}
        /\ c \notin Elems(Tail(channel[r])) /\ Distinct(Tail(channel[r]))
    BY <1>1, <1>2, ElemsTail DEF IInv, NoRepeats
  <1> HIDE DEF c
  <1>5. /\ mailbox'[r] \in Seq(AllCells)
        /\ Elems(mailbox'[r]) = Elems(mailbox[r]) \cup {c}
        /\ Distinct(mailbox[r]) /\ c \notin Elems(mailbox[r]) => Distinct(mailbox'[r])
    BY <1>2, <1>3, <1>4, ElemsAppend
  <1>6. Types' /\ Control'
    <2>1. channel' \in [Relays -> Seq(AllCells)] /\ mailbox' \in [Relays -> Seq(AllCells)]
      BY <1>1, <1>2, <1>3, <1>4, <1>5
    <2>2. QED
      BY <1>1, <2>1 DEF IInv, Types, Control
  <1>7. /\ \A s \in Relays : c \notin Elems(mailbox[s]) /\ (s # r => c \notin Elems(channel[s]))
        /\ \A p \in Receivers : /\ c \notin Elems(reply[p]) /\ c \notin Elems(gathered[p])
                                /\ c \notin inserted[p]
        /\ c \in exited
    BY <1>4, ApartFacts, KnownFacts DEF IInv
  <1>8. Comes({c}, <<"mailbox", r>>)
    BY <1>1, <1>3, <1>4, <1>5, <1>7 DEF Comes
  <1>9. Known' /\ Apart'
    BY <1>1, <1>7, <1>8, SitesMove DEF IInv
  <1>10. NoRepeats'
    <2>1. \A s \in Relays : Distinct(channel'[s]) /\ Distinct(mailbox'[s])
      BY <1>3, <1>4, <1>5, <1>7 DEF IInv, NoRepeats
    <2>2. QED
      BY <1>1, <2>1 DEF IInv, NoRepeats, Distinct
  <1>11. QED
    BY <1>1, <1>6, <1>9, <1>10, SameStores DEF IInv, storeVars

\* Steps of poll that move no cell.
LEMMA PhaseInv ==
    ASSUME IInv, NEW p \in Receivers, NEW addrs \in Seq(Relays),
           PollStarts(p, addrs) \/ Request(p) \/ PollReturns(p)
    PROVE  IInv'
  <1>1. UNCHANGED <<exited, channel, mailbox, orphans, reply, gathered,
                    inFlight, outputs, inserted, fails>>
    BY DEF PollStarts, Request, PollReturns, relayVars, storeVars
  <1>2. phase \in [Receivers -> Polling \cup {"idle", "insert"}] /\ todo \in [Receivers -> Seq(Relays)]
    BY DEF IInv, Types
  <1>3. /\ phase' \in [Receivers -> Polling \cup {"idle", "insert"}]
        /\ todo' \in [Receivers -> Seq(Relays)]
        /\ \A q \in Receivers \ {p} : phase'[q] = phase[q] /\ todo'[q] = todo[q]
        /\ todo'[p] # <<>> <=> phase'[p] \in Polling
        /\ phase[p] # "reply"
    <2>1. CASE PollStarts(p, addrs)
      BY <1>2, <2>1 DEF PollStarts, Loop, Polling
    <2>2. CASE Request(p)
      BY <1>2, <2>2 DEF Request, Polling, IInv, Control
    <2>3. CASE PollReturns(p)
      BY <1>2, <2>3 DEF PollReturns, Polling, IInv, Control
    <2>4. QED
      BY <2>1, <2>2, <2>3
  <1>4. Types' /\ Control'
    BY <1>1, <1>3 DEF IInv, Types, Control
  <1>5. Known' /\ Apart' /\ NoRepeats'
    BY <1>1, SitesShrink
  <1>6. QED
    BY <1>1, <1>4, <1>5, SameStores DEF IInv, storeVars

\* A relay empties its mailbox into the reply to p.
LEMMA DrainInv ==
    ASSUME IInv, NEW p \in Receivers, Drain(p)
    PROVE  IInv'
  <1> DEFINE r == Polled(p)
  <1>1. /\ phase[p] = "request"
        /\ reply' = [reply EXCEPT ![p] = mailbox[r]]
        /\ mailbox' = [mailbox EXCEPT ![r] = <<>>]
        /\ phase' = [phase EXCEPT ![p] = "reply"]
        /\ UNCHANGED <<exited, channel, orphans, todo, gathered,
                       inFlight, outputs, inserted, fails>>
    BY DEF Drain, storeVars
  <1>2. r \in Relays
    <2>1. todo[p] \in Seq(Relays) /\ todo[p] # <<>>
      BY <1>1 DEF IInv, Types, Control, Polling
    <2>2. QED
      BY <2>1 DEF Polled
  <1>3. reply[p] = <<>>
    BY <1>1 DEF IInv, Control
  <1>4. /\ mailbox \in [Relays -> Seq(AllCells)] /\ reply \in [Receivers -> Seq(AllCells)]
        /\ phase \in [Receivers -> Polling \cup {"idle", "insert"}]
    BY DEF IInv, Types
  <1> HIDE DEF r
  <1>5. /\ reply'[p] = mailbox[r] /\ \A q \in Receivers \ {p} : reply'[q] = reply[q]
        /\ mailbox'[r] = <<>> /\ \A s \in Relays \ {r} : mailbox'[s] = mailbox[s]
        /\ phase'[p] = "reply" /\ \A q \in Receivers \ {p} : phase'[q] = phase[q]
    BY <1>1, <1>2, <1>4
  <1>6. Types' /\ Control'
    <2>1. /\ mailbox' \in [Relays -> Seq(AllCells)] /\ reply' \in [Receivers -> Seq(AllCells)]
          /\ phase' \in [Receivers -> Polling \cup {"idle", "insert"}]
      BY <1>1, <1>2, <1>4 DEF Polling
    <2>2. Control'
      BY <1>1, <1>5 DEF IInv, Control, Polling
    <2>3. QED
      BY <1>1, <2>1, <2>2 DEF IInv, Types
  <1>7. /\ \A s \in Relays \ {r} : Elems(mailbox[s]) \cap Elems(mailbox[r]) = {}
        /\ \A s \in Relays : Elems(channel[s]) \cap Elems(mailbox[r]) = {}
        /\ \A q \in Receivers : /\ Elems(reply[q]) \cap Elems(mailbox[r]) = {}
                                /\ Elems(gathered[q]) \cap Elems(mailbox[r]) = {}
                                /\ inserted[q] \cap Elems(mailbox[r]) = {}
        /\ Elems(mailbox[r]) \subseteq exited
    BY <1>2, ApartFacts, KnownFacts DEF IInv
  <1>8. Elems(mailbox'[r]) = {} /\ Elems(reply'[p]) = Elems(mailbox[r])
    BY <1>5, ElemsEmpty
  <1>9. Comes(Elems(mailbox[r]), <<"reply", p>>)
    BY <1>1, <1>5, <1>7, <1>8 DEF Comes
  <1>10. Known' /\ Apart'
    BY <1>1, <1>7, <1>9, SitesMove DEF IInv
  <1>11. NoRepeats'
    <2>1. \A s \in Relays : Distinct(channel'[s]) /\ Distinct(mailbox'[s])
      BY <1>1, <1>5, ElemsEmpty DEF IInv, NoRepeats
    <2>2. \A q \in Receivers : Distinct(reply'[q]) /\ Distinct(gathered'[q])
      BY <1>1, <1>2, <1>5 DEF IInv, NoRepeats
    <2>3. QED
      BY <2>1, <2>2 DEF NoRepeats, Distinct
  <1>12. QED
    BY <1>1, <1>6, <1>10, <1>11, SameStores DEF IInv, storeVars

\* p keeps the cells of a reply that it can open.
LEMMA PullReturnsInv ==
    ASSUME IInv, NEW p \in Receivers, PullReturns(p)
    PROVE  IInv'
  <1> DEFINE D == Decrypted(p)
             X == Elems(reply[p]) \cap Own(p)
  <1>1. /\ phase[p] = "reply"
        /\ gathered' = [gathered EXCEPT ![p] = @ \o D]
        /\ reply' = [reply EXCEPT ![p] = <<>>]
        /\ todo' = [todo EXCEPT ![p] = Tail(@)]
        /\ phase' = [phase EXCEPT ![p] = Loop(Tail(todo[p]))]
        /\ UNCHANGED <<exited, channel, mailbox, orphans, inFlight, outputs, inserted, fails>>
    BY DEF PullReturns, relayVars, storeVars
  <1>2. /\ reply \in [Receivers -> Seq(AllCells)] /\ gathered \in [Receivers -> Seq(AllCells)]
        /\ reply[p] \in Seq(AllCells) /\ gathered[p] \in Seq(AllCells)
        /\ todo \in [Receivers -> Seq(Relays)] /\ todo[p] \in Seq(Relays)
        /\ phase \in [Receivers -> Polling \cup {"idle", "insert"}]
    BY DEF IInv, Types
  <1>3. todo[p] # <<>>
    BY <1>1 DEF IInv, Control, Polling
  <1>4. Distinct(reply[p]) /\ Distinct(gathered[p])
    BY DEF IInv, NoRepeats
  <1>5. D \in Seq(AllCells) /\ Elems(D) = X /\ Distinct(D)
    BY <1>2, <1>4, DecryptedOwn
  <1> HIDE DEF D
  <1>6. /\ gathered'[p] = gathered[p] \o D
        /\ \A q \in Receivers \ {p} : gathered'[q] = gathered[q]
        /\ reply'[p] = <<>> /\ \A q \in Receivers \ {p} : reply'[q] = reply[q]
        /\ todo'[p] = Tail(todo[p]) /\ \A q \in Receivers \ {p} : todo'[q] = todo[q]
        /\ phase'[p] = Loop(Tail(todo[p])) /\ \A q \in Receivers \ {p} : phase'[q] = phase[q]
    BY <1>1, <1>2
  <1>7. /\ \A r \in Relays : /\ Elems(channel[r]) \cap Elems(reply[p]) = {}
                             /\ Elems(mailbox[r]) \cap Elems(reply[p]) = {}
        /\ \A q \in Receivers : /\ Elems(gathered[q]) \cap Elems(reply[p]) = {}
                                /\ inserted[q] \cap Elems(reply[p]) = {}
                                /\ q # p => Elems(reply[q]) \cap Elems(reply[p]) = {}
        /\ Elems(reply[p]) \subseteq exited
    BY ApartFacts, KnownFacts DEF IInv
  <1>8. /\ gathered'[p] \in Seq(AllCells)
        /\ Elems(gathered'[p]) = Elems(gathered[p]) \cup X
        /\ Distinct(gathered'[p])
    <2>1. Elems(gathered[p]) \cap Elems(D) = {}
      BY <1>5, <1>7
    <2>2. QED
      BY <1>2, <1>4, <1>5, <1>6, <2>1, ElemsConcat
  <1>9. Elems(reply'[p]) = {} /\ Distinct(reply'[p])
    BY <1>6, ElemsEmpty
  <1>10. Tail(todo[p]) \in Seq(Relays)
    BY <1>2, <1>3
  <1>11. Types' /\ Control'
    <2>1. /\ gathered' \in [Receivers -> Seq(AllCells)]
          /\ reply' \in [Receivers -> Seq(AllCells)]
      BY <1>1, <1>2, <1>6, <1>8
    <2>2. /\ todo' \in [Receivers -> Seq(Relays)]
          /\ phase' \in [Receivers -> Polling \cup {"idle", "insert"}]
      BY <1>1, <1>2, <1>10 DEF Loop, Polling
    <2>3. Control'
      BY <1>6 DEF IInv, Control, Polling, Loop
    <2>4. QED
      BY <1>1, <2>1, <2>2, <2>3 DEF IInv, Types
  <1> HIDE DEF X
  <1>12. X \subseteq Elems(reply[p]) /\ X \subseteq Own(p)
    BY DEF X
  <1>13. Comes(X, <<"gathered", p>>)
    BY <1>1, <1>6, <1>7, <1>8, <1>9, <1>12 DEF Comes
  <1>14. Known' /\ Apart'
    BY <1>1, <1>7, <1>12, <1>13, SitesMove DEF IInv
  <1>15. NoRepeats'
    <2>1. \A q \in Receivers : Distinct(reply'[q]) /\ Distinct(gathered'[q])
      BY <1>6, <1>8, <1>9 DEF IInv, NoRepeats
    <2>2. QED
      BY <1>1, <2>1 DEF IInv, NoRepeats, Distinct
  <1>16. \A q \in Receivers : Elems(gathered'[q]) \subseteq Elems(gathered[q]) \cup Own(q)
    BY <1>6, <1>8, <1>12
  <1>17. QED
    BY <1>1, <1>11, <1>14, <1>15, <1>16, SameStores DEF IInv, storeVars

\* A pull fails.
LEMMA PullFailsInv ==
    ASSUME IInv, NEW p \in Receivers, PullFails(p)
    PROVE  IInv'
  <1>1. /\ phase[p] \in {"connect", "request", "reply"}
        /\ fails < MaxFails /\ fails' = fails + 1
        /\ orphans' = IF phase[p] = "request" THEN [orphans EXCEPT ![Polled(p)] = @ + 1]
                                              ELSE orphans
        /\ phase' = [phase EXCEPT ![p] = "idle"]
        /\ todo' = [todo EXCEPT ![p] = <<>>]
        /\ reply' = [reply EXCEPT ![p] = <<>>]
        /\ gathered' = [gathered EXCEPT ![p] = <<>>]
        /\ UNCHANGED <<exited, channel, mailbox, inFlight, outputs, inserted>>
    BY DEF PullFails, storeVars
  <1>2. /\ reply \in [Receivers -> Seq(AllCells)] /\ gathered \in [Receivers -> Seq(AllCells)]
        /\ todo \in [Receivers -> Seq(Relays)] /\ todo[p] \in Seq(Relays)
        /\ phase \in [Receivers -> Polling \cup {"idle", "insert"}]
        /\ orphans \in [Relays -> Nat] /\ fails \in 0 .. MaxFails
    BY DEF IInv, Types
  <1>3. orphans' \in [Relays -> Nat]
    <2>1. todo[p] # <<>>
      BY <1>1 DEF IInv, Control, Polling
    <2>2. Polled(p) \in Relays
      BY <1>2, <2>1 DEF Polled
    <2>3. QED
      BY <1>1, <1>2, <2>2
  <1>4. fails' \in 0 .. MaxFails
    BY <1>1, <1>2, DeliveryAssumption
  <1>5. /\ reply' \in [Receivers -> Seq(AllCells)] /\ gathered' \in [Receivers -> Seq(AllCells)]
        /\ todo' \in [Receivers -> Seq(Relays)]
        /\ phase' \in [Receivers -> Polling \cup {"idle", "insert"}]
    BY <1>1, <1>2
  <1>6. \A q \in Receivers :
            IF q = p THEN /\ reply'[q] = <<>> /\ gathered'[q] = <<>>
                          /\ todo'[q] = <<>> /\ phase'[q] = "idle"
            ELSE /\ reply'[q] = reply[q] /\ gathered'[q] = gathered[q]
                 /\ todo'[q] = todo[q] /\ phase'[q] = phase[q]
    BY <1>1, <1>2
  <1>7. Types'
    BY <1>1, <1>3, <1>4, <1>5 DEF IInv, Types
  <1>8. Control'
    BY <1>6 DEF IInv, Control, Polling
  <1>9. Known' /\ Apart' /\ NoRepeats'
    BY <1>1, <1>6, SitesShrink
  <1>10. \A q \in Receivers : Elems(gathered'[q]) \subseteq Elems(gathered[q]) \cup Own(q)
    BY <1>6, ElemsEmpty
  <1>11. QED
    BY <1>1, <1>7, <1>8, <1>9, <1>10, SameStores DEF IInv, storeVars

\* A relay answers a client that is gone.
LEMMA OrphanDrainInv ==
    ASSUME IInv, NEW r \in Relays, OrphanDrain(r)
    PROVE  IInv'
  <1>1. /\ orphans[r] > 0 /\ orphans' = [orphans EXCEPT ![r] = @ - 1]
        /\ mailbox' = [mailbox EXCEPT ![r] = <<>>] \/ mailbox' = mailbox
        /\ UNCHANGED <<exited, channel, phase, todo, reply, gathered,
                       inFlight, outputs, inserted, fails>>
    BY DEF OrphanDrain, pollVars, storeVars
  <1>2. mailbox \in [Relays -> Seq(AllCells)]
    BY DEF IInv, Types
  <1>3. /\ mailbox' \in [Relays -> Seq(AllCells)]
        /\ \A s \in Relays : mailbox'[s] = mailbox[s] \/ mailbox'[s] = <<>>
    <2>1. CASE mailbox' = mailbox
      BY <1>2, <2>1
    <2>2. CASE mailbox' = [mailbox EXCEPT ![r] = <<>>]
      BY <1>2, <2>2
    <2>3. QED
      BY <1>1, <2>1, <2>2
  <1>4. orphans' \in [Relays -> Nat]
    <2>1. orphans \in [Relays -> Nat] /\ orphans[r] - 1 \in Nat
      BY <1>1 DEF IInv, Types
    <2>2. QED
      BY <1>1, <2>1
  <1>5. Types' /\ Control'
    BY <1>1, <1>3, <1>4 DEF IInv, Types, Control
  <1>6. Known' /\ Apart' /\ NoRepeats'
    BY <1>1, <1>3, SitesShrink
  <1>7. QED
    BY <1>1, <1>5, <1>6, SameStores DEF IInv, storeVars

\* A restart cuts off polls that wait for a reply or are reading one.
LEMMA RestartCuts ==
    ASSUME NEW r \in Relays, Restart(r)
    PROVE  \E Z \in SUBSET Receivers :
              /\ \A p \in Z : phase[p] \in {"request", "reply"}
              /\ phase' = [p \in Receivers |-> IF p \in Z THEN "idle" ELSE phase[p]]
              /\ todo' = [p \in Receivers |-> IF p \in Z THEN <<>> ELSE todo[p]]
              /\ reply' = [p \in Receivers |-> IF p \in Z THEN <<>> ELSE reply[p]]
              /\ gathered' = [p \in Receivers |-> IF p \in Z THEN <<>> ELSE gathered[p]]
  <1>1. PICK Z \in CutOff(r) :
              /\ phase' = [p \in Receivers |-> IF p \in Z THEN "idle" ELSE phase[p]]
              /\ todo' = [p \in Receivers |-> IF p \in Z THEN <<>> ELSE todo[p]]
              /\ reply' = [p \in Receivers |-> IF p \in Z THEN <<>> ELSE reply[p]]
              /\ gathered' = [p \in Receivers |-> IF p \in Z THEN <<>> ELSE gathered[p]]
    BY DEF Restart
  <1>2. Z \in SUBSET Receivers /\ \A p \in Z : phase[p] \in {"request", "reply"}
    BY DEF CutOff, PollsAt
  <1>3. QED
    BY <1>1, <1>2

\* A relay starts again.
LEMMA RestartInv ==
    ASSUME IInv, NEW r \in Relays, Restart(r)
    PROVE  IInv'
  <1>1. /\ fails < MaxFails /\ fails' = fails + 1
        /\ channel' = [channel EXCEPT ![r] = <<>>]
        /\ mailbox' = [mailbox EXCEPT ![r] = <<>>]
        /\ orphans' = [orphans EXCEPT ![r] = 0]
        /\ UNCHANGED <<exited, inFlight, outputs, inserted>>
    BY DEF Restart, storeVars
  <1>2. PICK Z \in SUBSET Receivers :
              /\ \A p \in Z : phase[p] \in {"request", "reply"}
              /\ phase' = [p \in Receivers |-> IF p \in Z THEN "idle" ELSE phase[p]]
              /\ todo' = [p \in Receivers |-> IF p \in Z THEN <<>> ELSE todo[p]]
              /\ reply' = [p \in Receivers |-> IF p \in Z THEN <<>> ELSE reply[p]]
              /\ gathered' = [p \in Receivers |-> IF p \in Z THEN <<>> ELSE gathered[p]]
    BY RestartCuts
  <1>3. /\ channel \in [Relays -> Seq(AllCells)] /\ mailbox \in [Relays -> Seq(AllCells)]
        /\ reply \in [Receivers -> Seq(AllCells)] /\ gathered \in [Receivers -> Seq(AllCells)]
        /\ todo \in [Receivers -> Seq(Relays)]
        /\ phase \in [Receivers -> Polling \cup {"idle", "insert"}]
        /\ orphans \in [Relays -> Nat] /\ fails \in 0 .. MaxFails
    BY DEF IInv, Types
  <1>4. fails' \in 0 .. MaxFails
    BY <1>1, <1>3, DeliveryAssumption
  <1>5. /\ channel' \in [Relays -> Seq(AllCells)] /\ mailbox' \in [Relays -> Seq(AllCells)]
        /\ \A s \in Relays : /\ channel'[s] = channel[s] \/ channel'[s] = <<>>
                             /\ mailbox'[s] = mailbox[s] \/ mailbox'[s] = <<>>
    BY <1>1, <1>3
  <1>6. \A q \in Receivers :
            IF q \in Z THEN /\ reply'[q] = <<>> /\ gathered'[q] = <<>>
                            /\ todo'[q] = <<>> /\ phase'[q] = "idle"
            ELSE /\ reply'[q] = reply[q] /\ gathered'[q] = gathered[q]
                 /\ todo'[q] = todo[q] /\ phase'[q] = phase[q]
    BY <1>2
  <1>7. /\ reply' \in [Receivers -> Seq(AllCells)] /\ gathered' \in [Receivers -> Seq(AllCells)]
        /\ todo' \in [Receivers -> Seq(Relays)]
        /\ phase' \in [Receivers -> Polling \cup {"idle", "insert"}]
        /\ orphans' \in [Relays -> Nat]
    BY <1>1, <1>2, <1>3
  <1>8. Types'
    BY <1>1, <1>4, <1>5, <1>7 DEF IInv, Types
  <1>9. Control'
    BY <1>1, <1>2, <1>6 DEF IInv, Control, Polling
  <1>10. Known' /\ Apart' /\ NoRepeats'
    BY <1>1, <1>5, <1>6, SitesShrink
  <1>11. \A q \in Receivers : Elems(gathered'[q]) \subseteq Elems(gathered[q]) \cup Own(q)
    BY <1>6, ElemsEmpty
  <1>12. QED
    BY <1>1, <1>8, <1>9, <1>10, <1>11, SameStores DEF IInv, storeVars

\* p inserts a cell.
LEMMA InsertNextInv ==
    ASSUME IInv, NEW p \in Receivers, InsertNext(p)
    PROVE  IInv'
  <1> DEFINE c == Head(gathered[p])
             F == inFlight[p]
             I == inserted[p]
  <1>1. /\ gathered[p] # <<>>
        /\ inFlight' = [inFlight EXCEPT ![p] = Inserted(F, c)]
        /\ outputs' = IF Completes(F, c) THEN [outputs EXCEPT ![p] = Append(@, Message(F, c))]
                      ELSE outputs
        /\ inserted' = [inserted EXCEPT ![p] = @ \cup {c}]
        /\ gathered' = [gathered EXCEPT ![p] = Tail(@)]
        /\ UNCHANGED <<exited, channel, mailbox, orphans, phase, todo, reply, fails>>
    BY DEF InsertNext, relayVars
  <1>2. /\ gathered \in [Receivers -> Seq(AllCells)] /\ gathered[p] \in Seq(AllCells)
        /\ inserted \in [Receivers -> SUBSET AllCells]
        /\ inFlight = [q \in Receivers |-> inFlight[q]]
        /\ outputs \in [Receivers -> Seq(Results)] /\ outputs[p] \in Seq(Results)
    BY DEF IInv, Types
  <1>3. /\ Tail(gathered[p]) \in Seq(AllCells) /\ c \in AllCells
        /\ Elems(gathered[p]) = Elems(Tail(gathered[p])) \cup {c}
        /\ c \notin Elems(Tail(gathered[p])) /\ Distinct(Tail(gathered[p]))
    BY <1>1, <1>2, ElemsTail DEF IInv, NoRepeats
  <1>4. c \in Own(p) /\ c.data.msg \in Messages
    BY <1>3, CellOwner DEF IInv, OwnOnly
  <1> HIDE DEF c
  <1>5. /\ \A r \in Relays : c \notin Elems(channel[r]) /\ c \notin Elems(mailbox[r])
        /\ \A q \in Receivers : /\ c \notin Elems(reply[q]) /\ c \notin inserted[q]
                                /\ q # p => c \notin Elems(gathered[q])
        /\ c \in exited
    BY <1>3, ApartFacts, KnownFacts DEF IInv
  <1>6. /\ StoreOk(Inserted(F, c), I \cup {c})
        /\ Completes(F, c) => Message(F, c) = Result(c.data.msg)
    <2>1. StoreOk(F, I) /\ c \notin I
      BY <1>5 DEF IInv, Stores
    <2> HIDE DEF F, I
    <2>2. QED
      BY <1>3, <2>1, InsertOne
  <1>7. /\ gathered'[p] = Tail(gathered[p])
        /\ \A q \in Receivers \ {p} : gathered'[q] = gathered[q]
        /\ inserted'[p] = I \cup {c} /\ \A q \in Receivers \ {p} : inserted'[q] = inserted[q]
    BY <1>1, <1>2
  <1>8. /\ inFlight' = [q \in Receivers |-> inFlight'[q]]
        /\ inFlight'[p] = Inserted(F, c) /\ \A q \in Receivers \ {p} : inFlight'[q] = inFlight[q]
    <2> HIDE DEF F
    <2>1. QED
      BY <1>1, <1>2
  <1>9. /\ outputs' \in [Receivers -> Seq(Results)]
        /\ \A q \in Receivers \ {p} : outputs'[q] = outputs[q]
        /\ outputs'[p] = outputs[p] \/ outputs'[p] = Append(outputs[p], Result(c.data.msg))
    <2>1. Result(c.data.msg) \in Results
      BY <1>4 DEF Results
    <2> HIDE DEF F
    <2>2. QED
      BY <1>1, <1>2, <1>6, <2>1
  <1>10. Types' /\ Control'
    <2>1. gathered' \in [Receivers -> Seq(AllCells)] /\ inserted' \in [Receivers -> SUBSET AllCells]
      BY <1>1, <1>2, <1>3
    <2>2. QED
      BY <1>1, <1>8, <1>9, <2>1 DEF IInv, Types, Control
  <1>11. Comes({c}, <<"inserted", p>>)
    BY <1>1, <1>3, <1>5, <1>7 DEF Comes
  <1>12. Known' /\ Apart'
    BY <1>1, <1>5, <1>11, SitesMove DEF IInv
  <1>13. NoRepeats'
    <2>1. \A q \in Receivers : Distinct(reply'[q]) /\ Distinct(gathered'[q])
      BY <1>1, <1>3, <1>7 DEF IInv, NoRepeats
    <2>2. QED
      BY <1>1, <2>1 DEF IInv, NoRepeats, Distinct
  <1>14. OwnOnly'
    <2>1. \A q \in Receivers : Elems(gathered'[q]) \subseteq Own(q) /\ inserted'[q] \subseteq Own(q)
      BY <1>3, <1>4, <1>7 DEF IInv, OwnOnly
    <2>2. QED
      BY <2>1 DEF OwnOnly, Elems
  <1>15. Stores'
    BY <1>6, <1>7, <1>8 DEF IInv, Stores
  <1>16. OwnResults'
    <2>1. ASSUME NEW i \in DOMAIN outputs'[p]
          PROVE  \E m \in Messages : /\ Recipient[m] = p /\ Kind[m] = "data"
                                     /\ outputs'[p][i] = Result(m)
      <3>1. CASE i \in DOMAIN outputs[p] /\ outputs'[p][i] = outputs[p][i]
        BY <3>1 DEF IInv, OwnResults
      <3>2. CASE outputs'[p][i] = Result(c.data.msg)
        BY <1>4, <3>2 DEF Own
      <3>3. QED
        <4>1. Result(c.data.msg) \in Results
          BY <1>4 DEF Results
        <4>2. CASE outputs'[p] = outputs[p]
          BY <3>1, <4>2
        <4>3. CASE outputs'[p] = Append(outputs[p], Result(c.data.msg))
          <5>1. \/ i \in DOMAIN outputs[p] /\ outputs'[p][i] = outputs[p][i]
                \/ outputs'[p][i] = Result(c.data.msg)
            BY <1>2, <4>1, <4>3
          <5>2. QED
            BY <3>1, <3>2, <5>1
        <4>4. QED
          BY <1>9, <4>2, <4>3
    <2>2. QED
      BY <1>9, <2>1 DEF IInv, OwnResults
  <1>17. QED
    BY <1>10, <1>12, <1>13, <1>14, <1>15, <1>16 DEF IInv

\* Every step keeps the invariant.
LEMMA NextInv == IInv /\ [Next]_vars => IInv'
  <1> SUFFICES ASSUME IInv, [Next]_vars PROVE IInv'
    OBVIOUS
  <1>1. ASSUME NEW r \in Relays, NEW c \in AllCells, Exit(c, r) PROVE IInv'
    BY <1>1, ExitInv
  <1>2. ASSUME NEW r \in Relays, Pump(r) \/ OrphanDrain(r) \/ Restart(r) PROVE IInv'
    BY <1>2, PumpInv, OrphanDrainInv, RestartInv
  <1>3. ASSUME NEW p \in Receivers, Poll(p) PROVE IInv'
    <2>1. MailboxAddrs[p] \in Seq(Relays)
      BY DeliveryAssumption
    <2>2. QED
      BY <1>3, <2>1, PhaseInv, DrainInv, PullReturnsInv, InsertNextInv DEF Poll
  <1>4. ASSUME NEW p \in Receivers, PullFails(p) PROVE IInv'
    BY <1>4, PullFailsInv
  <1>5. CASE UNCHANGED vars
    <2>1. UNCHANGED <<exited, channel, mailbox, orphans, phase, todo, reply, gathered,
                      inFlight, outputs, inserted, fails>>
      BY <1>5 DEF vars, relayVars, pollVars, storeVars
    <2>2. Types' /\ Control'
      BY <2>1 DEF IInv, Types, Control
    <2>3. Known' /\ Apart' /\ NoRepeats'
      BY <2>1, SitesShrink
    <2>4. QED
      BY <2>1, <2>2, <2>3, SameStores DEF IInv, storeVars
  <1>6. QED
    BY <1>1, <1>2, <1>3, <1>4, <1>5 DEF Next

\* The invariant holds throughout.
LEMMA Invariance == Spec => []IInv
  BY InitInv, NextInv, PTL DEF Spec

------------------------------------------------------------------------------
(***************************************************************************)
(* The variables of the exit relays, mailboxes and receivers keep their    *)
(* types, and a receiver has mailboxes left to pull exactly while it pulls *)
(* (pull_listener.rs, receiver.rs).                                        *)
(***************************************************************************)
THEOREM DeliveryTypes == Spec => []TypeOK
  <1>1. ASSUME IInv PROVE TypeOK
    <2>1. \A p \in Receivers : DOMAIN inFlight[p] \subseteq Ids
      <3>1. \A m \in Messages : MessageId[m] \in Ids
        BY MessageAssumption
      <3>2. QED
        BY <1>1, <3>1 DEF IInv, Stores, StoreOk
    <2>2. QED
      BY <1>1, <2>1 DEF IInv, Types, Control, Polling, TypeOK
  <1>2. QED
    BY <1>1, Invariance, PTL

(***************************************************************************)
(* A receiver returns whole messages that were encrypted for it, and never *)
(* a dummy cell or a cell of another version (receiver.rs).                *)
(***************************************************************************)
THEOREM ReturnsOwnWhole == Spec => []OnlyOwnWhole
  <1>1. ASSUME IInv PROVE OnlyOwnWhole
    BY <1>1, ResultIsWhole DEF IInv, OwnResults, OnlyOwnWhole
  <1>2. QED
    BY <1>1, Invariance, PTL

------------------------------------------------------------------------------
(***************************************************************************)
(* The refinement.  Where a cell is in Handover follows from three things: *)
(* which Reassembler has it, which client holds it and whether it waits at *)
(* a relay.  Since the sites are apart, it follows unambiguously.          *)
(***************************************************************************)
Held == [p \in Receivers |-> Elems(reply[p]) \cup Elems(gathered[p])]

Queue == UNION {Elems(channel[r]) \cup Elems(mailbox[r]) : r \in Relays}

Places == [c \in AllCells |-> PlaceOf(c)]

Returns == [p \in Receivers |-> [i \in DOMAIN outputs[p] |-> Returned(outputs[p][i])]]

Stand(where, who) == [where |-> where, who |-> who]

PlaceFacts ==
    \A c \in AllCells :
        /\ c \notin exited => Places[c] = Stand("fabric", Nobody)
        /\ \A p \in Receivers : c \in inserted[p] => Places[c] = Stand("kept", p)
        /\ \A p \in Receivers : c \in Held[p] => Places[c] = Stand("held", p)
        /\ c \in Queue => Places[c] = Stand("queued", Nobody)
        /\ (/\ c \in exited /\ c \notin Queue
            /\ \A p \in Receivers : c \notin inserted[p] /\ c \notin Held[p])
               => Places[c] = Stand("lost", Nobody)

\* The refinement mapping from the sites.
LEMMA PlacesFollow == IInv => PlaceFacts
  <1> SUFFICES ASSUME IInv, NEW c \in AllCells
               PROVE  /\ c \notin exited => Places[c] = Stand("fabric", Nobody)
                      /\ \A p \in Receivers : c \in inserted[p] => Places[c] = Stand("kept", p)
                      /\ \A p \in Receivers : c \in Held[p] => Places[c] = Stand("held", p)
                      /\ c \in Queue => Places[c] = Stand("queued", Nobody)
                      /\ (/\ c \in exited /\ c \notin Queue
                          /\ \A p \in Receivers : c \notin inserted[p] /\ c \notin Held[p])
                             => Places[c] = Stand("lost", Nobody)
    BY DEF PlaceFacts
  <1> DEFINE Keeps(p) == c \in inserted[p]
             Holds(p) == c \in Elems(reply[p]) \/ c \in Elems(gathered[p])
             Waits == \E r \in Relays : c \in Elems(channel[r]) \/ c \in Elems(mailbox[r])
  <1>1. Places[c] = PlaceOf(c)
    BY DEF Places
  <1>2. PlaceOf(c) =
           CASE c \notin exited -> Stand("fabric", Nobody)
             [] \E p \in Receivers : Keeps(p) -> Stand("kept", CHOOSE p \in Receivers : Keeps(p))
             [] (~\E p \in Receivers : Keeps(p)) /\ (\E p \in Receivers : Holds(p))
                   -> Stand("held", CHOOSE p \in Receivers : Holds(p))
             [] OTHER -> Stand(IF Waits THEN "queued" ELSE "lost", Nobody)
    BY DEF PlaceOf, Stand
  <1>3. /\ \A p \in Receivers : Keeps(p) \/ Holds(p) => c \in exited
        /\ Waits => c \in exited
    BY KnownFacts DEF IInv
  <1>4. \A p, q \in Receivers : /\ Keeps(p) /\ Keeps(q) => p = q
                                /\ Holds(p) /\ Holds(q) => p = q
                                /\ ~(Keeps(p) /\ Holds(q))
    BY ApartFacts DEF IInv
  <1>5. Waits => \A p \in Receivers : ~Keeps(p) /\ ~Holds(p)
    BY ApartFacts DEF IInv
  <1>6. c \in Queue <=> Waits
    BY DEF Queue
  <1>7. \A p \in Receivers : c \in Held[p] <=> Holds(p)
    BY DEF Held
  <1>8. \A p \in Receivers : c \in inserted[p] <=> Keeps(p)
    OBVIOUS
  <1> HIDE DEF Keeps, Holds, Waits
  <1>9. c \notin exited => PlaceOf(c) = Stand("fabric", Nobody)
    BY <1>2, <1>3
  <1>10. ASSUME NEW p \in Receivers, Keeps(p) PROVE PlaceOf(c) = Stand("kept", p)
    <2>1. (CHOOSE q \in Receivers : Keeps(q)) = p
      BY <1>4, <1>10
    <2>2. c \in exited
      BY <1>3, <1>10
    <2>3. QED
      BY <1>2, <1>10, <2>1, <2>2
  <1>11. ASSUME NEW p \in Receivers, Holds(p) PROVE PlaceOf(c) = Stand("held", p)
    <2>1. (CHOOSE q \in Receivers : Holds(q)) = p
      BY <1>4, <1>11
    <2>2. c \in exited /\ ~\E q \in Receivers : Keeps(q)
      BY <1>3, <1>4, <1>11
    <2>3. QED
      BY <1>2, <1>11, <2>1, <2>2
  <1>12. ASSUME c \in exited, \A p \in Receivers : ~Keeps(p) /\ ~Holds(p)
         PROVE  PlaceOf(c) = Stand(IF Waits THEN "queued" ELSE "lost", Nobody)
    BY <1>2, <1>12
  <1>13. QED
    BY <1>1, <1>3, <1>5, <1>6, <1>7, <1>8, <1>9, <1>10, <1>11, <1>12

\* The same after a step.
LEMMA PlacesFollowNext == IInv' => PlaceFacts'
  BY PlacesFollow, PTL

\* The fields of a place.
LEMMA StandIs ==
    ASSUME NEW a, NEW b, NEW x, NEW y, Stand(a, x) = Stand(b, y)
    PROVE  a = b /\ x = y
  BY DEF Stand

\* A cell is in one place.
LEMMA OnePlace ==
    ASSUME PlaceFacts, NEW c \in AllCells
    PROVE  /\ \A p \in Receivers : Places[c] = Stand("kept", p) <=> c \in inserted[p]
           /\ \A p \in Receivers : c \in Held[p] =>
                  /\ c \in exited /\ c \notin Queue
                  /\ \A q \in Receivers : c \notin inserted[q] /\ (q # p => c \notin Held[q])
           /\ c \in Queue =>
                  c \in exited /\ \A q \in Receivers : c \notin inserted[q] /\ c \notin Held[q]
  <1>1. /\ c \notin exited => Places[c] = Stand("fabric", Nobody)
        /\ \A p \in Receivers : c \in inserted[p] => Places[c] = Stand("kept", p)
        /\ \A p \in Receivers : c \in Held[p] => Places[c] = Stand("held", p)
        /\ c \in Queue => Places[c] = Stand("queued", Nobody)
        /\ (/\ c \in exited /\ c \notin Queue
            /\ \A p \in Receivers : c \notin inserted[p] /\ c \notin Held[p])
               => Places[c] = Stand("lost", Nobody)
    BY DEF PlaceFacts
  <1>2. \A p \in Receivers : Places[c] = Stand("kept", p) => c \in inserted[p]
    <2> SUFFICES ASSUME NEW p \in Receivers, Places[c] = Stand("kept", p) PROVE c \in inserted[p]
      OBVIOUS
    <2>1. c \in exited /\ c \notin Queue /\ \A q \in Receivers : c \notin Held[q]
      BY <1>1, StandIs
    <2>2. \E q \in Receivers : c \in inserted[q]
      BY <1>1, <2>1, StandIs
    <2>3. QED
      BY <1>1, <2>2, StandIs
  <1>3. \A p, q \in Receivers : c \in Held[p] =>
            /\ c \in exited /\ c \notin Queue
            /\ c \notin inserted[q] /\ (q # p => c \notin Held[q])
    BY <1>1, StandIs
  <1>4. \A q \in Receivers : c \in Queue => c \notin inserted[q] /\ c \notin Held[q]
    BY <1>1, StandIs
  <1>5. c \in Queue => c \in exited
    BY <1>1, StandIs
  <1>6. QED
    BY <1>1, <1>2, <1>3, <1>4, <1>5

\* The parts of Handover are the cells.
LEMMA PartsAreCells == H!AllParts = AllCells /\ \A m \in Messages : PartsOf[m] = CellsOf(m)
  BY DEF H!AllParts, PartsOf, AllCells

\* Steps in which cells stay where they are or are lost.
LEMMA LoseMaps ==
    ASSUME PlaceFacts, PlaceFacts', exited' = exited, inserted' = inserted, outputs' = outputs,
           Queue' \subseteq Queue, \A p \in Receivers : Held'[p] \subseteq Held[p]
    PROVE  H!Lose
  <1>1. ASSUME NEW c \in AllCells
        PROVE  \/ Places'[c] = Places[c]
               \/ /\ Places[c].where \in {"queued", "held"}
                  /\ Places'[c] = Stand("lost", Nobody)
    <2>1. CASE c \notin exited \/ \E p \in Receivers : c \in inserted[p]
      BY <1>1, <2>1 DEF PlaceFacts
    <2>2. CASE \E p \in Receivers : c \in Held[p]
      <3>1. PICK p \in Receivers : c \in Held[p]
        BY <2>2
      <3>2. Places[c] = Stand("held", p)
        BY <3>1 DEF PlaceFacts
      <3>3. CASE c \in Held'[p]
        BY <3>2, <3>3 DEF PlaceFacts
      <3>4. CASE c \notin Held'[p]
        <4>1. c \in exited /\ c \notin Queue
          BY <3>1, OnePlace
        <4>2. \A q \in Receivers : c \notin inserted[q] /\ (q # p => c \notin Held[q])
          BY <3>1, OnePlace
        <4>3. Places'[c] = Stand("lost", Nobody)
          BY <3>4, <4>1, <4>2 DEF PlaceFacts
        <4>4. QED
          BY <3>2, <4>3 DEF Stand
      <3>5. QED
        BY <3>3, <3>4
    <2>3. CASE c \in Queue
      <3>1. Places[c] = Stand("queued", Nobody)
        BY <2>3 DEF PlaceFacts
      <3>2. CASE c \in Queue'
        BY <3>1, <3>2 DEF PlaceFacts
      <3>3. CASE c \notin Queue'
        <4>1. c \in exited /\ \A q \in Receivers : c \notin inserted[q] /\ c \notin Held[q]
          BY <2>3, OnePlace
        <4>2. Places'[c] = Stand("lost", Nobody)
          BY <3>3, <4>1 DEF PlaceFacts
        <4>3. QED
          BY <3>1, <4>2 DEF Stand
      <3>4. QED
        BY <3>2, <3>3
    <2>4. CASE /\ c \in exited /\ c \notin Queue
               /\ \A p \in Receivers : c \notin inserted[p] /\ c \notin Held[p]
      BY <2>4 DEF PlaceFacts
    <2>5. QED
      BY <2>1, <2>2, <2>3, <2>4
  <1>2. Returns' = Returns
    BY DEF Returns
  <1>3. QED
    BY <1>1, <1>2, PartsAreCells DEF H!Lose, H!At, Places, Returns, Stand

\* A cell leaves its circuit: it surfaces.
LEMMA ExitMaps ==
    ASSUME PlaceFacts, PlaceFacts', IInv, NEW c \in AllCells, NEW r \in Relays, Exit(c, r)
    PROVE  H!Surface(c)
  <1>1. /\ c \notin exited /\ exited' = exited \cup {c}
        /\ channel' = [channel EXCEPT ![r] = Append(@, c)]
        /\ UNCHANGED <<mailbox, reply, gathered, outputs, inserted>>
    BY DEF Exit, pollVars, storeVars
  <1>2. channel \in [Relays -> Seq(AllCells)] /\ channel[r] \in Seq(AllCells)
    BY DEF IInv, Types
  <1>3. \A s \in Relays : Elems(channel'[s]) = IF s = r THEN Elems(channel[s]) \cup {c}
                                               ELSE Elems(channel[s])
    BY <1>1, <1>2, ElemsAppend
  <1>4. Queue' = Queue \cup {c}
    BY <1>1, <1>3 DEF Queue, Elems
  <1>5. Held' = Held /\ Returns' = Returns
    BY <1>1 DEF Held, Returns, Elems
  <1>6. Places[c] = Stand("fabric", Nobody) /\ Places'[c] = Stand("queued", Nobody)
    BY <1>1, <1>4 DEF PlaceFacts
  <1>7. \A d \in AllCells : d # c => Places'[d] = Places[d]
    BY <1>1, <1>4, <1>5 DEF PlaceFacts
  <1>8. /\ Places = [d \in AllCells |-> Places[d]]
        /\ Places' = [d \in AllCells |-> Places'[d]]
    BY DEF Places
  <1>9. Places' = [Places EXCEPT ![c] = Stand("queued", Nobody)]
    BY <1>6, <1>7, <1>8
  <1>10. QED
    BY <1>5, <1>6, <1>9 DEF H!Surface, H!At, H!Queued, Places, Returns, Stand

\* A relay empties its mailbox for p: p takes the cells.
LEMMA DrainMaps ==
    ASSUME PlaceFacts, PlaceFacts', IInv, NEW p \in Receivers, Drain(p)
    PROVE  H!Take(p)
  <1> DEFINE r == Polled(p)
             X == Elems(mailbox[r])
  <1>1. /\ phase[p] = "request"
        /\ reply' = [reply EXCEPT ![p] = mailbox[r]]
        /\ mailbox' = [mailbox EXCEPT ![r] = <<>>]
        /\ UNCHANGED <<exited, channel, gathered, outputs, inserted>>
    BY DEF Drain, storeVars
  <1>2. r \in Relays
    <2>1. todo[p] \in Seq(Relays) /\ todo[p] # <<>>
      BY <1>1 DEF IInv, Types, Control, Polling
    <2>2. QED
      BY <2>1 DEF Polled
  <1>3. /\ mailbox \in [Relays -> Seq(AllCells)] /\ reply \in [Receivers -> Seq(AllCells)]
        /\ reply[p] = <<>>
    BY <1>1 DEF IInv, Types, Control
  <1> HIDE DEF r
  <1>4. /\ reply'[p] = mailbox[r] /\ \A q \in Receivers \ {p} : reply'[q] = reply[q]
        /\ mailbox'[r] = <<>> /\ \A s \in Relays \ {r} : mailbox'[s] = mailbox[s]
    BY <1>1, <1>2, <1>3
  <1>5. Elems(reply[p]) = {} /\ Elems(mailbox'[r]) = {}
    BY <1>3, <1>4, ElemsEmpty
  <1>6. Held'[p] = Held[p] \cup X /\ \A q \in Receivers \ {p} : Held'[q] = Held[q]
    <2>1. \A q \in Receivers : /\ Held'[q] = Elems(reply'[q]) \cup Elems(gathered'[q])
                               /\ Held[q] = Elems(reply[q]) \cup Elems(gathered[q])
      BY DEF Held, Elems
    <2>2. QED
      BY <1>1, <1>4, <1>5, <2>1
  <1>7. X \subseteq Queue /\ Queue' \subseteq Queue /\ Queue \subseteq Queue' \cup X
    <2>1. /\ Queue = UNION {Elems(channel[s]) \cup Elems(mailbox[s]) : s \in Relays}
          /\ Queue' = UNION {Elems(channel'[s]) \cup Elems(mailbox'[s]) : s \in Relays}
      BY DEF Queue, Elems
    <2>2. \A s \in Relays : /\ Elems(channel'[s]) = Elems(channel[s])
                            /\ Elems(mailbox'[s]) = IF s = r THEN {} ELSE Elems(mailbox[s])
      BY <1>1, <1>4, <1>5
    <2>3. QED
      BY <1>2, <2>1, <2>2
  <1> HIDE DEF X
  <1>8. ASSUME NEW c \in AllCells
        PROVE  \/ Places'[c] = Places[c]
               \/ Places[c] = Stand("queued", Nobody) /\ Places'[c] = Stand("held", p)
    <2>1. CASE c \in X
      BY <1>6, <1>7, <2>1 DEF PlaceFacts
    <2>2. CASE c \notin X
      <3>1. /\ c \in exited' <=> c \in exited
            /\ c \in Queue' <=> c \in Queue
            /\ \A q \in Receivers : /\ c \in Held'[q] <=> c \in Held[q]
                                    /\ c \in inserted'[q] <=> c \in inserted[q]
        BY <1>1, <1>6, <1>7, <2>2
      <3>2. QED
        BY <3>1 DEF PlaceFacts
    <2>3. QED
      BY <2>1, <2>2
  <1>9. Returns' = Returns
    BY <1>1 DEF Returns
  <1>10. QED
    BY <1>8, <1>9, PartsAreCells DEF H!Take, H!At, H!Queued, Places, Returns, Stand

\* p inserts a cell: it keeps it, and returns the message with the last one.
LEMMA InsertMaps ==
    ASSUME PlaceFacts, PlaceFacts', IInv, NEW p \in Receivers, InsertNext(p)
    PROVE  H!Next
  <1> DEFINE c == Head(gathered[p])
             m == c.data.msg
             F == inFlight[p]
             I == inserted[p]
  <1>1. /\ gathered[p] # <<>>
        /\ outputs' = IF Completes(F, c) THEN [outputs EXCEPT ![p] = Append(@, Message(F, c))]
                      ELSE outputs
        /\ inserted' = [inserted EXCEPT ![p] = @ \cup {c}]
        /\ gathered' = [gathered EXCEPT ![p] = Tail(@)]
        /\ UNCHANGED <<exited, channel, mailbox, reply>>
    BY DEF InsertNext, relayVars
  <1>2. /\ gathered \in [Receivers -> Seq(AllCells)] /\ gathered[p] \in Seq(AllCells)
        /\ inserted \in [Receivers -> SUBSET AllCells]
        /\ outputs \in [Receivers -> Seq(Results)] /\ outputs[p] \in Seq(Results)
    BY DEF IInv, Types
  <1>3. /\ c \in AllCells
        /\ Elems(gathered[p]) = Elems(Tail(gathered[p])) \cup {c}
        /\ c \notin Elems(Tail(gathered[p]))
    BY <1>1, <1>2, ElemsTail DEF IInv, NoRepeats
  <1>4. m \in Messages /\ Recipient[m] = p /\ c \in CellsOf(m)
    BY <1>3, CellOwner DEF IInv, OwnOnly, Own
  <1>5. c \notin I /\ c \notin Elems(reply[p])
    BY <1>3, ApartFacts DEF IInv
  <1> HIDE DEF c
  <1>6. /\ Completes(F, c) <=> CellsOf(m) \subseteq I \cup {c}
        /\ Completes(F, c) => Message(F, c) = Result(m)
    <2>1. StoreOk(F, I)
      BY DEF IInv, Stores
    <2> HIDE DEF F, I
    <2>2. QED
      BY <1>3, <1>5, <2>1, InsertOne
  <1> HIDE DEF F, m
  <1>7. /\ Held'[p] = Held[p] \ {c} /\ c \in Held[p]
        /\ \A q \in Receivers \ {p} : Held'[q] = Held[q]
    <2>1. \A q \in Receivers : /\ Held'[q] = Elems(reply'[q]) \cup Elems(gathered'[q])
                               /\ Held[q] = Elems(reply[q]) \cup Elems(gathered[q])
      BY DEF Held, Elems
    <2>2. /\ gathered'[p] = Tail(gathered[p])
          /\ \A q \in Receivers \ {p} : gathered'[q] = gathered[q]
      BY <1>1, <1>2
    <2>3. QED
      BY <1>1, <1>3, <1>5, <2>1, <2>2
  <1>8. Queue' = Queue
    BY <1>1 DEF Queue, Elems
  <1>9. inserted'[p] = I \cup {c} /\ \A q \in Receivers \ {p} : inserted'[q] = inserted[q]
    BY <1>1, <1>2
  <1>10. Places[c] = Stand("held", p) /\ Places'[c] = Stand("kept", p)
    BY <1>3, <1>7, <1>9 DEF PlaceFacts
  <1>11. ASSUME NEW d \in AllCells, d # c PROVE Places'[d] = Places[d]
    <2>1. /\ d \in exited' <=> d \in exited
          /\ d \in Queue' <=> d \in Queue
          /\ \A q \in Receivers : /\ d \in Held'[q] <=> d \in Held[q]
                                  /\ d \in inserted'[q] <=> d \in inserted[q]
      BY <1>1, <1>7, <1>8, <1>9, <1>11
    <2>2. QED
      BY <2>1 DEF PlaceFacts
  <1>12. Places' = [Places EXCEPT ![c] = Stand("kept", p)]
    <2>1. /\ Places = [d \in AllCells |-> Places[d]]
          /\ Places' = [d \in AllCells |-> Places'[d]]
      BY DEF Places
    <2>2. QED
      BY <1>3, <1>10, <1>11, <2>1
  <1>13. (\A d \in CellsOf(m) \ {c} : Places[d] = Stand("kept", p)) <=> Completes(F, c)
    <2>1. \A d \in CellsOf(m) : d \in AllCells
      BY <1>4 DEF AllCells
    <2>2. \A d \in CellsOf(m) : Places[d] = Stand("kept", p) <=> d \in I
      BY <2>1, OnePlace
    <2> HIDE DEF I
    <2>3. QED
      BY <1>4, <1>6, <2>2
  <1>14. Returns' = IF Completes(F, c) THEN [Returns EXCEPT ![p] = Append(@, m)] ELSE Returns
    <2>1. CASE ~Completes(F, c)
      BY <1>1, <2>1 DEF Returns
    <2>2. CASE Completes(F, c)
      <3>1. outputs' = [outputs EXCEPT ![p] = Append(@, Result(m))]
        BY <1>1, <1>6, <2>2
      <3>2. /\ \A q \in Receivers \ {p} : outputs'[q] = outputs[q]
            /\ outputs'[p] = Append(outputs[p], Result(m))
        BY <1>2, <3>1
      <3>3. \A q \in Receivers :
                /\ Returns[q] = [i \in DOMAIN outputs[q] |-> Returned(outputs[q][i])]
                /\ Returns'[q] = [i \in DOMAIN outputs'[q] |-> Returned(outputs'[q][i])]
        BY DEF Returns, Returned
      <3>4. /\ Returns = [q \in Receivers |-> Returns[q]]
            /\ Returns' = [q \in Receivers |-> Returns'[q]]
        BY DEF Returns
      <3>5. ASSUME NEW q \in Receivers \ {p} PROVE Returns'[q] = Returns[q]
        <4>1. outputs'[q] = outputs[q]
          BY <3>2
        <4>2. /\ Returns[q] = [i \in DOMAIN outputs[q] |-> Returned(outputs[q][i])]
              /\ Returns'[q] = [i \in DOMAIN outputs'[q] |-> Returned(outputs'[q][i])]
          BY <3>3
        <4>3. QED
          BY <4>1, <4>2
      <3>6. Returns'[p] = Append(Returns[p], m)
        <4> DEFINE s == outputs[p]
                   t == outputs'[p]
        <4>1. Result(m) \in Results /\ Returned(Result(m)) = m
          BY <1>4, ResultIsWhole DEF Results
        <4>2. /\ Len(s) \in Nat /\ DOMAIN s = 1 .. Len(s) /\ DOMAIN t = 1 .. Len(s) + 1
              /\ \A i \in 1 .. Len(s) : t[i] = s[i] /\ s[i] \in Results
              /\ t[Len(s) + 1] = Result(m)
          BY <1>2, <3>2, <4>1
        <4>3. /\ Returns[p] = [i \in DOMAIN s |-> Returned(s[i])]
              /\ Returns'[p] = [i \in DOMAIN t |-> Returned(t[i])]
          BY <3>3
        <4> HIDE DEF s, t
        <4>4. \A i \in 1 .. Len(s) : Returned(s[i]) \in Messages
          BY <4>2, ResultIsWhole DEF Results
        <4>5. Returns[p] \in Seq(Messages) /\ Len(Returns[p]) = Len(s)
          BY <4>2, <4>3, <4>4
        <4>6. /\ DOMAIN Append(Returns[p], m) = 1 .. Len(s) + 1
              /\ \A i \in 1 .. Len(s) : Append(Returns[p], m)[i] = Returns[p][i]
              /\ Append(Returns[p], m)[Len(s) + 1] = m
              /\ Append(Returns[p], m) \in Seq(Messages)
          BY <1>4, <4>2, <4>5
        <4>7. \A i \in 1 .. Len(s) + 1 : Append(Returns[p], m)[i] = Returns'[p][i]
          <5>1. \A i \in 1 .. Len(s) + 1 : i \in 1 .. Len(s) \/ i = Len(s) + 1
            BY <4>2
          <5>2. QED
            BY <4>1, <4>2, <4>3, <4>6, <5>1
        <4>8. QED
          BY <4>2, <4>3, <4>6, <4>7
      <3>7. QED
        BY <2>2, <3>4, <3>5, <3>6
    <2>3. QED
      BY <2>1, <2>2
  <1>15. H!Keep(m, c, p)
    <2>1. Returns' = IF \A d \in PartsOf[m] \ {c} : Places[d] = Stand("kept", p)
                     THEN [Returns EXCEPT ![p] = Append(@, m)] ELSE Returns
      BY <1>4, <1>13, <1>14, PartsAreCells
    <2>2. QED
      BY <1>4, <1>10, <1>12, <2>1 DEF H!Keep, H!At, Places, Returns, Stand
  <1>16. c \in PartsOf[m]
    BY <1>4, PartsAreCells
  <1>17. QED
    BY <1>4, <1>15, <1>16 DEF H!Next

\* At the start every part is in the fabric.
LEMMA InitMaps == Init => H!Init
  <1> SUFFICES ASSUME Init PROVE H!Init
    OBVIOUS
  <1>1. IInv /\ PlaceFacts
    BY InitInv, PlacesFollow
  <1>2. \A c \in AllCells : Places[c] = Stand("fabric", Nobody)
    BY <1>1 DEF PlaceFacts, Init
  <1>3. Places = [c \in AllCells |-> Places[c]]
    BY DEF Places
  <1>4. Places = [c \in AllCells |-> Stand("fabric", Nobody)]
    BY <1>2, <1>3
  <1>5. Returns = [p \in Receivers |-> <<>>]
    <2>1. ASSUME NEW p \in Receivers PROVE Returns[p] = <<>>
      <3>1. Returns[p] = [i \in {} |-> Returned(outputs[p][i])]
        BY DEF Init, Returns
      <3>2. QED
        BY <3>1
    <2>2. Returns = [p \in Receivers |-> Returns[p]]
      BY DEF Returns
    <2>3. QED
      BY <2>1, <2>2
  <1>6. QED
    BY <1>4, <1>5, PartsAreCells DEF H!Init, H!At, Places, Returns, Stand

\* Each step is a step of Handover.
LEMMA NextMaps == IInv /\ IInv' /\ [Next]_vars => H!Next
  <1> SUFFICES ASSUME IInv, IInv', [Next]_vars PROVE H!Next
    OBVIOUS
  <1>1. PlaceFacts /\ PlaceFacts'
    BY PlacesFollow, PlacesFollowNext
  <1>2. ASSUME NEW r \in Relays, NEW c \in AllCells, Exit(c, r) PROVE H!Next
    BY <1>1, <1>2, ExitMaps, PartsAreCells DEF H!Next
  <1>3. ASSUME NEW p \in Receivers, Drain(p) PROVE H!Next
    BY <1>1, <1>3, DrainMaps DEF H!Next
  <1>4. ASSUME NEW p \in Receivers, InsertNext(p) PROVE H!Next
    BY <1>1, <1>4, InsertMaps
  <1>5. ASSUME exited' = exited, inserted' = inserted, outputs' = outputs,
               Queue' \subseteq Queue, \A p \in Receivers : Held'[p] \subseteq Held[p]
        PROVE  H!Next
    BY <1>1, <1>5, LoseMaps DEF H!Next
  <1>6. /\ Queue = UNION {Elems(channel[s]) \cup Elems(mailbox[s]) : s \in Relays}
        /\ Queue' = UNION {Elems(channel'[s]) \cup Elems(mailbox'[s]) : s \in Relays}
        /\ \A q \in Receivers : /\ Held[q] = Elems(reply[q]) \cup Elems(gathered[q])
                                /\ Held'[q] = Elems(reply'[q]) \cup Elems(gathered'[q])
    BY DEF Queue, Held, Elems
  <1>7. /\ channel \in [Relays -> Seq(AllCells)] /\ mailbox \in [Relays -> Seq(AllCells)]
        /\ reply \in [Receivers -> Seq(AllCells)] /\ gathered \in [Receivers -> Seq(AllCells)]
    BY DEF IInv, Types
  <1>8. ASSUME UNCHANGED <<exited, inserted, outputs>>,
               \A s \in Relays : Elems(channel'[s]) \cup Elems(mailbox'[s])
                                     \subseteq Elems(channel[s]) \cup Elems(mailbox[s]),
               \A q \in Receivers : Elems(reply'[q]) \cup Elems(gathered'[q])
                                        \subseteq Elems(reply[q]) \cup Elems(gathered[q])
        PROVE  H!Next
    <2>1. Queue' \subseteq Queue
      BY <1>6, <1>8
    <2>2. \A q \in Receivers : Held'[q] \subseteq Held[q]
      BY <1>6, <1>8
    <2>3. QED
      BY <1>5, <1>8, <2>1, <2>2
  <1>9. ASSUME NEW r \in Relays, Pump(r) PROVE H!Next
    <2>1. /\ channel[r] # <<>>
          /\ channel' = [channel EXCEPT ![r] = Tail(@)]
          /\ mailbox' = [mailbox EXCEPT ![r] = Append(@, Head(channel[r]))]
          /\ UNCHANGED <<exited, reply, gathered, outputs, inserted>>
      BY <1>9 DEF Pump, pollVars, storeVars
    <2>2. /\ channel'[r] = Tail(channel[r]) /\ \A s \in Relays \ {r} : channel'[s] = channel[s]
          /\ mailbox'[r] = Append(mailbox[r], Head(channel[r]))
          /\ \A s \in Relays \ {r} : mailbox'[s] = mailbox[s]
      BY <1>7, <2>1
    <2>3. /\ Head(channel[r]) \in AllCells
          /\ Elems(channel[r]) = Elems(Tail(channel[r])) \cup {Head(channel[r])}
      BY <1>7, <2>1, ElemsTail
    <2>4. Elems(mailbox'[r]) = Elems(mailbox[r]) \cup {Head(channel[r])}
      BY <1>7, <2>2, <2>3, ElemsAppend
    <2>5. QED
      BY <1>8, <2>1, <2>2, <2>3, <2>4
  <1>10. ASSUME NEW r \in Relays, OrphanDrain(r) PROVE H!Next
    <2>1. /\ mailbox' = [mailbox EXCEPT ![r] = <<>>] \/ mailbox' = mailbox
          /\ UNCHANGED <<exited, channel, reply, gathered, outputs, inserted>>
      BY <1>10 DEF OrphanDrain, pollVars, storeVars
    <2>2. \A s \in Relays : Elems(mailbox'[s]) \subseteq Elems(mailbox[s])
      <3>1. CASE mailbox' = mailbox
        BY <3>1
      <3>2. CASE mailbox' = [mailbox EXCEPT ![r] = <<>>]
        BY <1>7, <3>2, ElemsEmpty
      <3>3. QED
        BY <2>1, <3>1, <3>2
    <2>3. QED
      BY <1>8, <2>1, <2>2
  <1>11. ASSUME NEW r \in Relays, Restart(r) PROVE H!Next
    <2>1. /\ channel' = [channel EXCEPT ![r] = <<>>]
          /\ mailbox' = [mailbox EXCEPT ![r] = <<>>]
          /\ UNCHANGED <<exited, outputs, inserted>>
      BY <1>11 DEF Restart, storeVars
    <2>2. \A s \in Relays : /\ Elems(channel'[s]) \subseteq Elems(channel[s])
                            /\ Elems(mailbox'[s]) \subseteq Elems(mailbox[s])
      BY <1>7, <2>1, ElemsEmpty
    <2>3. PICK Z \in SUBSET Receivers :
                /\ reply' = [p \in Receivers |-> IF p \in Z THEN <<>> ELSE reply[p]]
                /\ gathered' = [p \in Receivers |-> IF p \in Z THEN <<>> ELSE gathered[p]]
      BY <1>11, RestartCuts
    <2>4. \A q \in Receivers : /\ Elems(reply'[q]) \subseteq Elems(reply[q])
                               /\ Elems(gathered'[q]) \subseteq Elems(gathered[q])
      BY <2>3, ElemsEmpty
    <2>5. QED
      BY <1>8, <2>1, <2>2, <2>4
  <1>12. ASSUME NEW p \in Receivers,
                PollStarts(p, MailboxAddrs[p]) \/ Request(p) \/ PollReturns(p)
         PROVE  H!Next
    <2>1. UNCHANGED <<exited, channel, mailbox, reply, gathered, outputs, inserted>>
      BY <1>12 DEF PollStarts, Request, PollReturns, relayVars, storeVars
    <2>2. QED
      BY <1>8, <2>1
  <1>13. ASSUME NEW p \in Receivers, PullReturns(p) PROVE H!Next
    <2>1. /\ gathered' = [gathered EXCEPT ![p] = @ \o Decrypted(p)]
          /\ reply' = [reply EXCEPT ![p] = <<>>]
          /\ UNCHANGED <<exited, channel, mailbox, outputs, inserted>>
      BY <1>13 DEF PullReturns, relayVars, storeVars
    <2>2. /\ gathered'[p] = gathered[p] \o Decrypted(p) /\ reply'[p] = <<>>
          /\ \A q \in Receivers \ {p} : gathered'[q] = gathered[q] /\ reply'[q] = reply[q]
      BY <1>7, <2>1
    <2>3. reply[p] \in Seq(AllCells) /\ gathered[p] \in Seq(AllCells)
      BY <1>7
    <2>4. /\ Decrypted(p) \in Seq(AllCells)
          /\ Elems(Decrypted(p)) \subseteq Elems(reply[p])
      BY <2>3, DecryptedOwn
    <2>5. Elems(gathered'[p]) = Elems(gathered[p]) \cup Elems(Decrypted(p))
      BY <2>2, <2>3, <2>4, ElemsConcat
    <2>6. \A q \in Receivers : Elems(reply'[q]) \cup Elems(gathered'[q])
                                   \subseteq Elems(reply[q]) \cup Elems(gathered[q])
      BY <2>2, <2>4, <2>5, ElemsEmpty
    <2>7. QED
      BY <1>8, <2>1, <2>6
  <1>14. ASSUME NEW p \in Receivers, PullFails(p) PROVE H!Next
    <2>1. /\ reply' = [reply EXCEPT ![p] = <<>>]
          /\ gathered' = [gathered EXCEPT ![p] = <<>>]
          /\ UNCHANGED <<exited, channel, mailbox, outputs, inserted>>
      BY <1>14 DEF PullFails, storeVars
    <2>2. \A q \in Receivers : /\ Elems(reply'[q]) \subseteq Elems(reply[q])
                               /\ Elems(gathered'[q]) \subseteq Elems(gathered[q])
      BY <1>7, <2>1, ElemsEmpty
    <2>3. QED
      BY <1>8, <2>1, <2>2
  <1>15. CASE UNCHANGED vars
    <2>1. UNCHANGED <<exited, channel, mailbox, reply, gathered, outputs, inserted>>
      BY <1>15 DEF vars, relayVars, pollVars, storeVars
    <2>2. QED
      BY <1>8, <2>1
  <1>16. ASSUME NEW p \in Receivers, Poll(p) PROVE H!Next
    BY <1>3, <1>4, <1>12, <1>13, <1>16 DEF Poll
  <1>17. QED
    BY <1>2, <1>9, <1>10, <1>11, <1>14, <1>15, <1>16 DEF Next

(***************************************************************************)
(* Channels, mailboxes, polls that race for the same mailbox, pulls that   *)
(* fail after the relay has drained, and restarts (main.rs, mailbox.rs,    *)
(* pull_listener.rs, receiver.rs) hand over each cell at most once and     *)
(* return a message exactly when its recipient has inserted every cell.    *)
(***************************************************************************)
THEOREM DeliveryHandsOver == Spec => ImplementsHandover
  BY Invariance, InitMaps, NextMaps, PTL DEF Spec, ImplementsHandover, H!Spec
------------------------------------------------------------------------------
(***************************************************************************)
(* The whole system, EndToEnd.  The sender's half is Sending, whose        *)
(* inductive invariant comes from an instance of its proofs.               *)
(***************************************************************************)
SP == INSTANCE SendingProofs

\* The sender's half has the cells of the recipients' half.
LEMMA SameCells ==
    /\ \A m : /\ S!TotalCells(m) = TotalCells(m) /\ SP!TotalCells(m) = TotalCells(m)
              /\ S!CellsOf(m) = CellsOf(m) /\ SP!CellsOf(m) = CellsOf(m)
              /\ S!FragmentOk(m) <=> FragmentOk(m)
              /\ SP!FragmentOk(m) <=> FragmentOk(m)
    /\ \A m, i : S!CellOf(m, i) = CellOf(m, i) /\ SP!CellOf(m, i) = CellOf(m, i)
    /\ S!AllCells = AllCells /\ SP!AllCells = AllCells
  <1>1. \A m : S!TotalCells(m) = TotalCells(m) /\ SP!TotalCells(m) = TotalCells(m)
    BY DEF S!TotalCells, SP!TotalCells, TotalCells, S!DivCeil, SP!DivCeil, DivCeil
  <1>2. \A m, i : S!Chunk(m, i) = Chunk(m, i) /\ SP!Chunk(m, i) = Chunk(m, i)
    BY DEF S!Chunk, SP!Chunk, Chunk, S!ChunkEnd, SP!ChunkEnd, ChunkEnd
  <1>3. \A n : S!AsU16(n) = AsU16(n) /\ SP!AsU16(n) = AsU16(n)
    BY DEF S!AsU16, SP!AsU16, AsU16
  <1>4. \A m, i : S!CellOf(m, i) = CellOf(m, i) /\ SP!CellOf(m, i) = CellOf(m, i)
    BY <1>1, <1>2, <1>3 DEF S!CellOf, SP!CellOf, CellOf
  <1>5. \A m : S!CellsOf(m) = CellsOf(m) /\ SP!CellsOf(m) = CellsOf(m)
    BY <1>1, <1>4 DEF S!CellsOf, SP!CellsOf, CellsOf
  <1>6. S!AllCells = AllCells /\ SP!AllCells = AllCells
    BY <1>5 DEF S!AllCells, SP!AllCells, AllCells
  <1>7. \A c : (S!NewDataOk(c) <=> NewDataOk(c)) /\ (SP!NewDataOk(c) <=> NewDataOk(c))
    BY DEF S!NewDataOk, SP!NewDataOk, NewDataOk
  <1>8. \A m : (S!FragmentOk(m) <=> FragmentOk(m)) /\ (SP!FragmentOk(m) <=> FragmentOk(m))
    BY <1>5, <1>7 DEF S!FragmentOk, SP!FragmentOk, FragmentOk, S!MaxMessageSize, SP!MaxMessageSize,
       MaxMessageSize
  <1>9. QED
    BY <1>1, <1>4, <1>5, <1>6, <1>8

\* ... and the same finite sets.
LEMMA SameSizes ==
    \A T : /\ S!Cardinality(T) = Cardinality(T) /\ SP!Cardinality(T) = Cardinality(T)
           /\ SP!IsFiniteSet(T) <=> IsFiniteSet(T)
  BY DEF S!Cardinality, SP!Cardinality, Cardinality, SP!IsFiniteSet, IsFiniteSet

\* The invariant of Sending holds at the start.
LEMMA SenderInit == S!Init => SP!IInv
  <1>1. S!Init => SP!Init
    BY SameCells DEF S!Init, SP!Init, S!Silent, SP!Silent
  <1>2. QED
    BY <1>1, SP!InitIInv, EndToEndAssumption, CapacityAssumption, SeqMaxAssumption,
       MessageAssumption, KindAssumption, SameCells, SameSizes

\* What EndToEnd takes from Sending is what SendingProofs is about.
LEMMA SamePaths ==
  /\ \A s, n : S!DiversePaths(s, n) = SP!DiversePaths(s, n)
  /\ \A p, body : S!BuildCircuit(p, body) = SP!BuildCircuit(p, body)
  <1>0. S!Subnet = SP!Subnet
    BY DEF S!Subnet, SP!Subnet, S!SubnetKey, SP!SubnetKey
  <1>a. \A o : S!Repeated(o) = SP!Repeated(o) /\ S!Elements(o) = SP!Elements(o)
    BY <1>0 DEF S!Repeated, SP!Repeated, S!Elements, SP!Elements
  <1>b. \A o, T : S!Chosen(o, T) = SP!Chosen(o, T)
    BY DEF S!Chosen, SP!Chosen
  <1>c. \A T : S!Shuffles(T) = SP!Shuffles(T)
    BY SameSizes DEF S!Shuffles, SP!Shuffles
  <1>d. \A o, n : S!DiversePath(o, n) = SP!DiversePath(o, n)
    BY <1>a, <1>b DEF S!DiversePath, SP!DiversePath
  <1>1. \A s, n : S!DiversePaths(s, n) = SP!DiversePaths(s, n)
    BY <1>c, <1>d DEF S!DiversePaths, SP!DiversePaths
  <1>2. \A p, body : S!BuildCircuit(p, body) = SP!BuildCircuit(p, body)
    BY DEF S!BuildCircuit, SP!BuildCircuit, S!Layer, SP!Layer, S!LayerKey, SP!LayerKey,
       S!DeriveKey, SP!DeriveKey, S!DiffieHellman, SP!DiffieHellman, S!RelayKey, SP!RelayKey
  <1>3. QED
    BY <1>1, <1>2

\* The steps of the sender's half are steps of Sending, and keep its invariant.
LEMMA SenderStep ==
    ASSUME SP!IInv,
           \/ \E m \in Messages : \/ S!SendStarts(m) \/ S!SendCell(m) \/ S!NoPath(m)
                                  \/ S!SendFails(m) \/ S!SendReturns(m)
           \/ \E q \in packets : S!PeelForward(q) \/ S!PeelDeliver(q) \/ S!PeelFails(q) \/ S!Lose(q)
           \/ \E r \in Relays : S!Restart(r)
    PROVE  SP!IInv'
  <1> USE DEF S!netVars, SP!netVars, S!clientVars, SP!clientVars
  <1>1. ASSUME NEW m \in Messages
        PROVE  /\ S!More(m) <=> SP!More(m)
               /\ S!PathExists <=> SP!PathExists
               /\ S!NextCell(m) = SP!NextCell(m)
    BY SameCells, SameSizes DEF S!More, SP!More, S!PathExists, SP!PathExists, S!NextCell, SP!NextCell
  <1>2. \A p, c : S!Written(c, p) = SP!Written(c, p) /\ S!Reported(p) = SP!Reported(p)
    BY SamePaths DEF S!Written, SP!Written, S!Reported, SP!Reported
  <1>3. ASSUME NEW m \in Messages, S!SendCell(m) PROVE SP!SendCell(m)
    BY <1>1, <1>2, <1>3, SamePaths DEF S!SendCell, SP!SendCell
  <1>4. ASSUME NEW m \in Messages, S!SendStarts(m) PROVE SP!SendStarts(m)
    BY <1>4, SameCells DEF S!SendStarts, SP!SendStarts
  <1>5. ASSUME NEW m \in Messages, S!NoPath(m) \/ S!SendFails(m) \/ S!SendReturns(m)
        PROVE  SP!NoPath(m) \/ SP!SendFails(m) \/ SP!SendReturns(m)
    BY <1>1, <1>5 DEF S!NoPath, SP!NoPath, S!SendFails, SP!SendFails, S!SendReturns, SP!SendReturns,
       S!GivenUp, SP!GivenUp
  <1>6. ASSUME NEW q PROVE S!Peels(q) <=> SP!Peels(q)
    BY DEF S!Peels, SP!Peels, S!PeelsWith, SP!PeelsWith, S!LayerKey, SP!LayerKey,
       S!DeriveKey, SP!DeriveKey, S!DiffieHellman, SP!DiffieHellman, S!RelayKey, SP!RelayKey
  <1>7. ASSUME NEW q \in packets, S!PeelForward(q) \/ S!PeelDeliver(q) \/ S!PeelFails(q)
        PROVE  SP!Relay(q)
    BY <1>6, <1>7 DEF S!PeelForward, SP!PeelForward, S!PeelDeliver, SP!PeelDeliver, S!PeelFails,
       SP!PeelFails, SP!Relay
  <1>8. ASSUME NEW q \in packets, S!Lose(q) PROVE SP!Lose(q)
    BY <1>8 DEF S!Lose, SP!Lose
  <1>9. ASSUME NEW r \in Relays, S!Restart(r) PROVE SP!Restart(r)
    BY <1>9 DEF S!Restart, SP!Restart, S!IdentityAfter, SP!IdentityAfter
  <1>10. SP!Next
    BY <1>3, <1>4, <1>5, <1>7, <1>8, <1>9 DEF SP!Next
  <1>11. QED
    BY <1>10, SP!NextIInv, EndToEndAssumption, CapacityAssumption, SeqMaxAssumption,
       MessageAssumption, KindAssumption, SameCells, SameSizes

\* Steps of the recipients and of veil-cli leave the sender's half as it is.
LEMMA SenderRests ==
    ASSUME SP!IInv, UNCHANGED sendVars
    PROVE  SP!IInv'
  <1>1. UNCHANGED SP!vars
    BY DEF sendVars, fabricVars, SP!vars, SP!clientVars, SP!netVars
  <1>2. QED
    BY <1>1, SP!NextIInv, EndToEndAssumption, CapacityAssumption, SeqMaxAssumption,
       MessageAssumption, KindAssumption, SameCells, SameSizes

\* Neither does another topology matter to the cells on their way.
LEMMA SenderSetUp ==
    ASSUME SP!IInv, topology' \in SUBSET Relays, hopCount' \in Nat, UNCHANGED fabricVars
    PROVE  SP!IInv'
  <1>1. UNCHANGED <<call, cover, identity, packets, route, visits, surfaced, unpeeled, faults>>
    BY DEF fabricVars
  <1>2. SP!Net'
    BY <1>1 DEF SP!IInv, SP!Net, SP!NetTypes, SP!Follow, SP!Frames, SP!OneFrame
  <1>3. SP!Client'
    BY <1>1 DEF SP!IInv, SP!Client, SP!ClientTypes, SP!Unsent, SP!Left, SP!Reports, SP!Sent
  <1>4. SP!Drawn' /\ SP!Identities'
    BY <1>1 DEF SP!IInv, SP!Drawn, SP!Identities, SP!PersistentRelaysPeel
  <1>5. QED
    BY <1>1, <1>2, <1>3, <1>4 DEF SP!IInv

------------------------------------------------------------------------------
(***************************************************************************)
(* The invariant of the whole: those of the halves, and what links them.   *)
(* A cell leaves the fabric only if it was given a path, and a message is  *)
(* returned for its inserted cells; a send that failed has cells left.     *)
(* While veil-cli runs there is one sender and one recipient, and without  *)
(* a failed pull every cell that left the fabric waits at a relay, is in   *)
(* the recipient's hands or is printed.                                    *)
(***************************************************************************)
Unfinished == \A m \in Messages : call[m].pc = "err" => call[m].next < TotalCells(m)

Launched == \A c \in exited : route[c] # <<>>

Earned == \A p \in Receivers : \A i \in DOMAIN outputs[p] :
              \E m \in Messages : outputs[p][i] = Result(m) /\ CellsOf(m) \subseteq inserted[p]

EmptyHands == \A p \in Receivers : phase[p] = "idle" => gathered[p] = <<>>

CliTypes == cli \in [pc : {"off", "start", "send", "sleep", "receive", "done", "exit1", "panic"},
                     addrs : Seq(Relays), printed : Seq(AllCells)]

CliAlone ==
    cli.pc # "off" =>
        /\ \A c \in AllCells : route[c] # <<>> => c \in CellsOf(CliMessage)
        /\ \A p \in Receivers : inserted[p] = {} /\ (p # CliUser => phase[p] = "idle")
        /\ cli.pc # "receive" => phase[CliUser] = "idle"

CliPrinted == /\ cli.printed # <<>> => cli.pc = "done"
              /\ Distinct(cli.printed)
              /\ Elems(cli.printed) \subseteq exited \ Queue

CliDrained ==
    cli.pc # "off" /\ fails = 0 =>
        /\ orphans = [z \in Relays |-> 0]
        /\ exited \subseteq Queue \cup Held[CliUser] \cup Elems(cli.printed)

SystemInv == /\ SP!IInv /\ IInv
             /\ Unfinished /\ Launched /\ Earned /\ EmptyHands
             /\ CliTypes /\ CliAlone /\ CliPrinted /\ CliDrained

\* A call of send: no cell loses its path, and only cells of m get one.
LEMMA CallFacts ==
    ASSUME SP!IInv, Unfinished, NEW m \in Messages,
           \/ S!SendStarts(m) \/ S!SendCell(m) \/ S!NoPath(m)
           \/ S!SendFails(m) \/ S!SendReturns(m)
    PROVE  /\ Unfinished'
           /\ \A c \in AllCells : route[c] # <<>> => route'[c] # <<>>
           /\ \A c \in AllCells \ CellsOf(m) : route'[c] = route[c]
  <1>1. /\ call \in [Messages -> [pc : {"idle", "loop", "ok", "err"}, next : Nat, sent : Seq(Relays)]]
        /\ route \in [AllCells -> Seq(Relays)]
    BY SameCells DEF SP!IInv, SP!Client, SP!ClientTypes, SP!Net, SP!NetTypes
  <1>2. ASSUME NEW n \in Messages, n # m PROVE call'[n] = call[n]
    BY <1>1, <1>2 DEF S!SendStarts, S!SendCell, S!NoPath, S!SendFails, S!SendReturns, S!GivenUp
  <1>3. S!More(m) => call[m].pc = "loop" /\ call[m].next < TotalCells(m)
    BY SameCells DEF S!More
  <1>4. call'[m].pc = "err" => call'[m].next < TotalCells(m)
    <2>1. CASE S!SendStarts(m)
      <3>1. FragmentOk(m) /\ S!FragmentOk(m)
        BY SameCells, DeliveryAssumption
      <3>2. QED
        BY <1>1, <2>1, <3>1 DEF S!SendStarts
    <2>2. CASE S!SendCell(m)
      BY <1>1, <1>3, <2>2 DEF S!SendCell
    <2>3. CASE S!NoPath(m) \/ S!SendFails(m)
      BY <1>1, <1>3, <2>3 DEF S!NoPath, S!SendFails, S!GivenUp
    <2>4. CASE S!SendReturns(m)
      BY <1>1, <2>4 DEF S!SendReturns
    <2>5. QED
      BY <2>1, <2>2, <2>3, <2>4
  <1>5. Unfinished'
    BY <1>2, <1>4 DEF Unfinished
  <1>6. \/ route' = route
        \/ /\ S!More(m)
           /\ \E p : route' = [route EXCEPT ![S!NextCell(m)] = p]
    BY DEF S!SendStarts, S!SendCell, S!NoPath, S!SendFails, S!SendReturns
  <1>7. S!More(m) => /\ S!NextCell(m) \in CellsOf(m) /\ S!NextCell(m) \in AllCells
                     /\ route[S!NextCell(m)] = <<>>
    <2> SUFFICES ASSUME S!More(m) PROVE /\ S!NextCell(m) \in CellsOf(m) /\ S!NextCell(m) \in AllCells
                                        /\ route[S!NextCell(m)] = <<>>
      OBVIOUS
    <2>1. S!NextCell(m) = CellOf(m, call[m].next)
      BY SameCells DEF S!NextCell
    <2>2. TotalCells(m) \in Nat
      BY DeliveryAssumption, LengthOk, TotalInRange, SeqMaxAssumption
    <2>3. call[m].next \in 0 .. TotalCells(m) - 1 /\ Kind[m] # "dummy"
      BY <1>1, <1>3, <2>2 DEF SP!IInv, SP!Client, SP!Reports
    <2>4. call[m].next \in SP!Left(m)
      BY <2>2, <2>3, SameCells DEF SP!Left
    <2>5. route[CellOf(m, call[m].next)] = <<>>
      BY <2>4, SameCells DEF SP!IInv, SP!Client, SP!Unsent
    <2>6. CellOf(m, call[m].next) \in CellsOf(m)
      BY <2>3 DEF CellsOf
    <2>7. QED
      BY <2>1, <2>5, <2>6 DEF AllCells
  <1>8. \A c \in AllCells : c # S!NextCell(m) \/ ~S!More(m) => route'[c] = route[c]
    BY <1>1, <1>6
  <1>9. QED
    BY <1>5, <1>7, <1>8

\* What relays do to frames changes no path and no call.
LEMMA FabricFacts ==
    ASSUME \/ \E q \in packets : S!PeelForward(q) \/ S!PeelDeliver(q) \/ S!PeelFails(q) \/ S!Lose(q)
           \/ \E r \in Relays : S!Restart(r)
    PROVE  route' = route /\ call' = call
  BY DEF S!PeelForward, S!PeelDeliver, S!PeelFails, S!Lose, S!Restart, S!clientVars

\* The queues and hands after a step, spelled out.
LEMMA QueueIs ==
    /\ Queue = UNION {Elems(channel[s]) \cup Elems(mailbox[s]) : s \in Relays}
    /\ Queue' = UNION {Elems(channel'[s]) \cup Elems(mailbox'[s]) : s \in Relays}
    /\ \A p \in Receivers : /\ Held[p] = Elems(reply[p]) \cup Elems(gathered[p])
                            /\ Held'[p] = Elems(reply'[p]) \cup Elems(gathered'[p])
  BY DEF Queue, Held, Elems

\* Everything is in its place at the start.
LEMMA SystemInitInv == SystemInit => SystemInv
  <1> SUFFICES ASSUME SystemInit PROVE SystemInv
    OBVIOUS
  <1>1. IInv /\ SP!IInv
    BY InitInv, SenderInit DEF SystemInit
  <1>2. Unfinished
    BY SameCells DEF SystemInit, S!Init, Unfinished
  <1>3. Launched /\ Earned /\ EmptyHands
    BY DEF SystemInit, Init, Launched, Earned, EmptyHands
  <1>4. /\ cli.pc \in {"off", "start"} /\ cli.addrs = <<>> /\ cli.printed = <<>>
        /\ CliTypes
    <2>1. PICK start \in {"off", "start"} : cli = [pc |-> start, addrs |-> <<>>, printed |-> <<>>]
      BY DEF SystemInit
    <2>2. <<>> \in Seq(Relays) /\ <<>> \in Seq(AllCells)
      OBVIOUS
    <2>3. QED
      BY <2>1, <2>2 DEF CliTypes
  <1>5. CliPrinted
    BY <1>4, ElemsEmpty DEF CliPrinted
  <1>6. CliAlone
    BY SameCells, EndToEndAssumption DEF SystemInit, Init, S!Init, CliAlone
  <1>7. CliDrained
    BY DEF SystemInit, Init, CliDrained
  <1>8. QED
    BY <1>1, <1>2, <1>3, <1>4, <1>5, <1>6, <1>7 DEF SystemInv

\* Steps of the sender's half alone.
LEMMA SenderKeeps ==
    ASSUME SystemInv, SP!IInv', Unfinished', UNCHANGED <<vars, cli>>,
           \A c \in AllCells : route[c] # <<>> => route'[c] # <<>>,
           cli.pc # "off" => \A c \in AllCells \ CellsOf(CliMessage) : route'[c] = route[c]
    PROVE  SystemInv'
  <1>1. UNCHANGED <<exited, channel, mailbox, orphans, phase, todo, reply, gathered,
                    inFlight, outputs, inserted, fails, cli>>
    BY DEF vars, relayVars, pollVars, storeVars
  <1>2. IInv'
    BY NextInv DEF SystemInv
  <1>3. Launched'
    BY <1>1 DEF SystemInv, IInv, Types, Launched
  <1>4. Earned' /\ EmptyHands' /\ CliTypes'
    BY <1>1 DEF SystemInv, Earned, EmptyHands, CliTypes
  <1>5. CliAlone'
    BY <1>1 DEF SystemInv, CliAlone
  <1>6. Queue' = Queue /\ Held' = Held
    BY <1>1 DEF Queue, Held, Elems
  <1>7. CliPrinted' /\ CliDrained'
    BY <1>1, <1>6 DEF SystemInv, CliPrinted, CliDrained, Elems, Distinct
  <1>8. QED
    BY <1>2, <1>3, <1>4, <1>5, <1>7 DEF SystemInv

\* A step of a call of send.
LEMMA SendKeeps ==
    ASSUME SystemInv, NEW m \in Messages,
           Sender(\/ S!SendStarts(m) \/ S!SendCell(m) \/ S!NoPath(m)
                  \/ S!SendFails(m) \/ S!SendReturns(m)),
           cli.pc # "off" => m = CliMessage \/ S!SendFails(m)
    PROVE  SystemInv'
  <1>1. SP!IInv'
    BY SenderStep DEF SystemInv, Sender
  <1>2. /\ Unfinished'
        /\ \A c \in AllCells : route[c] # <<>> => route'[c] # <<>>
        /\ \A c \in AllCells \ CellsOf(m) : route'[c] = route[c]
    BY CallFacts DEF SystemInv, Sender
  <1>3. S!SendFails(m) => route' = route
    BY DEF S!SendFails
  <1>4. QED
    BY <1>1, <1>2, <1>3, SenderKeeps DEF Sender

\* A relay passes a frame on or drops it, or the frame is lost.
LEMMA FrameKeeps ==
    ASSUME SystemInv, NEW q \in packets,
           Sender(S!PeelForward(q)) \/ Sender(S!PeelFails(q)) \/ Sender(S!Lose(q))
    PROVE  SystemInv'
  <1>1. SP!IInv'
    BY SenderStep DEF SystemInv, Sender
  <1>2. route' = route /\ call' = call
    BY FabricFacts DEF Sender
  <1>3. Unfinished'
    BY <1>2 DEF SystemInv, Unfinished
  <1>4. QED
    BY <1>1, <1>2, <1>3, SenderKeeps DEF Sender

\* Steps of the recipients' half alone.
LEMMA RecipientKeeps ==
    ASSUME SystemInv, IInv', UNCHANGED <<sendVars, cli>>, Earned', EmptyHands',
           exited' = exited, Queue' \subseteq Queue,
           cli.pc # "off" => /\ inserted' = inserted
                             /\ \A p \in Receivers : phase[p] = "idle" => phase'[p] = "idle",
           cli.pc # "off" /\ fails' = 0 =>
               orphans' = [z \in Relays |-> 0] /\ exited \subseteq Queue' \cup Held'[CliUser] \cup Elems(cli.printed)
    PROVE  SystemInv'
  <1>1. SP!IInv'
    BY SenderRests DEF SystemInv
  <1>2. UNCHANGED <<call, route>>
    BY DEF sendVars, fabricVars
  <1>3. Unfinished' /\ Launched'
    BY <1>2 DEF SystemInv, Unfinished, Launched
  <1>4. CliTypes'
    BY DEF SystemInv, CliTypes
  <1>5. CliAlone'
    BY <1>2, EndToEndAssumption DEF SystemInv, CliAlone
  <1>6. CliPrinted'
    BY DEF SystemInv, CliPrinted, Elems, Distinct
  <1>7. CliDrained'
    BY DEF CliDrained, Elems
  <1>8. QED
    BY <1>1, <1>3, <1>4, <1>5, <1>6, <1>7 DEF SystemInv

\* While veil-cli runs, all that leaves the fabric is for its user, who alone receives.
LEMMA CliFacts ==
    ASSUME SystemInv, cli.pc # "off"
    PROVE  /\ exited \subseteq CellsOf(CliMessage) /\ exited \subseteq Own(CliUser)
           /\ \A p \in Receivers : phase[p] # "idle" => p = CliUser
  <1>1. exited \subseteq CellsOf(CliMessage)
    BY DEF SystemInv, IInv, Types, Launched, CliAlone
  <1>2. ASSUME NEW c \in CellsOf(CliMessage) PROVE c \in Own(CliUser)
    <2>1. FragmentOk(CliMessage) /\ CliMessage \in Messages
      BY EndToEndAssumption, DeliveryAssumption
    <2>2. c \in AllCells /\ c.data.msg = CliMessage
      BY <2>1, CellFacts DEF AllCells
    <2>3. QED
      BY <2>2, EndToEndAssumption DEF Own
  <1>3. QED
    BY <1>1, <1>2 DEF SystemInv, CliAlone

\* The relay's task moves a cell from the channel to the mailbox.
LEMMA PumpKeeps ==
    ASSUME SystemInv, NEW r \in Relays, Recipients(Pump(r))
    PROVE  SystemInv'
  <1>1. Pump(r) /\ UNCHANGED <<sendVars, cli>> /\ IInv /\ IInv'
    BY PumpInv DEF Recipients, SystemInv
  <1>2. /\ channel[r] # <<>>
        /\ channel' = [channel EXCEPT ![r] = Tail(@)]
        /\ mailbox' = [mailbox EXCEPT ![r] = Append(@, Head(channel[r]))]
        /\ UNCHANGED <<exited, orphans, phase, reply, gathered, outputs, inserted, fails>>
    BY <1>1 DEF Pump, pollVars, storeVars
  <1>3. channel \in [Relays -> Seq(AllCells)] /\ mailbox \in [Relays -> Seq(AllCells)]
    BY <1>1 DEF IInv, Types
  <1>4. /\ channel'[r] = Tail(channel[r]) /\ \A s \in Relays \ {r} : channel'[s] = channel[s]
        /\ mailbox'[r] = Append(mailbox[r], Head(channel[r]))
        /\ \A s \in Relays \ {r} : mailbox'[s] = mailbox[s]
    BY <1>2, <1>3
  <1>5. /\ Head(channel[r]) \in AllCells
        /\ Elems(channel[r]) = Elems(Tail(channel[r])) \cup {Head(channel[r])}
    BY <1>2, <1>3, ElemsTail
  <1>6. Elems(mailbox'[r]) = Elems(mailbox[r]) \cup {Head(channel[r])}
    BY <1>3, <1>4, <1>5, ElemsAppend
  <1>7. \A s \in Relays : Elems(channel'[s]) \cup Elems(mailbox'[s])
                              = Elems(channel[s]) \cup Elems(mailbox[s])
    BY <1>4, <1>5, <1>6
  <1>8. Queue' = Queue
    BY <1>7, QueueIs
  <1>9. Held' = Held
    BY <1>2 DEF Held, Elems
  <1>10. Earned' /\ EmptyHands'
    BY <1>2 DEF SystemInv, Earned, EmptyHands
  <1>11. QED
    BY <1>1, <1>2, <1>8, <1>9, <1>10, RecipientKeeps DEF SystemInv, CliDrained

\* A relay answers a client that is gone, which none is without a fault.
LEMMA OrphanKeeps ==
    ASSUME SystemInv, NEW r \in Relays, Recipients(OrphanDrain(r))
    PROVE  SystemInv'
  <1>1. OrphanDrain(r) /\ UNCHANGED <<sendVars, cli>> /\ IInv /\ IInv'
    BY OrphanDrainInv DEF Recipients, SystemInv
  <1>2. /\ orphans[r] > 0
        /\ mailbox' = [mailbox EXCEPT ![r] = <<>>] \/ mailbox' = mailbox
        /\ UNCHANGED <<exited, channel, phase, reply, gathered, outputs, inserted, fails>>
    BY <1>1 DEF OrphanDrain, pollVars, storeVars
  <1>3. mailbox \in [Relays -> Seq(AllCells)]
    BY <1>1 DEF IInv, Types
  <1>4. \A s \in Relays : Elems(mailbox'[s]) \subseteq Elems(mailbox[s])
    <2>1. CASE mailbox' = mailbox
      BY <2>1
    <2>2. CASE mailbox' = [mailbox EXCEPT ![r] = <<>>]
      BY <1>3, <2>2, ElemsEmpty
    <2>3. QED
      BY <1>2, <2>1, <2>2
  <1>5. Queue' \subseteq Queue
    BY <1>2, <1>4, QueueIs
  <1>6. Earned' /\ EmptyHands'
    BY <1>2 DEF SystemInv, Earned, EmptyHands
  <1>7. ~(cli.pc # "off" /\ fails' = 0)
    BY <1>2 DEF SystemInv, CliDrained
  <1>8. QED
    BY <1>1, <1>2, <1>5, <1>6, <1>7, RecipientKeeps

\* A request is written, or a mailbox goes into the reply.
LEMMA RequestKeeps ==
    ASSUME SystemInv, NEW p \in Receivers, Recipients(Request(p))
    PROVE  SystemInv'
  <1>1. Request(p) /\ UNCHANGED <<sendVars, cli>> /\ IInv
    BY DEF Recipients, SystemInv
  <1>2. IInv'
    <2>1. <<>> \in Seq(Relays)
      OBVIOUS
    <2>2. QED
      BY <1>1, <2>1, PhaseInv
  <1>3. /\ phase[p] = "connect" /\ phase' = [phase EXCEPT ![p] = "request"]
        /\ UNCHANGED <<exited, channel, mailbox, orphans, reply, gathered, outputs, inserted, fails>>
    BY <1>1 DEF Request, relayVars, storeVars
  <1>4. \A q \in Receivers : phase'[q] = "idle" <=> phase[q] = "idle"
    BY <1>1, <1>3 DEF IInv, Types
  <1>5. Queue' = Queue /\ Held' = Held
    BY <1>3 DEF Queue, Held, Elems
  <1>6. Earned' /\ EmptyHands'
    BY <1>3, <1>4 DEF SystemInv, Earned, EmptyHands
  <1>7. QED
    BY <1>1, <1>2, <1>3, <1>4, <1>5, <1>6, RecipientKeeps DEF SystemInv, CliDrained

\* A relay empties its mailbox into the reply.
LEMMA DrainKeeps ==
    ASSUME SystemInv, NEW p \in Receivers, Recipients(Drain(p))
    PROVE  SystemInv'
  <1> DEFINE r == Polled(p)
             X == Elems(mailbox[r])
  <1>1. Drain(p) /\ UNCHANGED <<sendVars, cli>> /\ IInv /\ IInv'
    BY DrainInv DEF Recipients, SystemInv
  <1>2. /\ phase[p] = "request" /\ phase' = [phase EXCEPT ![p] = "reply"]
        /\ reply' = [reply EXCEPT ![p] = mailbox[r]]
        /\ mailbox' = [mailbox EXCEPT ![r] = <<>>]
        /\ UNCHANGED <<exited, channel, orphans, gathered, outputs, inserted, fails>>
    BY <1>1 DEF Drain, storeVars
  <1>3. r \in Relays
    <2>1. todo[p] \in Seq(Relays) /\ todo[p] # <<>>
      BY <1>1, <1>2 DEF IInv, Types, Control, Polling
    <2>2. QED
      BY <2>1 DEF Polled
  <1>4. /\ mailbox \in [Relays -> Seq(AllCells)] /\ reply \in [Receivers -> Seq(AllCells)]
        /\ phase \in [Receivers -> Polling \cup {"idle", "insert"}] /\ reply[p] = <<>>
    BY <1>1, <1>2 DEF IInv, Types, Control
  <1> HIDE DEF r
  <1>5. /\ reply'[p] = mailbox[r] /\ \A q \in Receivers \ {p} : reply'[q] = reply[q]
        /\ mailbox'[r] = <<>> /\ \A s \in Relays \ {r} : mailbox'[s] = mailbox[s]
        /\ \A q \in Receivers : phase'[q] = "idle" <=> phase[q] = "idle"
    BY <1>2, <1>3, <1>4
  <1>6. Elems(reply[p]) = {} /\ Elems(mailbox'[r]) = {}
    BY <1>4, <1>5, ElemsEmpty
  <1>7. Held'[p] = Held[p] \cup X
    BY <1>2, <1>5, <1>6, QueueIs
  <1>8. \A s \in Relays : /\ Elems(channel'[s]) = Elems(channel[s])
                          /\ Elems(mailbox'[s]) = IF s = r THEN {} ELSE Elems(mailbox[s])
    <2>1. channel' = channel
      BY <1>2
    <2>2. \A s \in Relays : Elems(mailbox'[s]) = IF s = r THEN {} ELSE Elems(mailbox[s])
      BY <1>5, <1>6
    <2>3. QED
      BY <2>1, <2>2
  <1>9. Queue' \subseteq Queue /\ Queue \subseteq Queue' \cup X
    BY <1>3, <1>8, QueueIs
  <1> HIDE DEF X
  <1>10. Earned' /\ EmptyHands'
    BY <1>2, <1>5 DEF SystemInv, Earned, EmptyHands
  <1>11. ASSUME cli.pc # "off", fails' = 0
         PROVE  orphans' = [z \in Relays |-> 0] /\ exited \subseteq Queue' \cup Held'[CliUser] \cup Elems(cli.printed)
    <2>1. p = CliUser
      BY <1>2, <1>11, CliFacts
    <2>2. /\ orphans = [z \in Relays |-> 0]
          /\ exited \subseteq Queue \cup Held[CliUser] \cup Elems(cli.printed)
      BY <1>2, <1>11 DEF SystemInv, CliDrained
    <2>3. QED
      BY <1>2, <1>7, <1>9, <2>1, <2>2
  <1>12. QED
    BY <1>1, <1>2, <1>5, <1>9, <1>10, <1>11, RecipientKeeps

\* A pull is read: veil-cli's user keeps all of it.
LEMMA PullReturnsKeeps ==
    ASSUME SystemInv, NEW p \in Receivers, Recipients(PullReturns(p))
    PROVE  SystemInv'
  <1>1. PullReturns(p) /\ UNCHANGED <<sendVars, cli>> /\ IInv /\ IInv'
    BY PullReturnsInv DEF Recipients, SystemInv
  <1>2. /\ phase[p] = "reply" /\ phase' = [phase EXCEPT ![p] = Loop(Tail(todo[p]))]
        /\ gathered' = [gathered EXCEPT ![p] = @ \o Decrypted(p)]
        /\ reply' = [reply EXCEPT ![p] = <<>>]
        /\ UNCHANGED <<exited, channel, mailbox, orphans, outputs, inserted, fails>>
    BY <1>1 DEF PullReturns, relayVars, storeVars
  <1>3. /\ reply \in [Receivers -> Seq(AllCells)] /\ gathered \in [Receivers -> Seq(AllCells)]
        /\ phase \in [Receivers -> Polling \cup {"idle", "insert"}]
        /\ reply[p] \in Seq(AllCells) /\ gathered[p] \in Seq(AllCells)
    BY <1>1 DEF IInv, Types
  <1>4. gathered'[p] = gathered[p] \o Decrypted(p)
    BY <1>2, <1>3
  <1>5. /\ Decrypted(p) \in Seq(AllCells)
        /\ Elems(Decrypted(p)) = Elems(reply[p]) \cap Own(p)
    BY <1>3, DecryptedOwn
  <1>6. Elems(gathered'[p]) = Elems(gathered[p]) \cup (Elems(reply[p]) \cap Own(p))
    BY <1>3, <1>4, <1>5, ElemsConcat
  <1>7. Queue' = Queue
    BY <1>2 DEF Queue, Elems
  <1>8. /\ phase'[p] # "idle"
        /\ \A q \in Receivers \ {p} : phase'[q] = phase[q] /\ gathered'[q] = gathered[q]
    BY <1>2, <1>3 DEF Loop
  <1>9. Earned' /\ EmptyHands'
    <2>1. Earned'
      BY <1>2 DEF SystemInv, Earned
    <2>2. EmptyHands'
      BY <1>8 DEF SystemInv, EmptyHands
    <2>3. QED
      BY <2>1, <2>2
  <1>10. ASSUME cli.pc # "off", fails' = 0
         PROVE  orphans' = [z \in Relays |-> 0] /\ exited \subseteq Queue' \cup Held'[CliUser] \cup Elems(cli.printed)
    <2>1. p = CliUser /\ exited \subseteq Own(p)
      BY <1>2, <1>10, CliFacts
    <2>2. /\ orphans = [z \in Relays |-> 0]
          /\ exited \subseteq Queue \cup Held[CliUser] \cup Elems(cli.printed)
      BY <1>2, <1>10 DEF SystemInv, CliDrained
    <2>3. exited \cap Held[p] \subseteq Held'[p]
      BY <1>6, <2>1, QueueIs
    <2>4. QED
      BY <1>2, <1>7, <2>1, <2>2, <2>3
  <1>11. \A q \in Receivers : phase[q] = "idle" => phase'[q] = "idle"
    BY <1>2, <1>8
  <1>12. QED
    BY <1>1, <1>2, <1>7, <1>9, <1>10, <1>11, RecipientKeeps

\* A pull fails, and the client has nothing in its hands.
LEMMA PullFailsKeeps ==
    ASSUME SystemInv, NEW p \in Receivers, Recipients(PullFails(p))
    PROVE  SystemInv'
  <1>1. PullFails(p) /\ UNCHANGED <<sendVars, cli>> /\ IInv /\ IInv'
    BY PullFailsInv DEF Recipients, SystemInv
  <1>2. /\ fails' = fails + 1
        /\ phase' = [phase EXCEPT ![p] = "idle"]
        /\ gathered' = [gathered EXCEPT ![p] = <<>>]
        /\ UNCHANGED <<exited, channel, mailbox, outputs, inserted>>
    BY <1>1 DEF PullFails, storeVars
  <1>3. /\ gathered \in [Receivers -> Seq(AllCells)] /\ fails \in 0 .. MaxFails
        /\ phase \in [Receivers -> Polling \cup {"idle", "insert"}]
    BY <1>1 DEF IInv, Types
  <1>4. /\ phase'[p] = "idle" /\ gathered'[p] = <<>>
        /\ \A q \in Receivers \ {p} : phase'[q] = phase[q] /\ gathered'[q] = gathered[q]
    BY <1>2, <1>3
  <1>5. fails' # 0
    BY <1>2, <1>3
  <1>6. Queue' = Queue
    BY <1>2 DEF Queue, Elems
  <1>7. Earned' /\ EmptyHands'
    <2>1. Earned'
      BY <1>2 DEF SystemInv, Earned
    <2>2. EmptyHands'
      BY <1>4 DEF SystemInv, EmptyHands
    <2>3. QED
      BY <2>1, <2>2
  <1>8. \A q \in Receivers : phase[q] = "idle" => phase'[q] = "idle"
    BY <1>4
  <1>9. QED
    BY <1>1, <1>2, <1>5, <1>6, <1>7, <1>8, RecipientKeeps

\* An application starts to poll, and ends.
LEMMA PollKeeps ==
    ASSUME SystemInv, cli.pc = "off", NEW p \in Receivers,
           Recipients(PollStarts(p, MailboxAddrs[p]) \/ PollReturns(p))
    PROVE  SystemInv'
  <1>1. /\ PollStarts(p, MailboxAddrs[p]) \/ PollReturns(p)
        /\ UNCHANGED <<sendVars, cli>> /\ IInv
    BY DEF Recipients, SystemInv
  <1>2. IInv'
    <2>1. MailboxAddrs[p] \in Seq(Relays)
      BY DeliveryAssumption
    <2>2. QED
      BY <1>1, <2>1, PhaseInv
  <1>3. UNCHANGED <<exited, channel, mailbox, gathered, outputs, inserted>>
    BY <1>1 DEF PollStarts, PollReturns, relayVars, storeVars
  <1>4. Queue' = Queue
    BY <1>3 DEF Queue, Elems
  <1>5. Earned'
    BY <1>3 DEF SystemInv, Earned
  <1>6. phase \in [Receivers -> Polling \cup {"idle", "insert"}]
    BY <1>1 DEF IInv, Types
  <1>7. EmptyHands'
    <2>1. CASE PollStarts(p, MailboxAddrs[p])
      BY <1>6, <2>1 DEF PollStarts, Loop, SystemInv, EmptyHands
    <2>2. CASE PollReturns(p)
      BY <1>6, <2>2 DEF PollReturns, SystemInv, EmptyHands
    <2>3. QED
      BY <1>1, <2>1, <2>2
  <1>8. QED
    BY <1>1, <1>2, <1>3, <1>4, <1>5, <1>7, RecipientKeeps

\* A Receiver returns a message when it has inserted all of it.
LEMMA InsertKeeps ==
    ASSUME SystemInv, cli.pc = "off", NEW p \in Receivers, Recipients(InsertNext(p))
    PROVE  SystemInv'
  <1> DEFINE c == Head(gathered[p])
             m == c.data.msg
             F == inFlight[p]
             I == inserted[p]
  <1>1. InsertNext(p) /\ UNCHANGED <<sendVars, cli>> /\ IInv /\ IInv'
    BY InsertNextInv DEF Recipients, SystemInv
  <1>2. /\ gathered[p] # <<>> /\ phase[p] = "insert"
        /\ outputs' = IF Completes(F, c) THEN [outputs EXCEPT ![p] = Append(@, Message(F, c))]
                      ELSE outputs
        /\ inserted' = [inserted EXCEPT ![p] = @ \cup {c}]
        /\ gathered' = [gathered EXCEPT ![p] = Tail(@)]
        /\ UNCHANGED <<exited, channel, mailbox, phase>>
    BY <1>1 DEF InsertNext, relayVars
  <1>3. /\ gathered \in [Receivers -> Seq(AllCells)] /\ gathered[p] \in Seq(AllCells)
        /\ inserted \in [Receivers -> SUBSET AllCells]
        /\ outputs \in [Receivers -> Seq(Results)] /\ outputs[p] \in Seq(Results)
    BY <1>1 DEF IInv, Types
  <1>4. c \in AllCells /\ Elems(gathered[p]) = Elems(Tail(gathered[p])) \cup {c}
    BY <1>2, <1>3, ElemsTail
  <1>5. c \notin I /\ m \in Messages
    BY <1>1, <1>4, ApartFacts, CellOwner DEF IInv
  <1>6. /\ Completes(F, c) => CellsOf(m) \subseteq I \cup {c}
        /\ Completes(F, c) => Message(F, c) = Result(m)
    <2>1. StoreOk(F, I)
      BY <1>1 DEF IInv, Stores
    <2> HIDE DEF F, I, c
    <2>2. QED
      BY <1>4, <1>5, <2>1, InsertOne
  <1>7. /\ inserted'[p] = I \cup {c} /\ \A q \in Receivers \ {p} : inserted'[q] = inserted[q]
        /\ \A q \in Receivers \ {p} : outputs'[q] = outputs[q] /\ gathered'[q] = gathered[q]
    BY <1>2, <1>3
  <1> HIDE DEF c
  <1>8. ASSUME NEW i \in DOMAIN outputs'[p]
        PROVE  \E n \in Messages : outputs'[p][i] = Result(n) /\ CellsOf(n) \subseteq inserted'[p]
    <2>1. \/ i \in DOMAIN outputs[p] /\ outputs'[p][i] = outputs[p][i]
          \/ Completes(F, c) /\ outputs'[p][i] = Result(m)
      <3>1. CASE ~Completes(F, c)
        BY <1>2, <1>8, <3>1
      <3>2. CASE Completes(F, c)
        <4>1. Result(m) \in Results
          BY <1>5 DEF Results
        <4>2. outputs'[p] = Append(outputs[p], Result(m))
          BY <1>2, <1>3, <1>6, <3>2
        <4> HIDE DEF m, F
        <4>3. QED
          BY <1>3, <1>8, <3>2, <4>1, <4>2
      <3>3. QED
        BY <3>1, <3>2
    <2>2. CASE i \in DOMAIN outputs[p] /\ outputs'[p][i] = outputs[p][i]
      BY <1>7, <2>2 DEF SystemInv, Earned
    <2>3. CASE Completes(F, c) /\ outputs'[p][i] = Result(m)
      BY <1>5, <1>6, <1>7, <2>3
    <2>4. QED
      BY <2>1, <2>2, <2>3
  <1>9. Earned'
    BY <1>7, <1>8 DEF SystemInv, Earned
  <1>10. EmptyHands'
    BY <1>2, <1>7 DEF SystemInv, EmptyHands
  <1>11. Queue' = Queue
    BY <1>2 DEF Queue, Elems
  <1>12. QED
    BY <1>1, <1>2, <1>9, <1>10, <1>11, RecipientKeeps

\* The exit relay has peeled the last layer: the cell had a path.
LEMMA DeliverKeeps ==
    ASSUME SystemInv, NEW q \in packets, Deliver(q)
    PROVE  SystemInv'
  <1> DEFINE c == q.cell
             r == q.at
  <1>1. S!PeelDeliver(q) /\ Exit(c, r) /\ cli' = cli /\ IInv
    BY DEF Deliver, SystemInv
  <1>2. SP!IInv'
    BY <1>1, SenderStep DEF SystemInv
  <1>3. route' = route /\ call' = call
    BY <1>1, FabricFacts
  <1>4. c \in AllCells /\ r \in Relays /\ route[c] # <<>>
    <2>1. SP!Net
      BY DEF SystemInv, SP!IInv
    <2>2. /\ c \in AllCells /\ r \in Relays
          /\ route[c] \in Seq(Relays) /\ visits[c] \in Seq(Relays)
      BY <2>1, SameCells DEF SP!Net, SP!NetTypes
    <2>3. Len(visits[c]) < Len(route[c])
      BY <2>1 DEF SP!Net, SP!Frames, SP!FrameOk
    <2>4. QED
      BY <2>2, <2>3
  <1> HIDE DEF c, r
  <1>5. IInv'
    BY <1>1, <1>4, ExitInv
  <1>6. /\ c \notin exited /\ exited' = exited \cup {c}
        /\ channel' = [channel EXCEPT ![r] = Append(@, c)]
        /\ UNCHANGED <<mailbox, orphans, phase, reply, gathered, outputs, inserted, fails>>
    BY <1>1 DEF Exit, pollVars, storeVars
  <1>7. channel \in [Relays -> Seq(AllCells)] /\ channel[r] \in Seq(AllCells)
    BY <1>1, <1>4 DEF IInv, Types
  <1>8. \A s \in Relays : Elems(channel'[s]) = IF s = r THEN Elems(channel[s]) \cup {c}
                                               ELSE Elems(channel[s])
    BY <1>4, <1>6, <1>7, ElemsAppend
  <1>9. Queue' = Queue \cup {c}
    BY <1>4, <1>6, <1>8 DEF Queue, Elems
  <1>10. Held' = Held
    BY <1>6 DEF Held, Elems
  <1>11. Unfinished' /\ Launched'
    BY <1>3, <1>4, <1>6 DEF SystemInv, Unfinished, Launched
  <1>12. Earned' /\ EmptyHands' /\ CliTypes'
    BY <1>1, <1>6 DEF SystemInv, Earned, EmptyHands, CliTypes
  <1>13. CliAlone'
    BY <1>1, <1>3, <1>6 DEF SystemInv, CliAlone
  <1>14. CliPrinted'
    BY <1>1, <1>6, <1>9 DEF SystemInv, CliPrinted, Elems, Distinct
  <1>15. CliDrained'
    BY <1>1, <1>6, <1>9, <1>10 DEF SystemInv, CliDrained, Elems
  <1>16. QED
    BY <1>2, <1>5, <1>11, <1>12, <1>13, <1>14, <1>15 DEF SystemInv

\* A relay starts again.
LEMMA RestartKeeps ==
    ASSUME SystemInv, NEW r \in Relays, RestartRelay(r)
    PROVE  SystemInv'
  <1>1. S!Restart(r) /\ Restart(r) /\ cli' = cli /\ IInv
    BY DEF RestartRelay, SystemInv
  <1>2. SP!IInv' /\ IInv'
    BY <1>1, SenderStep, RestartInv DEF SystemInv
  <1>3. route' = route /\ call' = call
    BY <1>1, FabricFacts
  <1>4. /\ fails' = fails + 1
        /\ channel' = [channel EXCEPT ![r] = <<>>]
        /\ mailbox' = [mailbox EXCEPT ![r] = <<>>]
        /\ UNCHANGED <<exited, outputs, inserted>>
    BY <1>1 DEF Restart, storeVars
  <1>5. /\ channel \in [Relays -> Seq(AllCells)] /\ mailbox \in [Relays -> Seq(AllCells)]
        /\ fails \in 0 .. MaxFails
    BY <1>1 DEF IInv, Types
  <1>6. \A s \in Relays : /\ Elems(channel'[s]) \subseteq Elems(channel[s])
                          /\ Elems(mailbox'[s]) \subseteq Elems(mailbox[s])
    BY <1>4, <1>5, ElemsEmpty
  <1>7. Queue' \subseteq Queue
    BY <1>6, QueueIs
  <1>8. fails' # 0
    BY <1>4, <1>5
  <1>9. \A p \in Receivers : \/ phase'[p] = "idle" /\ gathered'[p] = <<>>
                             \/ phase'[p] = phase[p] /\ gathered'[p] = gathered[p]
    <2>1. PICK Z \in SUBSET Receivers :
                /\ phase' = [p \in Receivers |-> IF p \in Z THEN "idle" ELSE phase[p]]
                /\ gathered' = [p \in Receivers |-> IF p \in Z THEN <<>> ELSE gathered[p]]
      BY <1>1, RestartCuts
    <2>2. QED
      BY <2>1
  <1>10. Unfinished' /\ Launched'
    BY <1>3, <1>4 DEF SystemInv, Unfinished, Launched
  <1>11. Earned' /\ CliTypes'
    BY <1>1, <1>4 DEF SystemInv, Earned, CliTypes
  <1>12. EmptyHands'
    BY <1>9 DEF SystemInv, EmptyHands
  <1>13. CliAlone'
    <2>1. UNCHANGED <<inserted, cli, route>>
      BY <1>1, <1>3, <1>4
    <2>2. QED
      BY <1>9, <2>1, EndToEndAssumption DEF SystemInv, CliAlone
  <1>14. CliPrinted' /\ CliDrained'
    BY <1>1, <1>4, <1>7, <1>8 DEF SystemInv, CliPrinted, CliDrained, Elems, Distinct
  <1>15. QED
    BY <1>2, <1>10, <1>11, <1>12, <1>13, <1>14 DEF SystemInv

\* veil-cli goes on, and nothing else happens but that it may load a topology.
LEMMA CliKeeps ==
    ASSUME SystemInv, SP!IInv', UNCHANGED <<fabricVars, vars>>, CliTypes',
           cli.pc \notin {"off", "done"}, cli'.pc # "off", cli'.printed = cli.printed,
           cli'.pc # "receive" => phase[CliUser] = "idle"
    PROVE  SystemInv'
  <1>1. UNCHANGED <<exited, channel, mailbox, orphans, phase, todo, reply, gathered,
                    inFlight, outputs, inserted, fails, call, route>>
    BY DEF vars, relayVars, pollVars, storeVars, fabricVars
  <1>2. IInv'
    BY NextInv DEF SystemInv
  <1>3. Unfinished' /\ Launched' /\ Earned' /\ EmptyHands'
    BY <1>1 DEF SystemInv, Unfinished, Launched, Earned, EmptyHands
  <1>4. CliAlone'
    BY <1>1 DEF SystemInv, CliAlone
  <1>5. Queue' = Queue /\ Held' = Held
    BY <1>1 DEF Queue, Held, Elems
  <1>6. cli.printed = <<>>
    BY DEF SystemInv, CliPrinted
  <1>7. CliPrinted'
    BY <1>1, <1>5, <1>6, ElemsEmpty DEF CliPrinted
  <1>8. CliDrained'
    BY <1>1, <1>5 DEF SystemInv, CliDrained
  <1>9. QED
    BY <1>2, <1>3, <1>4, <1>7, <1>8 DEF SystemInv

\* veil-cli has a topology of known relays.
LEMMA CliSetsUpKeeps ==
    ASSUME SystemInv, NEW relays \in SUBSET Relays, NEW hops \in Nat, NEW addrs \in Seq(Relays),
           CliSetsUp(relays, hops, addrs)
    PROVE  SystemInv'
  <1>1. /\ cli.pc = "start" /\ topology' = relays /\ hopCount' = hops
        /\ cli' = [cli EXCEPT !.pc = "send", !.addrs = addrs]
        /\ UNCHANGED <<fabricVars, vars>>
    BY DEF CliSetsUp
  <1>2. SP!IInv'
    BY <1>1, SenderSetUp DEF SystemInv
  <1>3. CliTypes' /\ cli'.pc = "send" /\ cli'.printed = cli.printed
    BY <1>1 DEF SystemInv, CliTypes
  <1>4. phase[CliUser] = "idle"
    BY <1>1 DEF SystemInv, CliAlone
  <1>5. QED
    BY <1>1, <1>2, <1>3, <1>4, CliKeeps

\* With relays of its own veil-cli has as many as it was asked for.
LEMMA CliSelfHostedKeeps ==
    ASSUME SystemInv, NEW n \in 0 .. Len(MailboxAddrs[CliUser]), CliSelfHosted(n)
    PROVE  SystemInv'
  <1> DEFINE addrs == SubSeq(MailboxAddrs[CliUser], 1, n)
  <1>1. MailboxAddrs[CliUser] \in Seq(Relays)
    BY EndToEndAssumption, DeliveryAssumption
  <1>2. addrs \in Seq(Relays) /\ n \in Nat
    BY <1>1
  <1>3. CliSetsUp(Elems(addrs), n, addrs)
    BY DEF CliSelfHosted
  <1> HIDE DEF addrs
  <1>4. Elems(addrs) \in SUBSET Relays
    BY <1>2, ElemsType
  <1>5. QED
    BY <1>2, <1>3, <1>4, CliSetsUpKeeps

\* With a topology file veil-cli polls its relays in some order.
LEMMA CliExternalKeeps ==
    ASSUME SystemInv, NEW relays \in Topologies, CliExternal(relays)
    PROVE  SystemInv'
  <1>1. relays \in SUBSET Relays /\ IsFiniteSet(relays)
    BY EndToEndAssumption, FS_Subset
  <1>2. Cardinality(relays) \in Nat /\ S!Cardinality(relays) = Cardinality(relays)
    BY <1>1, FS_CardinalityType, SameSizes
  <1>3. Clamp(Cardinality(relays)) \in Nat
    BY <1>2 DEF Clamp
  <1>4. PICK addrs \in S!Shuffles(relays) :
            CliSetsUp(relays, Clamp(Cardinality(relays)), addrs)
    BY DEF CliExternal
  <1>5. addrs \in [1 .. Cardinality(relays) -> relays]
    BY <1>2, <1>4 DEF S!Shuffles
  <1>6. addrs \in Seq(Relays)
    <2>1. addrs \in [1 .. Cardinality(relays) -> Relays]
      BY <1>1, <1>5
    <2>2. QED
      BY <1>2, <2>1
  <1>7. QED
    BY <1>1, <1>3, <1>4, <1>6, CliSetsUpKeeps

\* veil-cli panics, or has sent its message.
LEMMA CliGoesOn ==
    ASSUME SystemInv, CliRefuses \/ CliSent \/ CliReceiveFails
    PROVE  SystemInv'
  <1>1. /\ cli.pc \in {"start", "send", "receive"}
        /\ \E pc \in {"panic", "sleep"} : cli' = [cli EXCEPT !.pc = pc]
        /\ UNCHANGED <<sendVars, vars>>
    BY DEF CliRefuses, CliSent, CliReceiveFails, CliGoTo
  <1>2. CliTypes' /\ cli'.pc \in {"panic", "sleep"} /\ cli'.printed = cli.printed
    BY <1>1 DEF SystemInv, CliTypes
  <1>3. phase[CliUser] = "idle"
    BY DEF SystemInv, CliAlone, CliRefuses, CliSent, CliReceiveFails
  <1>4. SP!IInv' /\ UNCHANGED fabricVars
    BY <1>1, SenderRests DEF SystemInv, sendVars
  <1>5. QED
    BY <1>1, <1>2, <1>3, <1>4, CliKeeps

\* veil-cli has slept, and calls receive.
LEMMA CliReceivesKeeps ==
    ASSUME SystemInv, CliReceives
    PROVE  SystemInv'
  <1>1. /\ cli.pc = "sleep" /\ PollStarts(CliUser, cli.addrs)
        /\ cli' = [cli EXCEPT !.pc = "receive"]
        /\ UNCHANGED sendVars
    BY DEF CliReceives, CliGoTo
  <1>2. CliUser \in Receivers /\ cli.addrs \in Seq(Relays) /\ IInv
    BY EndToEndAssumption DEF SystemInv, CliTypes
  <1>3. IInv' /\ SP!IInv'
    BY <1>1, <1>2, PhaseInv, SenderRests DEF SystemInv
  <1>4. /\ phase' = [phase EXCEPT ![CliUser] = Loop(cli.addrs)]
        /\ UNCHANGED <<exited, channel, mailbox, orphans, reply, gathered, outputs, inserted, fails>>
    BY <1>1 DEF PollStarts, relayVars, storeVars
  <1>5. phase \in [Receivers -> Polling \cup {"idle", "insert"}]
    BY <1>2 DEF IInv, Types
  <1>6. /\ phase'[CliUser] # "idle"
        /\ \A p \in Receivers \ {CliUser} : phase'[p] = phase[p]
    BY <1>2, <1>4, <1>5 DEF Loop
  <1>7. CliTypes' /\ cli'.pc = "receive" /\ cli'.printed = cli.printed
    BY <1>1 DEF SystemInv, CliTypes
  <1>8. UNCHANGED <<call, route>>
    BY <1>1 DEF sendVars, fabricVars
  <1>9. Unfinished' /\ Launched' /\ Earned'
    BY <1>4, <1>8 DEF SystemInv, Unfinished, Launched, Earned
  <1>10. EmptyHands'
    BY <1>4, <1>6 DEF SystemInv, EmptyHands
  <1>11. CliAlone'
    BY <1>1, <1>4, <1>6, <1>7, <1>8 DEF SystemInv, CliAlone
  <1>12. Queue' = Queue /\ Held' = Held
    BY <1>4 DEF Queue, Held, Elems
  <1>13. cli.printed = <<>>
    BY <1>1 DEF SystemInv, CliPrinted
  <1>14. CliPrinted'
    BY <1>7, <1>13, ElemsEmpty DEF CliPrinted
  <1>15. CliDrained'
    BY <1>1, <1>4, <1>7, <1>12 DEF SystemInv, CliDrained
  <1>16. QED
    BY <1>3, <1>7, <1>9, <1>10, <1>11, <1>14, <1>15 DEF SystemInv

\* veil-cli prints what it has gathered.
LEMMA CliPrintsKeeps ==
    ASSUME SystemInv, CliPrints
    PROVE  SystemInv'
  <1> DEFINE out == gathered[CliUser]
  <1>1. /\ cli.pc = "receive" /\ phase[CliUser] = "insert"
        /\ cli' = [cli EXCEPT !.pc = IF out = <<>> THEN "exit1" ELSE "done", !.printed = out]
        /\ phase' = [phase EXCEPT ![CliUser] = "idle"]
        /\ gathered' = [gathered EXCEPT ![CliUser] = <<>>]
        /\ UNCHANGED <<exited, channel, mailbox, orphans, todo, reply,
                       inFlight, outputs, inserted, fails>>
        /\ UNCHANGED sendVars
    BY DEF CliPrints, Printed, relayVars, storeVars
  <1>2. CliUser \in Receivers /\ IInv
    BY EndToEndAssumption DEF SystemInv
  <1>3. /\ phase \in [Receivers -> Polling \cup {"idle", "insert"}]
        /\ gathered \in [Receivers -> Seq(AllCells)] /\ out \in Seq(AllCells)
    BY <1>2 DEF IInv, Types
  <1>4. /\ phase'[CliUser] = "idle" /\ gathered'[CliUser] = <<>>
        /\ \A p \in Receivers \ {CliUser} : phase'[p] = phase[p] /\ gathered'[p] = gathered[p]
    BY <1>1, <1>2, <1>3
  <1>5. IInv'
    <2>1. Types'
      <3>1. phase' \in [Receivers -> Polling \cup {"idle", "insert"}]
        BY <1>1, <1>3
      <3>2. gathered' \in [Receivers -> Seq(AllCells)]
        <4>1. <<>> \in Seq(AllCells)
          OBVIOUS
        <4>2. QED
          BY <1>1, <1>3, <4>1
      <3>3. QED
        BY <1>1, <1>2, <3>1, <3>2 DEF IInv, Types
    <2>2. Control'
      BY <1>1, <1>2, <1>4 DEF IInv, Control, Polling
    <2>3. Known' /\ Apart' /\ NoRepeats'
      BY <1>1, <1>2, <1>4, SitesShrink
    <2>4. \A p \in Receivers : Elems(gathered'[p]) \subseteq Elems(gathered[p]) \cup Own(p)
      BY <1>4, ElemsEmpty
    <2>5. QED
      BY <1>1, <1>2, <2>1, <2>2, <2>3, <2>4, SameStores DEF IInv, storeVars
  <1>6. SP!IInv' /\ UNCHANGED <<call, route>>
    BY <1>1, SenderRests DEF SystemInv, sendVars, fabricVars
  <1>7. Unfinished' /\ Launched' /\ Earned'
    BY <1>1, <1>6 DEF SystemInv, Unfinished, Launched, Earned
  <1>8. EmptyHands'
    BY <1>4 DEF SystemInv, EmptyHands
  <1>9. /\ CliTypes' /\ cli'.printed = out /\ cli'.pc \in {"done", "exit1"}
        /\ out # <<>> => cli'.pc = "done"
    BY <1>1, <1>3 DEF SystemInv, CliTypes
  <1>10. CliAlone'
    BY <1>1, <1>4, <1>6, <1>9 DEF SystemInv, CliAlone
  <1>11. Queue' = Queue
    BY <1>1 DEF Queue, Elems
  <1>12. Elems(out) \subseteq exited /\ Elems(out) \cap Queue = {} /\ Distinct(out)
    <2>1. Elems(out) \subseteq exited
      BY <1>2, KnownFacts DEF IInv
    <2>2. \A r \in Relays : /\ Elems(channel[r]) \cap Elems(out) = {}
                            /\ Elems(mailbox[r]) \cap Elems(out) = {}
      BY <1>2, ApartFacts DEF IInv
    <2>3. Elems(out) \cap Queue = {}
      BY <2>2 DEF Queue
    <2>4. QED
      BY <1>2, <2>1, <2>3 DEF IInv, NoRepeats
  <1> HIDE DEF out
  <1>13. CliPrinted'
    BY <1>1, <1>9, <1>11, <1>12 DEF CliPrinted, Elems, Distinct
  <1>14. CliDrained'
    <2>1. Elems(cli.printed) = {} /\ Elems(reply[CliUser]) = {}
      BY <1>1, <1>2, ElemsEmpty DEF SystemInv, CliPrinted, IInv, Control
    <2>2. Held[CliUser] = Elems(out)
      BY <1>2, <2>1, QueueIs DEF out
    <2>3. fails' = 0 => orphans' = [z \in Relays |-> 0] /\ exited' \subseteq Queue' \cup Elems(cli'.printed)
      BY <1>1, <1>9, <1>11, <2>1, <2>2 DEF SystemInv, CliDrained
    <2>4. QED
      BY <2>3 DEF CliDrained, Elems
  <1>15. QED
    BY <1>5, <1>6, <1>7, <1>8, <1>9, <1>10, <1>13, <1>14 DEF SystemInv

\* Every step of the system keeps the invariant.
LEMMA SystemNextInv == SystemInv /\ [SystemNext]_systemVars => SystemInv'
  <1> SUFFICES ASSUME SystemInv, [SystemNext]_systemVars PROVE SystemInv'
    OBVIOUS
  <1>1. ASSUME NEW m \in Messages, AppSend(m) PROVE SystemInv'
    <2>1. cli.pc = "off" /\ Sender(\/ S!SendStarts(m) \/ S!SendCell(m) \/ S!NoPath(m)
                                   \/ S!SendFails(m) \/ S!SendReturns(m))
      BY <1>1 DEF AppSend, Send, SendAlone, SendOut, Sender
    <2>2. QED
      BY <2>1, SendKeeps
  <1>2. ASSUME NEW p \in Receivers, AppPoll(p) PROVE SystemInv'
    <2>1. /\ cli.pc = "off"
          /\ \/ Recipients(PollStarts(p, MailboxAddrs[p]) \/ PollReturns(p))
             \/ Recipients(InsertNext(p))
      BY <1>2 DEF AppPoll, Recipients
    <2>2. QED
      BY <2>1, PollKeeps, InsertKeeps
  <1>3. ASSUME NEW p \in Receivers, Pull(p) PROVE SystemInv'
    <2>1. Recipients(Request(p)) \/ Recipients(Drain(p)) \/ Recipients(PullReturns(p))
      BY <1>3 DEF Pull, Recipients
    <2>2. QED
      BY <2>1, RequestKeeps, DrainKeeps, PullReturnsKeeps
  <1>4. ASSUME NEW q \in packets, Relay(q) PROVE SystemInv'
    BY <1>4, DeliverKeeps, FrameKeeps DEF Relay
  <1>5. ASSUME NEW r \in Relays, Recipients(Pump(r) \/ OrphanDrain(r)) PROVE SystemInv'
    <2>1. Recipients(Pump(r)) \/ Recipients(OrphanDrain(r))
      BY <1>5 DEF Recipients
    <2>2. QED
      BY <2>1, PumpKeeps, OrphanKeeps
  <1>6. ASSUME Cli PROVE SystemInv'
    <2>1. ASSUME CliSends \/ CliSendsOut PROVE SystemInv'
      <3>1. /\ CliMessage \in Messages
            /\ Sender(\/ S!SendStarts(CliMessage) \/ S!SendCell(CliMessage)
                      \/ S!NoPath(CliMessage) \/ S!SendFails(CliMessage)
                      \/ S!SendReturns(CliMessage))
        BY <2>1, EndToEndAssumption DEF CliSends, CliSendsOut, SendAlone, SendOut, Sender
      <3>2. QED
        BY <3>1, SendKeeps
    <2>2. QED
      BY <1>6, <2>1, CliSelfHostedKeeps, CliExternalKeeps, CliGoesOn, CliReceivesKeeps,
         CliPrintsKeeps DEF Cli, CliSteps
  <1>7. ASSUME Fault PROVE SystemInv'
    <2>1. ASSUME NEW m \in Messages, Sender(S!SendFails(m)) PROVE SystemInv'
      <3>1. /\ Sender(\/ S!SendStarts(m) \/ S!SendCell(m) \/ S!NoPath(m)
                      \/ S!SendFails(m) \/ S!SendReturns(m))
            /\ S!SendFails(m)
        BY <2>1 DEF Sender
      <3>2. QED
        BY <3>1, SendKeeps
    <2>2. QED
      BY <1>7, <2>1, FrameKeeps, RestartKeeps, PullFailsKeeps DEF Fault
  <1>8. CASE UNCHANGED systemVars
    <2>1. UNCHANGED <<vars, cli>> /\ UNCHANGED sendVars
      BY <1>8 DEF systemVars
    <2>2. UNCHANGED <<call, route>>
      BY <2>1 DEF sendVars, fabricVars
    <2>3. SP!IInv' /\ Unfinished'
      BY <2>1, <2>2, SenderRests DEF SystemInv, Unfinished
    <2>4. QED
      BY <2>1, <2>2, <2>3, SenderKeeps
  <1>9. QED
    BY <1>1, <1>2, <1>3, <1>4, <1>5, <1>6, <1>7, <1>8 DEF SystemNext

\* The invariant of the whole holds throughout.
LEMMA SystemInvariance == System => []SystemInv
  BY SystemInitInv, SystemNextInv, PTL DEF System

------------------------------------------------------------------------------
(***************************************************************************)
(* A message that a Receiver has returned (receiver.rs) was sent whole:    *)
(* its send (client.rs) wrote every cell and has not failed and will not.  *)
(* So a client may send again what failed, without sending it twice.       *)
(***************************************************************************)
THEOREM OnlySentIsReturned == System => []ReturnedWasSent
  <1>1. ASSUME SystemInv PROVE ReturnedWasSent
    <2> SUFFICES ASSUME NEW m \in Messages, Got(m)
                 PROVE  call[m].pc # "err" /\ call[m].next = TotalCells(m)
      BY DEF ReturnedWasSent
    <2>1. PICK p \in Receivers : \E i \in DOMAIN outputs[p] : Whole(outputs[p][i], m)
      BY DEF Got
    <2>2. PICK i \in DOMAIN outputs[p] : Whole(outputs[p][i], m)
      BY <2>1
    <2>3. PICK n \in Messages : outputs[p][i] = Result(n) /\ CellsOf(n) \subseteq inserted[p]
      BY <1>1 DEF SystemInv, Earned
    <2>4. n = m
      BY <2>2, <2>3, DeliveryAssumption DEF Whole, Result
    <2>5. TotalCells(m) \in Nat \ {0}
      BY DeliveryAssumption, LengthOk, TotalInRange, SeqMaxAssumption
    <2>6. ASSUME NEW k \in 0 .. TotalCells(m) - 1
          PROVE  CellOf(m, k) \in inserted[p] /\ route[CellOf(m, k)] # <<>>
      <3>1. CellOf(m, k) \in inserted[p]
        BY <2>3, <2>4 DEF CellsOf
      <3>2. inserted[p] \subseteq exited
        BY <1>1, KnownFacts DEF SystemInv, IInv
      <3>3. QED
        BY <1>1, <3>1, <3>2 DEF SystemInv, Launched
    <2>7. Kind[m] # "dummy"
      <3>1. CellOf(m, 0) \in Own(p)
        BY <1>1, <2>5, <2>6 DEF SystemInv, IInv, OwnOnly
      <3>2. QED
        BY <3>1 DEF Own, CellOf, Chunk
    <2>8. call[m].next \in Nat /\ call[m].next <= TotalCells(m)
      BY <1>1, SameCells DEF SystemInv, SP!IInv, SP!Client, SP!ClientTypes, SP!Reports
    <2>9. ~(call[m].next < TotalCells(m))
      <3> SUFFICES ASSUME call[m].next < TotalCells(m) PROVE FALSE
        OBVIOUS
      <3>1. call[m].next \in 0 .. TotalCells(m) - 1
        BY <2>5, <2>8
      <3>2. call[m].next \in SP!Left(m)
        BY <2>5, <2>7, <3>1, SameCells DEF SP!Left
      <3>3. route[CellOf(m, call[m].next)] = <<>>
        BY <1>1, <3>2, SameCells DEF SystemInv, SP!IInv, SP!Client, SP!Unsent
      <3>4. QED
        BY <2>6, <3>1, <3>3
    <2>10. QED
      BY <1>1, <2>5, <2>8, <2>9 DEF SystemInv, Unfinished
  <1>2. QED
    BY <1>1, SystemInvariance, PTL

\* A sequence without repetitions has as many elements as places.
LEMMA DistinctCount ==
    ASSUME NEW U, NEW s \in Seq(U), Distinct(s)
    PROVE  Cardinality(Elems(s)) = Len(s)
  <1>1. Len(s) \in Nat /\ DOMAIN s = 1 .. Len(s) /\ s \in [1 .. Len(s) -> Elems(s)]
    BY DEF Elems
  <1>2. s \in Injection(1 .. Len(s), Elems(s))
    BY <1>1 DEF Injection, IsInjective, Distinct
  <1>3. s \in Surjection(1 .. Len(s), Elems(s))
    BY <1>1 DEF Surjection, Elems
  <1>4. ExistsBijection(1 .. Len(s), Elems(s))
    BY <1>2, <1>3 DEF ExistsBijection, Bijection
  <1>5. QED
    BY <1>1, <1>4, FS_CountingElements

(***************************************************************************)
(* What veil-cli prints (main.rs) is payloads of its own message, each at  *)
(* most once.  Unless a pull failed or a relay restarted, it prints every  *)
(* payload that had reached the mailboxes when they were drained.          *)
(***************************************************************************)
THEOREM CliPrintsWhatArrived == System => []CliOutput
  <1>1. ASSUME SystemInv PROVE CliOutput
    <2> DEFINE out == Elems(cli.printed)
               waiting == Waiting(channel) \cup Waiting(mailbox)
    <2>1. waiting = Queue
      <3>1. DOMAIN channel = Relays /\ DOMAIN mailbox = Relays
        BY <1>1 DEF SystemInv, IInv, Types
      <3>2. QED
        BY <3>1 DEF Waiting, Queue
    <2>2. cli.printed \in Seq(AllCells) /\ Distinct(cli.printed) /\ out \subseteq exited \ Queue
      BY <1>1 DEF SystemInv, CliTypes, CliPrinted
    <2>3. Cardinality(out) = Len(cli.printed)
      BY <2>2, DistinctCount
    <2>4. out \subseteq CellsOf(CliMessage)
      <3>1. CASE cli.pc = "off"
        BY <1>1, <3>1, ElemsEmpty DEF SystemInv, CliPrinted
      <3>2. CASE cli.pc # "off"
        BY <1>1, <2>2, <3>2, CliFacts
      <3>3. QED
        BY <3>1, <3>2
    <2> HIDE DEF out, waiting
    <2>5. ASSUME cli.pc \in {"done", "exit1"}, fails = 0
          PROVE  (exited \cap CellsOf(CliMessage)) \ waiting = out
      <3>1. phase[CliUser] = "idle" /\ CliUser \in Receivers
        BY <1>1, <2>5, EndToEndAssumption DEF SystemInv, CliAlone
      <3>2. gathered[CliUser] = <<>> /\ reply[CliUser] = <<>>
        BY <1>1, <3>1 DEF SystemInv, EmptyHands, IInv, Control
      <3>3. Held[CliUser] = {}
        BY <3>1, <3>2, ElemsEmpty, QueueIs
      <3>4. exited \subseteq Queue \cup out
        BY <1>1, <2>5, <3>3 DEF SystemInv, CliDrained, out
      <3>5. QED
        BY <2>1, <2>2, <2>4, <3>4
    <2>6. QED
      BY <2>3, <2>4, <2>5 DEF CliOutput, out, waiting
  <1>2. QED
    BY <1>1, SystemInvariance, PTL
==============================================================================
