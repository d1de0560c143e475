----------------------------- MODULE Reassembler -----------------------------
(***************************************************************************)
(* veil-core: the data structure of reassembly.rs, as operators on the     *)
(* value of Reassembler::in_flight.  in_flight is a function from the ids  *)
(* of the messages being received to PartialMessage records; fragments is  *)
(* a function from the indices already filled, so that `is_none()` at i    *)
(* reads i \notin DOMAIN fragments.                                        *)
(***************************************************************************)
EXTENDS Cells

Put(f, k, v) == [x \in DOMAIN f \cup {k} |-> IF x = k THEN v ELSE f[x]]

Remove(f, k) == [x \in DOMAIN f \ {k} |-> f[x]]

Empty == [x \in {} |-> x]

(***************************************************************************)
(* PartialMessage as or_insert_with creates it, and with one fragment      *)
(* stored: a fragment already present is neither replaced nor counted.     *)
(***************************************************************************)
NewPartial(total) == [total |-> total, received |-> 0, fragments |-> Empty]

\* Defect: a repeated cell is counted again.
StoredTwice(e, c) ==
    [total     |-> e.total,
     received  |-> e.received + 1,
     fragments |-> Put(e.fragments, c.index, c.data)]

\* Defect: the slots are numbered from one.
StoredFromOne(e, c) ==
    [total     |-> e.total,
     received  |-> e.received + 1,
     fragments |-> Put(e.fragments, c.index + 1, c.data)]

Stored(e, c) ==
    IF c.index \in DOMAIN e.fragments THEN e
    ELSE [total     |-> e.total,
          received  |-> e.received + 1,
          fragments |-> Put(e.fragments, c.index, c.data)]

(***************************************************************************)
(* Reassembler::insert.  The entry is created before seq_total is          *)
(* compared, from the seq_total of the first cell to arrive.               *)
(***************************************************************************)
Entry(inFlight, c) ==
    IF c.id \in DOMAIN inFlight THEN inFlight[c.id] ELSE NewPartial(c.total)

\* Defect: seq_total is not compared.
MismatchUnchecked(inFlight, c) == c.id \in {}

Mismatched(inFlight, c) == Entry(inFlight, c).total # c.total

\* Defect: the counter is read before the fragment is stored.
CompletesLate(inFlight, c) ==
    LET e == Entry(inFlight, c)
    IN  ~Mismatched(inFlight, c) /\ e.received = e.total

Completes(inFlight, c) ==
    LET e == Stored(Entry(inFlight, c), c)
    IN  ~Mismatched(inFlight, c) /\ e.received = e.total

\* Defect: a completed entry stays in in_flight.
InsertedKept(inFlight, c) ==
    IF Mismatched(inFlight, c) THEN inFlight
    ELSE Put(inFlight, c.id, Stored(Entry(inFlight, c), c))

\* Defect: a mismatched cell restarts the entry with its own seq_total.
InsertedRestart(inFlight, c) ==
    IF Mismatched(inFlight, c)
    THEN Put(inFlight, c.id, Stored(NewPartial(c.total), c))
    ELSE IF Completes(inFlight, c) THEN Remove(inFlight, c.id)
    ELSE Put(inFlight, c.id, Stored(Entry(inFlight, c), c))

(***************************************************************************)
(* in_flight after insert(c) returns.                                      *)
(***************************************************************************)
Inserted(inFlight, c) ==
    IF Mismatched(inFlight, c) THEN inFlight
    ELSE IF Completes(inFlight, c) THEN Remove(inFlight, c.id)
    ELSE Put(inFlight, c.id, Stored(Entry(inFlight, c), c))

(***************************************************************************)
(* The message insert(c) returns when it completes one: the fragments in   *)
(* the order of their index.                                               *)
(***************************************************************************)
Message(inFlight, c) ==
    [id        |-> c.id,
     total     |-> c.total,
     fragments |-> Stored(Entry(inFlight, c), c).fragments]

(***************************************************************************)
(* The fragments of o, put one after the other, are message m: from the    *)
(* first byte to the last, with no gap, no overlap and no foreign byte.    *)
(***************************************************************************)
Whole(o, m) ==
    /\ o.id = MessageId[m]
    /\ DOMAIN o.fragments = 0 .. TotalCells(m) - 1
    /\ \A i \in DOMAIN o.fragments : o.fragments[i].msg = m
    /\ o.fragments[0].from = 0
    /\ \A i \in DOMAIN o.fragments \ {0} :
           o.fragments[i].from = o.fragments[i - 1].upto
    /\ o.fragments[TotalCells(m) - 1].upto = MessageLen[m]
==============================================================================
