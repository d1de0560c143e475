----------------------------- MODULE Reassembly ------------------------------
(***************************************************************************)
(* veil-core end to end: messages are fragmented, their cells cross a      *)
(* fabric that reorders, loses and repeats them, and one Reassembler puts  *)
(* them together again.                                                    *)
(*                                                                         *)
(* Ids are random 16-byte strings; two messages that carry the same id     *)
(* stand for the inconsistent cells that insert answers with               *)
(* MismatchedMessageId, so they differ in their number of cells.           *)
(***************************************************************************)
EXTENDS Reassembler, FiniteSets

CONSTANT MaxDups    \* bound on the repeated deliveries of the fabric

ASSUME MaxDupsAssumption == MaxDups \in Nat

ASSUME IdAssumption ==
    \A m, n \in Messages :
        m # n /\ MessageId[m] = MessageId[n] => TotalCells(m) # TotalCells(n)

VARIABLES
    outcome,   \* result of fragment_message for each message
    net,       \* cells on their way to the receiver
    dups,      \* repeated deliveries so far
    inFlight,  \* Reassembler::in_flight
    outputs,   \* messages that insert has returned
    returned,  \* how often a message of Messages was returned
    arrivals,  \* how often each cell was inserted
    evicted    \* ids passed to Reassembler::evict

vars == <<outcome, net, dups, inFlight, outputs, returned, arrivals, evicted>>

Init == /\ outcome = [m \in Messages |-> "unsent"]
        /\ net = {}
        /\ dups = 0
        /\ inFlight = Empty
        /\ outputs = {}
        /\ returned = [m \in Messages |-> 0]
        /\ arrivals = [c \in AllCells |-> 0]
        /\ evicted = {}

(***************************************************************************)
(* fragment_message: all cells of the message, or an error and none.       *)
(***************************************************************************)
Fragment(m) ==
    /\ outcome[m] = "unsent"
    /\ outcome' = [outcome EXCEPT ![m] = IF FragmentOk(m) THEN "ok" ELSE "err"]
    /\ net' = IF FragmentOk(m) THEN net \cup CellsOf(m) ELSE net
    /\ UNCHANGED <<dups, inFlight, outputs, returned, arrivals, evicted>>

(***************************************************************************)
(* The fabric drops a cell.                                                *)
(***************************************************************************)
Lose(c) ==
    /\ c \in net
    /\ net' = net \ {c}
    /\ UNCHANGED <<outcome, dups, inFlight, outputs, returned, arrivals, evicted>>

(***************************************************************************)
(* The fabric hands a cell over, for the last time or not.                 *)
(***************************************************************************)
HandOver(c) ==
    /\ c \in net
    /\ arrivals' = [arrivals EXCEPT ![c] = @ + 1]
    /\ \/ net' = net \ {c} /\ UNCHANGED dups
       \/ dups < MaxDups /\ dups' = dups + 1 /\ UNCHANGED net

(***************************************************************************)
(* Reassembler::insert, one action for each of its three results.          *)
(***************************************************************************)
InsertRejected(c) ==
    /\ HandOver(c)
    /\ Mismatched(inFlight, c)
    /\ inFlight' = Inserted(inFlight, c)
    /\ UNCHANGED <<outcome, outputs, returned, evicted>>

InsertPending(c) ==
    /\ HandOver(c)
    /\ ~Mismatched(inFlight, c)
    /\ ~Completes(inFlight, c)
    /\ inFlight' = Inserted(inFlight, c)
    /\ UNCHANGED <<outcome, outputs, returned, evicted>>

InsertCompletes(c) ==
    /\ HandOver(c)
    /\ Completes(inFlight, c)
    /\ inFlight' = Inserted(inFlight, c)
    /\ outputs' = outputs \cup {Message(inFlight, c)}
    /\ returned' = [returned EXCEPT ![c.data.msg] = @ + 1]
    /\ UNCHANGED <<outcome, evicted>>

(***************************************************************************)
(* Reassembler::evict, called for an id the layer above gives up on.       *)
(***************************************************************************)
Evict(id) ==
    /\ id \in DOMAIN inFlight
    /\ inFlight' = Remove(inFlight, id)
    /\ evicted' = evicted \cup {id}
    /\ UNCHANGED <<outcome, net, dups, outputs, returned, arrivals>>

Next == \/ \E m \in Messages : Fragment(m)
        \/ \E c \in net : \/ Lose(c)
                          \/ InsertRejected(c)
                          \/ InsertPending(c)
                          \/ InsertCompletes(c)
        \/ \E id \in Ids : Evict(id)

Spec == Init /\ [][Next]_vars

------------------------------------------------------------------------------
ChunkSet == [msg : Messages, from : Nat, upto : Nat]

(***************************************************************************)
(* The type of in_flight: each vector of fragments has seq_total slots.    *)
(***************************************************************************)
InFlightOK ==
    /\ inFlight = [id \in DOMAIN inFlight |-> inFlight[id]]
    /\ DOMAIN inFlight \subseteq Ids
    /\ \A id \in DOMAIN inFlight :
         LET e == inFlight[id]
         IN  /\ e = [total     |-> e.total, received |-> e.received,
                     fragments |-> e.fragments]
             /\ e.total \in Nat
             /\ e.received \in Nat
             /\ DOMAIN e.fragments \subseteq 0 .. e.total - 1
             /\ e.fragments \in [DOMAIN e.fragments -> ChunkSet]

(***************************************************************************)
(* Type invariant.                                                         *)
(***************************************************************************)
TypeOK ==
    /\ outcome \in [Messages -> {"unsent", "ok", "err"}]
    /\ net \subseteq AllCells
    /\ dups \in 0 .. MaxDups
    /\ InFlightOK
    /\ returned \in [Messages -> Nat]
    /\ arrivals \in [AllCells -> Nat]
    /\ evicted \subseteq Ids

(***************************************************************************)
(* insert never indexes past its vector: a cell that passes the seq_total  *)
(* comparison has a slot in the entry it finds (entry.fragments[seq_index] *)
(* cannot panic), whatever mix of cells opened that entry.                 *)
(***************************************************************************)
IndexInBounds ==
    \A c \in net :
        ~Mismatched(inFlight, c) => c.index < Entry(inFlight, c).total

(***************************************************************************)
(* The counter `received` is the number of filled slots, and an entry that *)
(* stays in in_flight is incomplete: repeated cells do not run the counter *)
(* up to seq_total early (the `expect` on each fragment cannot fail).      *)
(***************************************************************************)
CounterExact ==
    \A id \in DOMAIN inFlight :
        LET e == inFlight[id]
        IN  /\ e.received = Cardinality(DOMAIN e.fragments)
            /\ e.received < e.total

(***************************************************************************)
(* Integrity: whatever insert returns is the whole of one message that was *)
(* sent, chunk by chunk, first byte to last, never a mixture of messages.  *)
(***************************************************************************)
Integrity == \A o \in outputs :
                 \E m \in Messages : outcome[m] = "ok" /\ Whole(o, m)

(***************************************************************************)
(* A message is never returned more often than each of its cells arrived:  *)
(* no completion re-uses fragments of an earlier one.                      *)
(***************************************************************************)
NoReplay == \A m \in Messages :
                \A c \in CellsOf(m) : returned[m] <= arrivals[c]

(***************************************************************************)
(* Messages whose id no other sent message carries.                        *)
(***************************************************************************)
Alone(m) == \A n \in Messages \ {m} :
                MessageId[n] = MessageId[m] => outcome[n] # "ok"

(***************************************************************************)
(* Once every cell of a message has been inserted, in whatever order and   *)
(* among whatever repetitions, the message has been returned, unless its   *)
(* id was evicted on the way.                                              *)
(***************************************************************************)
ArrivedMeansReturned ==
    \A m \in Messages :
        /\ outcome[m] = "ok"
        /\ Alone(m)
        /\ MessageId[m] \notin evicted
        /\ \A c \in CellsOf(m) : arrivals[c] > 0
        => returned[m] > 0

(***************************************************************************)
(* Without repetitions nothing is left behind: after a message has been    *)
(* returned its id is not pending, so pending_count counts real messages.  *)
(***************************************************************************)
NoResidue ==
    dups = 0 =>
        \A m \in Messages :
            Alone(m) /\ returned[m] > 0 => MessageId[m] \notin DOMAIN inFlight

(***************************************************************************)
(* fragment_message refuses a message only for its length: the number of   *)
(* cells of a message of at most MAX_MESSAGE_SIZE bytes fits the 16-bit    *)
(* sequence fields, so new_data never rejects a chunk of it.               *)
(***************************************************************************)
RefusedOnlyForLength ==
    \A m \in Messages :
        outcome[m] = "err" => MessageLen[m] \notin 1 .. MaxMessageSize

(***************************************************************************)
(* insert and evict: as long as an entry stays in in_flight its total is   *)
(* the same and a filled slot keeps its fragment, whatever cells arrive,   *)
(* repeated, foreign or rejected.                                          *)
(***************************************************************************)
FragmentsStick ==
    [][\A id \in DOMAIN inFlight \cap DOMAIN inFlight' :
          LET e == inFlight[id]
              d == inFlight'[id]
          IN  /\ d.total = e.total
              /\ DOMAIN e.fragments \subseteq DOMAIN d.fragments
              /\ \A i \in DOMAIN e.fragments : d.fragments[i] = e.fragments[i]
      ]_vars

==============================================================================
