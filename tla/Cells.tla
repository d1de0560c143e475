-------------------------------- MODULE Cells --------------------------------
(***************************************************************************)
(* veil-core: how a message becomes cells.  fragment_message               *)
(* (fragmentation.rs) cuts it into chunks of at most PAYLOAD_CAPACITY      *)
(* bytes and Cell::new_data (cell.rs) puts each one under a header whose   *)
(* sequence fields are 16 bits wide.                                       *)
(*                                                                         *)
(* A message is a model value with a length and the MessageId that         *)
(* fragment_message drew for it.  Its bytes are told apart by their        *)
(* position only, so a payload is the range of positions it carries.       *)
(***************************************************************************)
EXTENDS Naturals

CONSTANTS
    Capacity,    \* PAYLOAD_CAPACITY, 488 in the code
    SeqMax,      \* u16::MAX, 65535 in the code
    Messages,    \* every message a client may ask to send
    MessageLen,  \* length in bytes of each message
    Ids,         \* the values of the 16-byte MessageId
    MessageId    \* the id drawn for each message

ASSUME CapacityAssumption == Capacity \in Nat \ {0}

ASSUME SeqMaxAssumption == SeqMax \in Nat \ {0}

ASSUME MessageAssumption == /\ MessageLen \in [Messages -> Nat]
                            /\ MessageId \in [Messages -> Ids]

(***************************************************************************)
(* MAX_MESSAGE_SIZE, usize::div_ceil and the cast `as u16`.                *)
(***************************************************************************)
MaxMessageSize == Capacity * SeqMax

DivCeil(n, d) == (n + d - 1) \div d

\* Defect: the field has no room for the largest count.
AsU16Short(n) == n % SeqMax

AsU16(n) == n % (SeqMax + 1)

TotalCells(m) == DivCeil(MessageLen[m], Capacity)

(***************************************************************************)
(* The i-th item of message.chunks(PAYLOAD_CAPACITY): positions from       *)
(* (inclusive) to upto (exclusive), the last chunk possibly shorter.       *)
(***************************************************************************)
ChunkEnd(m, i) ==
    IF (i + 1) * Capacity < MessageLen[m] THEN (i + 1) * Capacity
                                          ELSE MessageLen[m]

Chunk(m, i) == [msg |-> m, from |-> i * Capacity, upto |-> ChunkEnd(m, i)]

(***************************************************************************)
(* The header of the i-th cell.  Version and type are constant for data    *)
(* cells and carry no information here.                                    *)
(***************************************************************************)
CellOf(m, i) == [id    |-> MessageId[m],
                 index |-> AsU16(i),
                 total |-> AsU16(TotalCells(m)),
                 data  |-> Chunk(m, i)]

CellsOf(m) == {CellOf(m, i) : i \in 0 .. TotalCells(m) - 1}

(***************************************************************************)
(* The checks of Cell::new_data, which Cell::from_bytes repeats on         *)
(* arrival.                                                                *)
(***************************************************************************)
NewDataOk(c) == /\ c.data.upto - c.data.from <= Capacity
                /\ c.total # 0
                /\ c.index < c.total

(***************************************************************************)
(* fragment_message returns Ok: the length is in range and no new_data     *)
(* call in the loop failed (`?` turns the first failure into the result).  *)
(***************************************************************************)
FragmentOk(m) == /\ MessageLen[m] # 0
                 /\ MessageLen[m] <= MaxMessageSize
                 /\ \A c \in CellsOf(m) : NewDataOk(c)

AllCells == UNION {CellsOf(m) : m \in Messages}
==============================================================================
