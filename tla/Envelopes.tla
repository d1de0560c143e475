------------------------------ MODULE Envelopes ------------------------------
(***************************************************************************)
(* What an exit relay delivers: the sender's ephemeral public key and an   *)
(* encrypted cell (veil-sdk session.rs, envelope.rs, veil-core crypto/),   *)
(* and how a recipient opens it (receiver.rs).                             *)
(*                                                                         *)
(* Bytes are kept as fields.  Cryptography is ideal: a key pair is its     *)
(* name, an exchange depends on the two names only, and a box opens with   *)
(* the very key it was closed with.                                        *)
(***************************************************************************)
EXTENDS Cells

CONSTANTS
    Recipient,  \* the identity each message is encrypted for
    Nobody,
    Kind        \* who made the message: "data", VeilClient::send; "dummy",
                \* cover traffic; "newer", a sender of a later version

ASSUME KindAssumption ==
    /\ Kind \in [Messages -> {"data", "dummy", "newer"}]
    /\ \A m \in Messages : Kind[m] = "dummy" => Recipient[m] = Nobody

(***************************************************************************)
(* Sizes in bytes (cell.rs, encryption.rs, envelope.rs).                   *)
(***************************************************************************)
CellSize == 24 + Capacity

EncryptedCellSize == 12 + CellSize + 16

EnvelopeSize == 32 + EncryptedCellSize

------------------------------------------------------------------------------
(***************************************************************************)
(* keys.rs: both sides of an exchange get the same secret; the context     *)
(* separates the keys derived from it.                                     *)
(***************************************************************************)
DiffieHellman(secret, public) == {secret, public}

DeriveKey(shared, context) == [shared |-> shared, context |-> context]

IdentityOf(p) == <<"identity", p>>

EphemeralOf(m) == <<"ephemeral", m>>

(***************************************************************************)
(* Session::establish, with a key pair of its own, and the key that the    *)
(* loop of cover_traffic.rs fills with random bytes and forgets.           *)
(***************************************************************************)
SessionKey(m) ==
    DeriveKey(DiffieHellman(EphemeralOf(m), IdentityOf(Recipient[m])),
              "veil-sdk-session-v1")

ThrowawayKey(m) == DeriveKey({<<"random", m>>}, "none")

(***************************************************************************)
(* Cell::to_bytes, and the checks of Cell::from_bytes; payload() cuts the  *)
(* padding off.                                                            *)
(***************************************************************************)
ProtocolVersion == 1

ToBytes(c, kind) ==
    [version     |-> IF kind = "newer" THEN ProtocolVersion + 1 ELSE ProtocolVersion,
     cell_type   |-> IF kind = "dummy" THEN 1 ELSE 0,
     message_id  |-> c.id,
     seq_index   |-> c.index,
     seq_total   |-> c.total,
     payload_len |-> c.data.upto - c.data.from,
     payload     |-> c.data]

\* Defect: the version is not looked at.
FromBytesAnyVersion(b) == /\ b.cell_type \in {0, 1}
                          /\ b.payload_len <= Capacity
                          /\ b.seq_total # 0 /\ b.seq_index < b.seq_total

FromBytesOk(b) == /\ b.version = ProtocolVersion
                  /\ b.cell_type \in {0, 1}
                  /\ b.payload_len <= Capacity
                  /\ b.seq_total # 0 /\ b.seq_index < b.seq_total

FromBytes(b) ==
    [id    |-> b.message_id,
     index |-> b.seq_index,
     total |-> b.seq_total,
     data  |-> [b.payload EXCEPT !.upto = b.payload.from + b.payload_len]]

(***************************************************************************)
(* The body of the innermost onion layer: encrypt_cell and wrap.           *)
(***************************************************************************)
EncryptCell(key, bytes) == [key |-> key, plain |-> bytes]

Wrap(public, box) == [length |-> EnvelopeSize, sender |-> public, box |-> box]

Body(c) ==
    LET m   == c.data.msg
        key == IF Kind[m] = "dummy" THEN ThrowawayKey(m) ELSE SessionKey(m)
    IN  Wrap(EphemeralOf(m), EncryptCell(key, ToBytes(c, Kind[m])))

------------------------------------------------------------------------------
(***************************************************************************)
(* The loop body of receive: unwrap, the key for this sender, decrypt_cell *)
(* and from_bytes; a body that fails one of them is passed over.           *)
(***************************************************************************)
UnwrapOk(b) == b.length = EnvelopeSize

ReceiveKey(p, sender) ==
    DeriveKey(DiffieHellman(IdentityOf(p), sender), "veil-sdk-session-v1")

DecryptCellOk(key, box) == box.key = key /\ FromBytesOk(box.plain)

Opens(p, b) == /\ UnwrapOk(b)
               /\ DecryptCellOk(ReceiveKey(p, b.sender), b.box)

Opened(b) == FromBytes(b.box.plain)
==============================================================================
