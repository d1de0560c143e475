------------------------------ MODULE Handover -------------------------------
(***************************************************************************)
(* What mailboxes, pulls and receivers promise together, without relays,   *)
(* connections and reassembly.  A part of a message waits in a mailbox,    *)
(* may be taken by whoever polls, and is kept by its addressee or lost.    *)
(* There is one of it: no two users ever hold the same part, none is kept  *)
(* twice, and the part that makes a message complete returns the message.  *)
(***************************************************************************)
EXTENDS Sequences

CONSTANTS
    Messages,
    Parts,      \* the parts of each message
    Addressee,  \* the user each message is for, or Nobody
    Users,
    Nobody

VARIABLES
    place,      \* of each part: where it is, and with whom
    returned    \* the messages each user has been given, in order

vars == <<place, returned>>

AllParts == UNION {Parts[m] : m \in Messages}

At(where, who) == [where |-> where, who |-> who]

Init == /\ place = [c \in AllParts |-> At("fabric", Nobody)]
        /\ returned = [p \in Users |-> <<>>]

Queued == At("queued", Nobody)

(***************************************************************************)
(* A part leaves the fabric, once.                                         *)
(***************************************************************************)
Surface(c) == /\ place[c] = At("fabric", Nobody)
              /\ place' = [place EXCEPT ![c] = Queued]
              /\ UNCHANGED returned

(***************************************************************************)
(* A user takes parts, its own and those of others, out of a mailbox.      *)
(***************************************************************************)
Take(p) == /\ \A c \in AllParts :
                  \/ place'[c] = place[c]
                  \/ place[c] = Queued /\ place'[c] = At("held", p)
           /\ UNCHANGED returned

(***************************************************************************)
(* Parts are lost: with a relay or a connection, or because the user that  *)
(* took them cannot use them.  What is kept is never lost.                 *)
(***************************************************************************)
Lose == /\ \A c \in AllParts :
               \/ place'[c] = place[c]
               \/ /\ place[c].where \in {"queued", "held"}
                  /\ place'[c] = At("lost", Nobody)
        /\ UNCHANGED returned

(***************************************************************************)
(* A user keeps a part of a message for it.  The message is returned with  *)
(* the last of its parts, and at no other time.                            *)
(***************************************************************************)
Keep(m, c, p) ==
    /\ Addressee[m] = p
    /\ place[c] = At("held", p)
    /\ place' = [place EXCEPT ![c] = At("kept", p)]
    /\ returned' = IF \A d \in Parts[m] \ {c} : place[d] = At("kept", p)
                   THEN [returned EXCEPT ![p] = Append(@, m)]
                   ELSE returned

Next == \/ Lose
        \/ \E p \in Users : Take(p)
        \/ \E c \in AllParts : Surface(c)
        \/ \E m \in Messages, p \in Users : \E c \in Parts[m] : Keep(m, c, p)

Spec == Init /\ [][Next]_vars
==============================================================================
