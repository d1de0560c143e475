------------------------------ MODULE Delivery -------------------------------
(***************************************************************************)
(* From the exit relay to the recipient.  A relay's delivery channel is    *)
(* pumped into its Mailbox (veil-relay main.rs, mailbox.rs); a client      *)
(* pulls the mailbox over TCP (pull_listener.rs); Receiver::poll           *)
(* (veil-sdk receiver.rs) pulls every relay in turn, keeps what it can     *)
(* open and feeds it to its Reassembler.                                   *)
(*                                                                         *)
(* The queues hold envelopes; an envelope is named by the cell the sender  *)
(* put in it, and what is in it is Body of that cell (Envelopes).          *)
(***************************************************************************)
EXTENDS Reassembler, Envelopes, Sequences

CONSTANTS
    Relays,
    MailboxAddrs,  \* the mailboxes each client polls, in its order
    Receivers,     \* identities that poll
    MaxFails       \* bound on failed pulls and restarts

ASSUME DeliveryAssumption ==
    /\ MailboxAddrs \in [Receivers -> Seq(Relays)]
    /\ Nobody \notin Receivers
    /\ Recipient \in [Messages -> Receivers \cup {Nobody}]
    /\ MaxFails \in Nat
    /\ \A m \in Messages : FragmentOk(m)
    /\ \A m, n \in Messages : MessageId[m] = MessageId[n] => m = n

VARIABLES
    exited,    \* cells that an exit relay has peeled
    channel,   \* delivery_tx to delivery_rx of each relay
    mailbox,   \* Mailbox::queue of each relay
    phase,     \* where each receiver is in poll
    todo,      \* mailboxes it has still to pull, the current one first
    reply,     \* cells drained by the relay, not yet read by the client
    gathered,  \* `decrypted` in receive: cells opened, not yet inserted
    inFlight,  \* the Reassembler of each Receiver
    outputs,   \* messages each Receiver has completed, in order
    inserted,  \* cells each Receiver has inserted
    orphans,   \* at each relay, requests of clients that are gone
    fails      \* failed pulls and restarts so far

relayVars == <<exited, channel, mailbox, orphans>>
pollVars  == <<phase, todo, reply, gathered>>
storeVars == <<inFlight, outputs, inserted>>

vars == <<relayVars, pollVars, storeVars, fails>>

Init ==
    /\ exited = {}
    /\ channel = [r \in Relays |-> <<>>]
    /\ mailbox = [r \in Relays |-> <<>>]
    /\ phase = [p \in Receivers |-> "idle"]
    /\ todo = [p \in Receivers |-> <<>>]
    /\ reply = [p \in Receivers |-> <<>>]
    /\ gathered = [p \in Receivers |-> <<>>]
    /\ inFlight = [p \in Receivers |-> Empty]
    /\ outputs = [p \in Receivers |-> <<>>]
    /\ inserted = [p \in Receivers |-> {}]
    /\ orphans = [r \in Relays |-> 0]
    /\ fails = 0

------------------------------------------------------------------------------
(***************************************************************************)
(* A cell reaches the end of its circuit: handle_connection sends it to    *)
(* the delivery channel.  The sender chose the circuit at random, so any   *)
(* relay may be the exit; a cell arrives once (RelayNode).                 *)
(***************************************************************************)
Exit(c, r) ==
    /\ c \notin exited
    /\ exited' = exited \cup {c}
    /\ channel' = [channel EXCEPT ![r] = Append(@, c)]
    /\ UNCHANGED <<mailbox, orphans, pollVars, storeVars, fails>>

(***************************************************************************)
(* The task in main.rs that moves deliveries to the mailbox.               *)
(***************************************************************************)
Pump(r) ==
    /\ channel[r] # <<>>
    /\ channel' = [channel EXCEPT ![r] = Tail(@)]
    /\ mailbox' = [mailbox EXCEPT ![r] = Append(@, Head(channel[r]))]
    /\ UNCHANGED <<exited, orphans, pollVars, storeVars, fails>>

------------------------------------------------------------------------------
Polled(p) == Head(todo[p])

(***************************************************************************)
(* Receiver::poll calls receive, which goes through the addresses in their *)
(* order.                                                                  *)
(***************************************************************************)
Loop(addrs) == IF addrs = <<>> THEN "insert" ELSE "connect"

PollStarts(p, addrs) ==
    /\ phase[p] = "idle"
    /\ phase' = [phase EXCEPT ![p] = Loop(addrs)]
    /\ todo' = [todo EXCEPT ![p] = addrs]
    /\ UNCHANGED <<relayVars, reply, gathered, storeVars, fails>>

(***************************************************************************)
(* pull: connect and write the request byte.                               *)
(***************************************************************************)
Request(p) ==
    /\ phase[p] = "connect"
    /\ phase' = [phase EXCEPT ![p] = "request"]
    /\ UNCHANGED <<relayVars, todo, reply, gathered, storeVars, fails>>

\* Defect: the cells are copied out of the queue and left in it.
DrainCopies(p) ==
    /\ phase[p] = "request"
    /\ reply' = [reply EXCEPT ![p] = mailbox[Polled(p)]]
    /\ phase' = [phase EXCEPT ![p] = "reply"]
    /\ UNCHANGED <<relayVars, todo, gathered, storeVars, fails>>

(***************************************************************************)
(* handle_request: the queue is emptied under its lock before anything is  *)
(* written to the client.                                                  *)
(***************************************************************************)
Drain(p) ==
    /\ phase[p] = "request"
    /\ reply' = [reply EXCEPT ![p] = mailbox[Polled(p)]]
    /\ mailbox' = [mailbox EXCEPT ![Polled(p)] = <<>>]
    /\ phase' = [phase EXCEPT ![p] = "reply"]
    /\ UNCHANGED <<exited, channel, orphans, todo, gathered, storeVars, fails>>

(***************************************************************************)
(* The loop of receive over the bodies that pull returned.                 *)
(***************************************************************************)
Decrypted(p) ==
    LET opened[n \in 0 .. Len(reply[p])] ==
            IF n = 0 THEN <<>>
            ELSE IF Opens(p, Body(reply[p][n]))
                 THEN Append(opened[n - 1], Opened(Body(reply[p][n])))
                 ELSE opened[n - 1]
    IN  opened[Len(reply[p])]

\* Defect: the cells of one mailbox replace those of the mailboxes before it.
PullReplaces(p) ==
    /\ phase[p] = "reply"
    /\ gathered' = [gathered EXCEPT ![p] = Decrypted(p)]
    /\ reply' = [reply EXCEPT ![p] = <<>>]
    /\ todo' = [todo EXCEPT ![p] = Tail(@)]
    /\ phase' = [phase EXCEPT ![p] = Loop(Tail(todo[p]))]
    /\ UNCHANGED <<relayVars, storeVars, fails>>

\* Defect: a mailbox that held nothing for the client is asked once more.
PullRepeats(p) ==
    LET next == IF Decrypted(p) = <<>> THEN todo[p] ELSE Tail(todo[p])
    IN  /\ phase[p] = "reply"
        /\ gathered' = [gathered EXCEPT ![p] = @ \o Decrypted(p)]
        /\ reply' = [reply EXCEPT ![p] = <<>>]
        /\ todo' = [todo EXCEPT ![p] = next]
        /\ phase' = [phase EXCEPT ![p] = Loop(next)]
        /\ UNCHANGED <<relayVars, storeVars, fails>>

\* Defect: the loop over the addresses runs one past the last.
PullOverruns(p) ==
    /\ phase[p] = "reply"
    /\ gathered' = [gathered EXCEPT ![p] = @ \o Decrypted(p)]
    /\ reply' = [reply EXCEPT ![p] = <<>>]
    /\ todo' = [todo EXCEPT ![p] = Tail(@)]
    /\ phase' = [phase EXCEPT ![p] = "connect"]
    /\ UNCHANGED <<relayVars, storeVars, fails>>

(***************************************************************************)
(* pull has read every frame; what decrypts is kept, and the loop goes on  *)
(* with the next address or receive returns.                               *)
(***************************************************************************)
PullReturns(p) ==
    /\ phase[p] = "reply"
    /\ gathered' = [gathered EXCEPT ![p] = @ \o Decrypted(p)]
    /\ reply' = [reply EXCEPT ![p] = <<>>]
    /\ todo' = [todo EXCEPT ![p] = Tail(@)]
    /\ phase' = [phase EXCEPT ![p] = Loop(Tail(todo[p]))]
    /\ UNCHANGED <<relayVars, storeVars, fails>>

(***************************************************************************)
(* pull fails: the connection is refused, or breaks before or while the    *)
(* reply is read.  `?` returns the error from receive and from poll, and   *)
(* `decrypted` goes with it.  A request already sent stays with the relay. *)
(***************************************************************************)
PullFails(p) ==
    /\ phase[p] \in {"connect", "request", "reply"}
    /\ fails < MaxFails
    /\ fails' = fails + 1
    /\ orphans' = IF phase[p] = "request" THEN [orphans EXCEPT ![Polled(p)] = @ + 1]
                                          ELSE orphans
    /\ phase' = [phase EXCEPT ![p] = "idle"]
    /\ todo' = [todo EXCEPT ![p] = <<>>]
    /\ reply' = [reply EXCEPT ![p] = <<>>]
    /\ gathered' = [gathered EXCEPT ![p] = <<>>]
    /\ UNCHANGED <<exited, channel, mailbox, storeVars>>

(***************************************************************************)
(* handle_request for a client that is gone: it drains, and then the write *)
(* fails; or it never sees the request byte.                               *)
(***************************************************************************)
OrphanDrain(r) ==
    /\ orphans[r] > 0
    /\ orphans' = [orphans EXCEPT ![r] = @ - 1]
    /\ \/ mailbox' = [mailbox EXCEPT ![r] = <<>>]
       \/ UNCHANGED mailbox
    /\ UNCHANGED <<exited, channel, pollVars, storeVars, fails>>

(***************************************************************************)
(* The loop of poll over the cells that receive returned: one insert each; *)
(* an error of insert is ignored.                                          *)
(***************************************************************************)
InsertNext(p) ==
    /\ phase[p] = "insert"
    /\ gathered[p] # <<>>
    /\ LET c == Head(gathered[p])
       IN  /\ inFlight' = [inFlight EXCEPT ![p] = Inserted(inFlight[p], c)]
           /\ outputs' = IF Completes(inFlight[p], c)
                         THEN [outputs EXCEPT ![p] =
                                   Append(@, Message(inFlight[p], c))]
                         ELSE outputs
           /\ inserted' = [inserted EXCEPT ![p] = @ \cup {c}]
    /\ gathered' = [gathered EXCEPT ![p] = Tail(@)]
    /\ UNCHANGED <<relayVars, phase, todo, reply, fails>>

PollReturns(p) ==
    /\ phase[p] = "insert"
    /\ gathered[p] = <<>>
    /\ phase' = [phase EXCEPT ![p] = "idle"]
    /\ UNCHANGED <<relayVars, todo, reply, gathered, storeVars, fails>>

(***************************************************************************)
(* The relay process dies and starts again: its channel, its mailbox and   *)
(* the requests it had, all in memory, are gone.  The polls that wait for  *)
(* its reply fail, and of those whose reply was on its way the ones that   *)
(* the dead process had not sent whole.                                    *)
(***************************************************************************)
PollsAt(r, ph) == {p \in Receivers : phase[p] = ph /\ Polled(p) = r}

CutOff(r) == {PollsAt(r, "request") \cup late : late \in SUBSET PollsAt(r, "reply")}

Restart(r) ==
    /\ fails < MaxFails
    /\ fails' = fails + 1
    /\ channel' = [channel EXCEPT ![r] = <<>>]
    /\ mailbox' = [mailbox EXCEPT ![r] = <<>>]
    /\ orphans' = [orphans EXCEPT ![r] = 0]
    /\ \E cut \in CutOff(r) :
           LET Cleared(f, none) == [p \in Receivers |-> IF p \in cut THEN none ELSE f[p]]
           IN  /\ phase' = Cleared(phase, "idle")
               /\ todo' = Cleared(todo, <<>>)
               /\ reply' = Cleared(reply, <<>>)
               /\ gathered' = Cleared(gathered, <<>>)
    /\ UNCHANGED <<exited, storeVars>>

------------------------------------------------------------------------------
Poll(p) == \/ PollStarts(p, MailboxAddrs[p]) \/ Request(p) \/ Drain(p) \/ PullReturns(p)
           \/ InsertNext(p) \/ PollReturns(p)

Next == \/ \E r \in Relays : \/ \E c \in AllCells : Exit(c, r)
                             \/ Pump(r)
                             \/ OrphanDrain(r)
                             \/ Restart(r)
        \/ \E p \in Receivers : Poll(p) \/ PullFails(p)

Spec == Init /\ [][Next]_vars

------------------------------------------------------------------------------
Elems(s) == {s[i] : i \in DOMAIN s}

(***************************************************************************)
(* Type invariant.                                                         *)
(***************************************************************************)
TypeOK ==
    /\ exited \subseteq AllCells
    /\ channel \in [Relays -> Seq(AllCells)]
    /\ mailbox \in [Relays -> Seq(AllCells)]
    /\ phase \in [Receivers -> {"idle", "connect", "request", "reply", "insert"}]
    /\ todo \in [Receivers -> Seq(Relays)]
    /\ \A p \in Receivers : todo[p] # <<>>
                             <=> phase[p] \in {"connect", "request", "reply"}
    /\ reply \in [Receivers -> Seq(AllCells)]
    /\ gathered \in [Receivers -> Seq(AllCells)]
    /\ \A p \in Receivers : DOMAIN inFlight[p] \subseteq Ids
    /\ inserted \in [Receivers -> SUBSET AllCells]
    /\ orphans \in [Relays -> Nat]
    /\ fails \in 0 .. MaxFails

(***************************************************************************)
(* What a Receiver returns is the whole of one message that was encrypted  *)
(* for it.  Nothing filters dummy cells out before the Reassembler, which  *)
(* would return each one as a message of its own: only the throwaway key   *)
(* keeps them away, and only the version byte cells of a later format.     *)
(***************************************************************************)
OnlyOwnWhole ==
    \A p \in Receivers : \A i \in DOMAIN outputs[p] :
        \E m \in Messages : /\ Recipient[m] = p /\ Kind[m] = "data"
                            /\ Whole(outputs[p][i], m)

(***************************************************************************)
(* A cell that a client has pulled and decrypted stays with it until it is *)
(* inserted: fragments accumulate, however many polls it takes             *)
(* (receiver.rs).                                                          *)
(***************************************************************************)
OpenedCellsKept ==
    [][\A p \in Receivers :
          Elems(gathered[p]) \subseteq Elems(gathered'[p]) \cup inserted'[p]
      ]_vars

------------------------------------------------------------------------------
(***************************************************************************)
(* Channels, mailboxes, racing polls, failures, late drains and restarts   *)
(* hand each cell over at most once, and a message exactly when its        *)
(* recipient has every cell of it: Delivery implements Handover.           *)
(***************************************************************************)
Waiting(qs) == UNION {Elems(qs[x]) : x \in DOMAIN qs}

PlaceOf(c) ==
    LET Keeps(p) == c \in inserted[p]
        Holds(p) == c \in Elems(reply[p]) \/ c \in Elems(gathered[p])
        At(where, who) == [where |-> where, who |-> who]
    IN  CASE c \notin exited -> At("fabric", Nobody)
          [] \E p \in Receivers : Keeps(p) -> At("kept", CHOOSE p \in Receivers : Keeps(p))
          [] (~\E p \in Receivers : Keeps(p)) /\ (\E p \in Receivers : Holds(p))
                -> At("held", CHOOSE p \in Receivers : Holds(p))
          [] OTHER -> At(IF \E r \in Relays : c \in Elems(channel[r]) \/ c \in Elems(mailbox[r])
                         THEN "queued" ELSE "lost", Nobody)

PartsOf == [m \in Messages |-> CellsOf(m)]

Returned(o) == CHOOSE m \in Messages : Whole(o, m)

H == INSTANCE Handover WITH
        Parts     <- PartsOf,
        Addressee <- Recipient,
        Users     <- Receivers,
        place     <- [c \in AllCells |-> PlaceOf(c)],
        returned  <- [p \in Receivers |->
                         [i \in DOMAIN outputs[p] |-> Returned(outputs[p][i])]]

ImplementsHandover == H!Spec
==============================================================================
