------------------------------ MODULE EndToEnd -------------------------------
(***************************************************************************)
(* A client, the relays and a recipient together: Sending up to the exit   *)
(* relay, Delivery from there on.  What drives them is an application that *)
(* sends and keeps polling, or one run of veil-cli (main.rs), which sends  *)
(* one message to an identity of its own, waits, and receives once.  (The  *)
(* cover traffic task is left to Sending, and its dummies to Delivery.)    *)
(*                                                                         *)
(* The module extends Delivery, so the whole has names of its own for what *)
(* Delivery calls Init, Next, Spec and vars.                               *)
(***************************************************************************)
EXTENDS Delivery, FiniteSets

CONSTANTS
    Address, Unknown,                                         \* of Paths
    Topologies, HopCounts, Intervals, Persistent, MaxFaults,  \* of Sending
    CliUser,     \* the identity that veil-cli generates
    CliMessage,  \* the message it is asked to send
    MaxTroubles  \* bound on the faults of both halves together

ASSUME EndToEndAssumption ==
    /\ IsFiniteSet(Relays)
    /\ Topologies \subseteq SUBSET Relays
    /\ HopCounts \subseteq Nat
    /\ Intervals \subseteq Nat \X Nat
    /\ Persistent \subseteq Relays
    /\ MaxFaults \in Nat /\ MaxTroubles \in Nat
    /\ \A m \in Messages : Kind[m] = "dummy" => TotalCells(m) = 1
    /\ CliUser \in Receivers
    /\ CliMessage \in Messages
    /\ Recipient[CliMessage] = CliUser /\ Kind[CliMessage] = "data"

VARIABLES
    topology, hopCount, call, cover, identity, packets, route, visits,
    surfaced, unpeeled, faults,
    cli          \* veil-cli: where it is ("off": an application runs), the
                 \* mailbox addresses and the payloads it has printed

S == INSTANCE Sending

fabricVars == <<call, cover, identity, packets, route, visits, surfaced,
                unpeeled, faults>>
sendVars == <<topology, hopCount, fabricVars>>

systemVars == <<vars, sendVars, cli>>

SystemInit ==
    /\ Init /\ S!Init
    /\ cli \in {[pc |-> start, addrs |-> <<>>, printed |-> <<>>] :
                    start \in {"off", "start"}}

Sender(A) == A /\ UNCHANGED <<vars, cli>>

Recipients(A) == A /\ UNCHANGED <<sendVars, cli>>

------------------------------------------------------------------------------
(***************************************************************************)
(* The steps the two halves share: the exit relay's delivery, and a        *)
(* restart, which costs the relay its frames, its mailbox and, unless it   *)
(* is configured, its identity.                                            *)
(***************************************************************************)
Deliver(q) == S!PeelDeliver(q) /\ Exit(q.cell, q.at) /\ UNCHANGED cli

RestartRelay(r) == S!Restart(r) /\ Restart(r) /\ UNCHANGED cli

Relay(q) == Deliver(q) \/ Sender(S!PeelForward(q)) \/ Sender(S!PeelFails(q))

(***************************************************************************)
(* What may go wrong.                                                      *)
(***************************************************************************)
Fault == /\ faults + fails < MaxTroubles
         /\ \/ \E q \in packets : Sender(S!Lose(q))
            \/ \E m \in Messages : Sender(S!SendFails(m))
            \/ \E r \in Relays : RestartRelay(r)
            \/ \E p \in Receivers : Recipients(PullFails(p))

------------------------------------------------------------------------------
(***************************************************************************)
(* send on its own, and the part of it that waits for a relay: connecting  *)
(* to the first hop and writing the frame.                                 *)
(***************************************************************************)
SendAlone(m) == Sender(S!SendStarts(m) \/ S!NoPath(m) \/ S!SendReturns(m))

SendOut(m) == Sender(S!SendCell(m))

Send(m) == SendAlone(m) \/ SendOut(m)

(***************************************************************************)
(* The parts of a pull that receive and Receiver::poll have in common.     *)
(***************************************************************************)
Pull(p) == Recipients(Request(p) \/ Drain(p) \/ PullReturns(p))

(***************************************************************************)
(* An application: a VeilClient and a Receiver.                            *)
(***************************************************************************)
AppPoll(p) ==
    /\ cli.pc = "off"
    /\ Recipients(\/ PollStarts(p, MailboxAddrs[p])
                  \/ InsertNext(p) \/ PollReturns(p))

AppSend(m) == cli.pc = "off" /\ Send(m)

------------------------------------------------------------------------------
CliGoTo(pc) == cli' = [cli EXCEPT !.pc = pc]

(***************************************************************************)
(* topology.len().clamp(1, 3).                                             *)
(***************************************************************************)
Clamp(n) == IF n < 1 THEN 1 ELSE IF n > 3 THEN 3 ELSE n

(***************************************************************************)
(* run_self_hosted: n relays, circuits through all of them; n is the       *)
(* second argument, zero included, or 3.  run_external: the relays of a    *)
(* file, in the order of a HashMap, and the number of hops they allow.     *)
(***************************************************************************)
CliSetsUp(relays, hops, addrs) ==
    /\ cli.pc = "start"
    /\ topology' = relays
    /\ hopCount' = hops
    /\ cli' = [cli EXCEPT !.pc = "send", !.addrs = addrs]
    /\ UNCHANGED <<fabricVars, vars>>

CliSelfHosted(n) ==
    LET addrs == SubSeq(MailboxAddrs[CliUser], 1, n) IN CliSetsUp(Elems(addrs), n, addrs)

CliExternal(relays) ==
    \E addrs \in S!Shuffles(relays) : CliSetsUp(relays, Clamp(Cardinality(relays)), addrs)

(***************************************************************************)
(* parse_args, load_from_file or an address make it panic.                 *)
(***************************************************************************)
CliRefuses == /\ cli.pc = "start"
              /\ CliGoTo("panic")
              /\ UNCHANGED <<sendVars, vars>>

(***************************************************************************)
(* send_and_receive: send, or panic; sleep, for too short a time or not;   *)
(* receive, or panic; print what came, or exit with code 1.                *)
(***************************************************************************)
CliSends == cli.pc = "send" /\ SendAlone(CliMessage)

CliSendsOut == cli.pc = "send" /\ SendOut(CliMessage)

CliSent == /\ cli.pc = "send"
           /\ call[CliMessage].pc \in {"ok", "err"}
           /\ CliGoTo(IF call[CliMessage].pc = "ok" THEN "sleep" ELSE "panic")
           /\ UNCHANGED <<sendVars, vars>>

CliReceives == /\ cli.pc = "sleep"
               /\ PollStarts(CliUser, cli.addrs)
               /\ CliGoTo("receive")
               /\ UNCHANGED sendVars

CliReceiveFails == /\ cli.pc = "receive"
                   /\ phase[CliUser] = "idle"
                   /\ CliGoTo("panic")
                   /\ UNCHANGED <<sendVars, vars>>

\* Defect: only the first cell is printed.
PrintedFirst ==
    IF gathered[CliUser] = <<>> THEN <<>> ELSE <<Head(gathered[CliUser])>>

Printed == gathered[CliUser]

CliPrints ==
    /\ cli.pc = "receive"
    /\ phase[CliUser] = "insert"
    /\ cli' = [cli EXCEPT !.pc = IF gathered[CliUser] = <<>> THEN "exit1" ELSE "done",
                          !.printed = Printed]
    /\ phase' = [phase EXCEPT ![CliUser] = "idle"]
    /\ gathered' = [gathered EXCEPT ![CliUser] = <<>>]
    /\ UNCHANGED <<sendVars, relayVars, todo, reply, storeVars, fails>>

CliSteps == \/ \E n \in 0 .. Len(MailboxAddrs[CliUser]) : CliSelfHosted(n)
            \/ \E relays \in Topologies : CliExternal(relays)
            \/ CliRefuses \/ CliSends \/ CliSent
            \/ CliReceives \/ CliReceiveFails \/ CliPrints

Cli == CliSteps \/ CliSendsOut

------------------------------------------------------------------------------
SystemNext ==
    \/ \E m \in Messages : AppSend(m)
    \/ \E p \in Receivers : AppPoll(p) \/ Pull(p)
    \/ \E q \in packets : Relay(q)
    \/ \E r \in Relays : Recipients(Pump(r) \/ OrphanDrain(r))
    \/ Cli \/ Fault

System == SystemInit /\ [][SystemNext]_systemVars

(***************************************************************************)
(* Tasks that wait for nobody go on: relays read and pump, an application  *)
(* polls, veil-cli takes its own steps.  Nothing makes an application      *)
(* send, and nothing makes a peer answer: connect, write_frame and pull    *)
(* have no timeout, so SendCell and Pull may stay enabled for ever.        *)
(***************************************************************************)
Fairness == /\ WF_systemVars(\E q \in packets : Relay(q))
            /\ \A r \in Relays : WF_systemVars(Recipients(Pump(r)))
            /\ \A p \in Receivers : WF_systemVars(AppPoll(p))
            /\ WF_systemVars(CliSteps)

FairSystem == System /\ Fairness

------------------------------------------------------------------------------
Got(m) == \E p \in Receivers : \E i \in DOMAIN outputs[p] : Whole(outputs[p][i], m)

(***************************************************************************)
(* A message whose send returned Ok reaches its recipient, through every   *)
(* circuit, mailbox and poll, unless a fault got in the way: if every pull *)
(* is answered in the end, by the relay or by an error.                    *)
(***************************************************************************)
PullsAnswered == \A p \in Receivers : WF_systemVars(Pull(p))

EventuallyReturned ==
    PullsAnswered =>
        \A m \in Messages :
            cli.pc = "off" /\ call[m].pc = "ok" /\ Kind[m] = "data"
                ~> faults > 0 \/ fails > 0 \/ Got(m)

(***************************************************************************)
(* The sender's view is safe to act on: a message is returned only if its  *)
(* send went through the last cell, so one that failed may be sent again.  *)
(***************************************************************************)
ReturnedWasSent ==
    \A m \in Messages :
        Got(m) => call[m].pc # "err" /\ call[m].next = TotalCells(m)

(***************************************************************************)
(* What veil-cli prints is its own message's payloads, each at most once,  *)
(* and without faults no payload it drained is left out: what it does not  *)
(* print had not reached its mailbox.                                      *)
(***************************************************************************)
CliOutput ==
    LET printed == Elems(cli.printed)
        waiting == Waiting(channel) \cup Waiting(mailbox)
    IN  /\ printed \subseteq CellsOf(CliMessage)
        /\ Cardinality(printed) = Len(cli.printed)
        /\ cli.pc \in {"done", "exit1"} /\ fails = 0 =>
               (exited \cap CellsOf(CliMessage)) \ waiting = printed

(***************************************************************************)
(* veil-cli comes to an end in every mode, with any number of relays and   *)
(* whatever fails, or it waits for one peer for ever: for the connection   *)
(* or the write of a cell in send, or in one pull.  Relays that answer, or *)
(* break off, are all it needs.                                            *)
(***************************************************************************)
CliEnds ==
    cli.pc = "start" ~>
        \/ cli.pc \in {"done", "exit1", "panic"}
        \/ []S!More(CliMessage)
        \/ [](phase[CliUser] = "connect")
        \/ [](phase[CliUser] = "request")
        \/ [](phase[CliUser] = "reply")

(***************************************************************************)
(* `fragments took independent paths by design - receive polls every       *)
(* relay, so this is still fine` (main.rs): a message of several cells is  *)
(* printed whole and in order.                                             *)
(***************************************************************************)
CliPrintsWhole ==
    cli.pc = "done" =>
        cli.printed = [i \in 1 .. TotalCells(CliMessage) |-> CellOf(CliMessage, i - 1)]
==============================================================================
