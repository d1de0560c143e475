----------------------------- MODULE MCDiscovery -----------------------------
(***************************************************************************)
(* Ports 0 to 9, with 4 between listen and mailbox port, and two hosts:    *)
(* the topology is discovered on here and loaded on there.  old and twin,  *)
(* on here, were both given port 1 (mailbox 5), twin on the wildcard; high *)
(* is on there, on the wildcard, with the id of old and a mailbox port     *)
(* that wraps to 3; typo has a secret that is not hex.                     *)
(***************************************************************************)
EXTENDS Discovery

CONSTANTS old, twin, high, typo, here, there

MCHost == [r \in Relays |-> IF r = high THEN there ELSE here]

At(h, p) == [host |-> h, port |-> p]

MCListenAddr == [r \in Relays |-> CASE r = old  -> At(here, 1)
                                    [] r = twin -> At(AnyHost, 1)
                                    [] r = high -> At(AnyHost, 9)
                                    [] r = typo -> At(here, 3)]

\* The relays are built alike, the client like them or not.
MCBuilds == {[x \in Relays \cup {Client} |-> IF x = Client THEN c ELSE b] :
                 b, c \in {"debug", "release"}}

MCConfig == [r \in Relays |-> CASE r = old -> "valid" [] r = typo -> "invalid"
                                [] OTHER -> "unset"]

MCRelayId == [r \in Relays |-> IF r = twin THEN "relay-2" ELSE "relay-1"]

\* The mailbox of old or twin is asked twice, and in between that of high.
MCAddresses == <<At(here, 5), At(there, 3), At(AnyHost, 5)>>

\* The listen port of old, by mistake, and then its mailbox port.
MCMistaken == <<At(here, 1), At(here, 5)>>

HandWritten(version, keys) ==
    [version |-> version,
     relays  |-> [i \in DOMAIN keys |->
                    [id |-> "relay-1", address |-> At(here, 1), key |-> keys[i]]]]

MCInitialFiles == {Absent, HandWritten(99, <<>>), HandWritten(1, <<<<>>>>),
                   HandWritten(1, <<<<high, 0>>, <<old, 0>>>>)}
==============================================================================
