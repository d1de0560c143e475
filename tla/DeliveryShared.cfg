CONSTANTS
    alice = alice
    bob = bob
    pair = pair
    later = later
    dummy = dummy
    r1 = r1
    r2 = r2
    Capacity = 2
    SeqMax = 3
    Messages = {pair, later, dummy}
    MessageLen <- MCMessageLen
    Ids = {pair, later, dummy}
    MessageId <- MCMessageId
    Relays = {r1, r2}
    MailboxAddrs <- MCMailboxAddrs
    Receivers = {alice, bob}
    Recipient <- MCRecipient
    Nobody = Nobody
    Kind <- MCKind
    MaxFails = 1
SPECIFICATION Spec
INVARIANTS
    TypeOK
    OnlyOwnWhole
PROPERTY ImplementsHandover
