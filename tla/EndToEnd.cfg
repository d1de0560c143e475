CONSTANTS
    alice = alice
    pair = pair
    r1 = r1
    r2 = r2
    Capacity = 2
    SeqMax = 3
    Messages = {pair}
    MessageLen <- MCMessageLen
    Ids = {pair}
    MessageId <- MCMessageId
    Recipient <- MCRecipient
    Nobody = Nobody
    Kind <- MCKind
    Relays = {r1, r2}
    Address <- MCAddress
    Unknown = Unknown
    Topologies <- MCTopologies
    HopCounts = {1, 2}
    Intervals = {}
    Persistent = {r1}
    MaxFaults = 2
    MailboxAddrs <- MCMailboxAddrs
    Receivers = {alice}
    MaxFails = 2
    CliUser = alice
    CliMessage = pair
    MaxTroubles = 2
SPECIFICATION FairSystem
INVARIANTS
    ReturnedWasSent
    CliOutput
PROPERTIES
    EventuallyReturned
    CliEnds
CHECK_DEADLOCK FALSE
