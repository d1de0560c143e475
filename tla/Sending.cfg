CONSTANTS
    long = long
    dummy = dummy
    r1 = r1
    r2 = r2
    r3 = r3
    Capacity = 2
    SeqMax = 3
    Messages = {long, dummy}
    MessageLen <- MCMessageLen
    Ids = {long, dummy}
    MessageId <- MCMessageId
    Relays = {r1, r2, r3}
    Address <- MCAddress
    Unknown = Unknown
    Topologies <- MCTopologies
    HopCounts = {3}
    Intervals <- MCIntervals
    Recipient <- MCRecipient
    Nobody = Nobody
    Kind <- MCKind
    Persistent = {r1}
    MaxFaults = 2
SPECIFICATION Spec
INVARIANTS
    TypeOK
    CircuitFollowed
    ExitAsReported
    PersistentRelaysPeel
    CoverInterval
CHECK_DEADLOCK FALSE
